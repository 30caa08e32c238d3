-------------------------------- MODULE Fares --------------------------------
(***************************************************************************)
(* The fare of a trip: calculate_fare and get_surge_multiplier.            *)
(*                                                                         *)
(* The code computes with floats of rupees and rounds to two digits.  Here *)
(* money is in paise, a distance in units of 50 m, a duration in units of  *)
(* 6 s and a surge in tenths, on which grid the product is an integer of   *)
(* tenths of a paisa.  Half a paisa may be rounded either way: what round  *)
(* does with it hangs on the binary fraction.                              *)
(***************************************************************************)
EXTENDS Integers

Tiers == {"ECONOMY", "PREMIUM", "LUXURY"}

\* base and minimum fare, and the rates per unit of distance and of duration
TIER_RATES ==
    [ECONOMY |-> [base |-> 3000, unit |-> 60, time |-> 20, min_fare |-> 5000],
     PREMIUM |-> [base |-> 6000, unit |-> 100, time |-> 30, min_fare |-> 10000],
     LUXURY |-> [base |-> 12000, unit |-> 175, time |-> 50, min_fare |-> 20000]]

SURGE_MAX == 30

Raw(tier, distance, duration) ==
    LET rates == TIER_RATES[tier] IN
    rates.base + rates.unit * distance + rates.time * duration

\* The minimum is forgotten.
CostNoMinimum(tier, distance, duration, surge) == Raw(tier, distance, duration) * surge

\* The exact fare, in tenths of a paisa.
Cost(tier, distance, duration, surge) ==
    LET raw == Raw(tier, distance, duration)
        min == TIER_RATES[tier].min_fare
    IN  (IF raw > min THEN raw ELSE min) * surge

\* The amounts to which the cost may be rounded.
Rounded(cost) == {f \in {cost \div 10, cost \div 10 + 1} :
                      10 * f <= cost + 5 /\ cost <= 10 * f + 5}

CalculateFare(tier, distance, duration, surge) ==
    Rounded(Cost(tier, distance, duration, surge))

\* surge:zone as it is read: absent or not a number, or a number of tenths.
GetSurgeMultiplier(val) ==
    IF val \notin Int THEN 10 ELSE IF val < SURGE_MAX THEN val ELSE SURGE_MAX

\* int(amount * 100): the binary product may be just below a whole number.
Paise(fare) == {fare - 1, fare}
=============================================================================

----------------------------- MODULE FaresProofs -----------------------------
(***************************************************************************)
(* The arithmetic of fares, for every distance, duration and surge.  The   *)
(* only products of two unknowns are those with the surge: TimesGrows      *)
(* carries them, the rest is linear.                                       *)
(***************************************************************************)
EXTENDS Fares, TLAPS

\* A product grows with its factor.
LEMMA TimesGrows ==
    ASSUME NEW a \in Nat, NEW b \in Nat, a <= b, NEW s \in Nat
    PROVE  a * s \in Nat /\ a * s <= b * s
OBVIOUS

\* The cost before the surge: what the kilometres and minutes make, or the minimum.
Base(tier, distance, duration) ==
    LET raw == Raw(tier, distance, duration)
        min == TIER_RATES[tier].min_fare
    IN  IF raw > min THEN raw ELSE min

\* Before the surge the cost is a natural number.
LEMMA BaseType ==
    ASSUME NEW tier \in Tiers, NEW d \in Nat, NEW t \in Nat
    PROVE  Base(tier, d, t) \in Nat
BY DEF Base, Raw, TIER_RATES, Tiers

\* The cost is the product of what the trip makes and the surge.
LEMMA CostIsBase ==
    ASSUME NEW tier \in Tiers, NEW d \in Nat, NEW t \in Nat, NEW s \in Nat
    PROVE  Cost(tier, d, t, s) = Base(tier, d, t) * s /\ Cost(tier, d, t, s) \in Nat
<1>1. Cost(tier, d, t, s) = Base(tier, d, t) * s
  BY DEF Base, Cost
<1>2. Base(tier, d, t) * s \in Nat
  BY BaseType, TimesGrows
<1> QED
  BY <1>1, <1>2

\* What CalculateFare returns is an integer within half a paisa of the cost.
LEMMA FareNearCost ==
    ASSUME NEW tier \in Tiers, NEW d \in Nat, NEW t \in Nat, NEW s \in Nat,
           NEW f \in CalculateFare(tier, d, t, s)
    PROVE  /\ f \in Int /\ Cost(tier, d, t, s) \in Nat
           /\ 10 * f <= Cost(tier, d, t, s) + 5 /\ Cost(tier, d, t, s) <= 10 * f + 5
<1>1. Cost(tier, d, t, s) \in Nat
  BY CostIsBase
<1> QED
  BY <1>1 DEF CalculateFare, Rounded

\* A fare is a number of paise, even if the surge is not positive.
LEMMA FareIsInt ==
    ASSUME NEW tier \in Tiers, NEW d \in Nat, NEW t \in Nat, NEW s \in Int,
           NEW f \in CalculateFare(tier, d, t, s)
    PROVE  f \in Int
<1>1. Cost(tier, d, t, s) = Base(tier, d, t) * s
  BY DEF Base, Cost
<1>2. Base(tier, d, t) * s \in Int
  BY BaseType
<1> QED
  BY <1>1, <1>2 DEF CalculateFare, Rounded

\* There always is a fare: the rounding leaves no gap.
THEOREM FareExists ==
    ASSUME NEW tier \in Tiers, NEW d \in Nat, NEW t \in Nat, NEW s \in Nat
    PROVE  \E f \in CalculateFare(tier, d, t, s) : f \in Nat
<1>1. Cost(tier, d, t, s) \in Nat
  BY CostIsBase
<1> DEFINE c == Cost(tier, d, t, s)
<1>2. c \div 10 \in Nat /\ 10 * (c \div 10) <= c /\ c <= 10 * (c \div 10) + 9
  BY <1>1
<1> QED
  BY <1>1, <1>2 DEF CalculateFare, Rounded

\* With a surge of 1 or more no fare is below the minimum of the tier, and the
\* provider is asked for at most a paisa less.  (max(raw, min_fare) in calculate_fare)
THEOREM MinimumKept ==
    ASSUME NEW tier \in Tiers, NEW d \in Nat, NEW t \in Nat, NEW s \in Nat, s >= 10,
           NEW f \in CalculateFare(tier, d, t, s), NEW p \in Paise(f)
    PROVE  f >= TIER_RATES[tier].min_fare /\ p >= TIER_RATES[tier].min_fare - 1
<1> DEFINE min == TIER_RATES[tier].min_fare
<1>1. min \in Nat /\ Base(tier, d, t) >= min
  BY DEF Base, Raw, TIER_RATES, Tiers
<1>2. min * 10 <= min * s
  <2>1. 10 * min \in Nat /\ 10 * min <= s * min
    BY <1>1, TimesGrows
  <2> QED
    BY <1>1, <2>1
<1>3. min * s <= Base(tier, d, t) * s
  BY <1>1, BaseType, TimesGrows
<1>4. min * 10 <= Cost(tier, d, t, s)
  <2> DEFINE m == min * s
  <2>1. m \in Nat
    BY <1>1, TimesGrows
  <2>2. Cost(tier, d, t, s) = Base(tier, d, t) * s /\ Cost(tier, d, t, s) \in Nat
    BY CostIsBase
  <2>3. min * 10 <= m /\ m <= Cost(tier, d, t, s)
    BY <1>2, <1>3, <2>2
  <2> HIDE DEF m, min
  <2> QED
    BY <1>1, <2>1, <2>2, <2>3
<1>5. f \in Int /\ Cost(tier, d, t, s) <= 10 * f + 5 /\ Cost(tier, d, t, s) \in Nat
  BY FareNearCost
<1>6. f >= min
  BY <1>1, <1>4, <1>5
<1> QED
  BY <1>1, <1>5, <1>6 DEF Paise

\* Rounding never turns an order of costs around.
LEMMA RoundingKeepsOrder ==
    ASSUME NEW c \in Nat, NEW e \in Nat, c < e,
           NEW f \in Int, 10 * f <= c + 5, NEW g \in Int, e <= 10 * g + 5
    PROVE  f <= g
OBVIOUS

\* Going further or taking longer never makes a ride cheaper, by more than the choice
\* that half a paisa leaves to the rounding of one and the same cost.
THEOREM FareRises ==
    ASSUME NEW tier \in Tiers, NEW s \in Nat,
           NEW d \in Nat, NEW e \in Nat, d <= e, NEW t \in Nat, NEW u \in Nat, t <= u,
           NEW f \in CalculateFare(tier, d, t, s), NEW g \in CalculateFare(tier, e, u, s)
    PROVE  f <= g \/ Cost(tier, d, t, s) = Cost(tier, e, u, s)
<1>1. Base(tier, d, t) <= Base(tier, e, u)
  BY DEF Base, Raw, TIER_RATES, Tiers
<1>2. Cost(tier, d, t, s) <= Cost(tier, e, u, s)
  BY <1>1, BaseType, CostIsBase, TimesGrows
<1>3. /\ f \in Int /\ 10 * f <= Cost(tier, d, t, s) + 5
      /\ g \in Int /\ Cost(tier, e, u, s) <= 10 * g + 5
      /\ Cost(tier, d, t, s) \in Nat /\ Cost(tier, e, u, s) \in Nat
  BY FareNearCost
<1> QED
  BY <1>2, <1>3, RoundingKeepsOrder

\* For one trip a better tier costs more, whatever the surge.  (tests/test_pricing.py
\* checks it of one trip)
THEOREM TiersAscend ==
    ASSUME NEW d \in Nat, NEW t \in Nat, NEW s \in Nat, s >= 10,
           NEW e \in CalculateFare("ECONOMY", d, t, s),
           NEW p \in CalculateFare("PREMIUM", d, t, s),
           NEW l \in CalculateFare("LUXURY", d, t, s)
    PROVE  e < p /\ p < l
<1>1. Base("ECONOMY", d, t) + 2 <= Base("PREMIUM", d, t)
  BY DEF Base, Raw, TIER_RATES
<1>2. Base("PREMIUM", d, t) + 2 <= Base("LUXURY", d, t)
  BY DEF Base, Raw, TIER_RATES
<1>3. ASSUME NEW a \in Nat, NEW b \in Nat, a + 2 <= b
      PROVE  a * s + 20 <= b * s
  <2>1. (a + 2) * s <= b * s
    BY <1>3, TimesGrows
  <2>2. (a + 2) * s = a * s + 2 * s
    OBVIOUS
  <2> QED
    BY <2>1, <2>2
<1>4. \A x \in Tiers : Base(x, d, t) \in Nat /\ Cost(x, d, t, s) = Base(x, d, t) * s
  BY BaseType, CostIsBase
<1>5. /\ Cost("ECONOMY", d, t, s) + 20 <= Cost("PREMIUM", d, t, s)
      /\ Cost("PREMIUM", d, t, s) + 20 <= Cost("LUXURY", d, t, s)
  BY <1>1, <1>2, <1>3, <1>4 DEF Tiers
<1>6. /\ e \in Int /\ 10 * e <= Cost("ECONOMY", d, t, s) + 5
      /\ Cost("ECONOMY", d, t, s) \in Nat
  BY FareNearCost DEF Tiers
<1>7. /\ p \in Int /\ 10 * p <= Cost("PREMIUM", d, t, s) + 5
      /\ Cost("PREMIUM", d, t, s) <= 10 * p + 5 /\ Cost("PREMIUM", d, t, s) \in Nat
  BY FareNearCost DEF Tiers
<1>8. /\ l \in Int /\ Cost("LUXURY", d, t, s) <= 10 * l + 5
      /\ Cost("LUXURY", d, t, s) \in Nat
  BY FareNearCost DEF Tiers
<1> QED
  BY <1>5, <1>6, <1>7, <1>8

\* Whatever is read of a surge zone, a fare is never multiplied by more than SURGE_MAX.
THEOREM SurgeCapped ==
    ASSUME NEW val
    PROVE  GetSurgeMultiplier(val) \in Int /\ GetSurgeMultiplier(val) <= SURGE_MAX
BY DEF GetSurgeMultiplier, SURGE_MAX
=============================================================================

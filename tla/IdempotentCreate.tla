-------------------------- MODULE IdempotentCreate ---------------------------
(***************************************************************************)
(* What a client of POST /v1/rides is promised: an Idempotency-Key gets at *)
(* most one ride, a ride serves one key, neither ever changes, and every   *)
(* answer to the key names that ride.                                      *)
(***************************************************************************)
CONSTANTS Keys, Ids, None

VARIABLES
    rideOf,     \* the ride of each key, or None
    told        \* the rides that the clients of each key were given

createVars == <<rideOf, told>>

Init == rideOf = [k \in Keys |-> None] /\ told = [k \in Keys |-> {}]

Create(k) ==
    /\ rideOf[k] = None
    /\ \E i \in Ids :
           /\ \A x \in Keys : rideOf[x] # i
           /\ rideOf' = [rideOf EXCEPT ![k] = i]
    /\ UNCHANGED told

Tell(k) ==
    /\ rideOf[k] # None
    /\ told' = [told EXCEPT ![k] = {rideOf[k]}]
    /\ UNCHANGED rideOf

Next == \E k \in Keys : Create(k) \/ Tell(k)

Spec == Init /\ [][Next]_createVars
=============================================================================

----------------------------- MODULE Assignment ------------------------------
(***************************************************************************)
(* What the service promises of a ride, however many handlers work on it:  *)
(* it is assigned to at most one driver, once, together with its trip, and *)
(* the trip is completed at most once and stays completed.                 *)
(***************************************************************************)
CONSTANTS Rides, Drivers, None

VARIABLES
    driver,     \* the driver of the ride, None until it is assigned
    trip        \* None, "IN_PROGRESS" or "COMPLETED"

assignmentVars == <<driver, trip>>

Init ==
    /\ driver = [r \in Rides |-> None]
    /\ trip = [r \in Rides |-> None]

Assign(r, d) ==
    /\ driver[r] = None /\ trip[r] = None
    /\ driver' = [driver EXCEPT ![r] = d]
    /\ trip' = [trip EXCEPT ![r] = "IN_PROGRESS"]

Finish(r) ==
    /\ trip[r] = "IN_PROGRESS"
    /\ trip' = [trip EXCEPT ![r] = "COMPLETED"]
    /\ UNCHANGED driver

Next == \E r \in Rides : Finish(r) \/ \E d \in Drivers : Assign(r, d)

Spec == Init /\ [][Next]_assignmentVars
=============================================================================

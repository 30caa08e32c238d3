----------------------------- MODULE MCDispatch ------------------------------
(* Instances of Dispatch for TLC. *)
EXTENDS Dispatch, TLC

\* Rides, drivers and request slots are interchangeable (safety runs only).
Symmetry == Permutations(Rides) \cup Permutations(Drivers)
            \cup Permutations(AcceptRequests) \cup Permutations(EndRequests)
=============================================================================

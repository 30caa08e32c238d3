------------------------------- MODULE EndTrip -------------------------------
(***************************************************************************)
(* end_trip: POST /v1/trips/{id}/end.  One transaction completes the trip, *)
(* moves the ride to COMPLETED and puts the driver back ONLINE; Redis is   *)
(* written before get_db commits.  A step ends at an await.                *)
(*                                                                         *)
(* The ride is loaded once.  transition_status selects it again, but in    *)
(* the same session: the identity map keeps the attributes of the first    *)
(* load, so the status that is checked is the one read at the start.       *)
(***************************************************************************)
EXTENDS RideStore

VARIABLE end        \* what each end request is doing

EndPc == {"idle", "load", "trip", "ride", "driver", "driverKey",
          "rideKey", "commit", "rollback"}
End == [pc : EndPc, ride : Rides \cup {None}, seen : RideStatus \cup {None}]
IdleEnd == [pc |-> "idle", ride |-> None, seen |-> None]

EndTypeOK ==
    /\ end \in [EndRequests -> End]
    /\ \A e \in EndRequests : end[e].pc # "idle" => end[e].ride \in Rides

EndInit == end = [e \in EndRequests |-> IdleEnd]

EndAt(e, pc) == end[e].pc = pc
EndGoTo(e, pc) == end' = [end EXCEPT ![e].pc = pc]
EndReturns(e) == end' = [end EXCEPT ![e] = IdleEnd]

\* The trip exists and is IN_PROGRESS; otherwise 404 or 409, nothing changed.
ReceiveEnd(e, r) ==
    /\ EndAt(e, "idle")
    /\ tripStatus[r] = "IN_PROGRESS"
    /\ end' = [end EXCEPT ![e] = [pc |-> "load", ride |-> r, seen |-> None]]
    /\ UNCHANGED storeVars

LoadRide(e) ==
    /\ EndAt(e, "load")
    /\ end' = [end EXCEPT ![e].pc = "trip", ![e].seen = rideStatus[end[e].ride]]
    /\ UNCHANGED storeVars

\* What transition_status asks the table: it selects the ride, but looks at the status
\* loaded at the start, so nobody can tell when it is asked.
MayComplete(e) == CanTransition(end[e].seen, "COMPLETED")

\* UPDATE trips by id: the trip's status is not checked again.  The ride's is checked
\* next; a refusal is not caught by the handler, so the whole request is rolled back.
CompleteTrip(e) ==
    LET r == end[e].ride IN
    /\ EndAt(e, "trip")
    /\ tripRow[r] = None
    /\ tripRow' = [tripRow EXCEPT ![r] = e]
    /\ EndGoTo(e, IF MayComplete(e) THEN "ride" ELSE "rollback")
    /\ UNCHANGED <<dbVars, rideRow, driverRow, redisVars>>

CompleteRide(e) ==
    LET r == end[e].ride IN
    /\ EndAt(e, "ride")
    /\ rideRow[r] = None
    /\ rideRow' = [rideRow EXCEPT ![r] = e]
    /\ EndGoTo(e, IF rideDriver[r] = None THEN "rideKey" ELSE "driver")
    /\ UNCHANGED <<dbVars, tripRow, driverRow, redisVars>>

\* set_status and increment_trips update the same row.
FreeDriver(e) ==
    LET d == rideDriver[end[e].ride] IN
    /\ EndAt(e, "driver")
    /\ driverRow[d] = None
    /\ driverRow' = [driverRow EXCEPT ![d] = e]
    /\ EndGoTo(e, "driverKey")
    /\ UNCHANGED <<dbVars, rideRow, tripRow, redisVars>>

SetDriverOnline(e) ==
    /\ EndAt(e, "driverKey")
    /\ driverKey' = [driverKey EXCEPT ![rideDriver[end[e].ride]] = "ONLINE"]
    /\ EndGoTo(e, "rideKey")
    /\ UNCHANGED <<dbVars, rowVars, offerKey, rideKey, assignLock, geo>>

SetRideCompleted(e) ==
    /\ EndAt(e, "rideKey")
    /\ rideKey' = [rideKey EXCEPT ![end[e].ride] = "COMPLETED"]
    /\ EndGoTo(e, "commit")
    /\ UNCHANGED <<dbVars, rowVars, offerKey, driverKey, assignLock, geo>>

\* The counter is read with the driver and written back: of two ends of one driver that
\* overlap, the one that commits first is overwritten by the other.
CommitLostUpdate(e) ==
    LET r == end[e].ride
        d == rideDriver[r]
        overwritten == \E f \in EndRequests \ {e} :
                           ~EndAt(f, "idle") /\ rideDriver[end[f].ride] = d IN
    /\ EndAt(e, "commit")
    /\ tripStatus' = [tripStatus EXCEPT ![r] = "COMPLETED"]
    /\ rideStatus' = [rideStatus EXCEPT ![r] = "COMPLETED"]
    /\ driverStatus' = [x \in Drivers |-> IF x = d THEN "ONLINE" ELSE driverStatus[x]]
    /\ totalTrips' = [x \in Drivers |-> IF x = d /\ ~overwritten THEN totalTrips[x] + 1
                                                                 ELSE totalTrips[x]]
    /\ ReleaseRows(e)
    /\ EndReturns(e)
    /\ UNCHANGED <<rideDriver, redisVars>>

CommitEnd(e) ==
    LET r == end[e].ride
        d == rideDriver[r] IN
    /\ EndAt(e, "commit")
    /\ tripStatus' = [tripStatus EXCEPT ![r] = "COMPLETED"]
    /\ rideStatus' = [rideStatus EXCEPT ![r] = "COMPLETED"]
    /\ driverStatus' = [x \in Drivers |-> IF x = d THEN "ONLINE" ELSE driverStatus[x]]
    /\ totalTrips' = [x \in Drivers |-> IF x = d THEN totalTrips[x] + 1
                                                 ELSE totalTrips[x]]
    /\ ReleaseRows(e)
    /\ EndReturns(e)
    /\ UNCHANGED <<rideDriver, redisVars>>

\* A session that commits what it has when the handler raises.
CommitOnError(e) ==
    LET r == end[e].ride IN
    /\ EndAt(e, "rollback")
    /\ tripStatus' = [tripStatus EXCEPT ![r] = IF tripRow[r] = e THEN "COMPLETED" ELSE @]
    /\ ReleaseRows(e)
    /\ EndReturns(e)
    /\ UNCHANGED <<rideStatus, rideDriver, driverStatus, totalTrips, redisVars>>

RollbackEnd(e) ==
    /\ EndAt(e, "rollback")
    /\ ReleaseRows(e)
    /\ EndReturns(e)
    /\ UNCHANGED <<dbVars, redisVars>>

EndStep(e) ==
    \/ LoadRide(e) \/ CompleteTrip(e) \/ CompleteRide(e)
    \/ FreeDriver(e) \/ SetDriverOnline(e) \/ SetRideCompleted(e)
    \/ CommitEnd(e) \/ RollbackEnd(e)

\* A Redis or database error raises inside the handler, or PostgreSQL does not commit.
\* (A commit that is applied and whose acknowledgement is lost is CommitEnd.)
EndFails(e) ==
    /\ end[e].pc \notin {"idle", "rollback"}
    /\ EndGoTo(e, "rollback")
    /\ UNCHANGED storeVars
=============================================================================

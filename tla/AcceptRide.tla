----------------------------- MODULE AcceptRide ------------------------------
(***************************************************************************)
(* accept_ride: POST /v1/drivers/{id}/accept.  The offer is checked first, *)
(* then the Redis lock is taken, then one transaction assigns the driver,  *)
(* inserts the trip and updates the driver, then Redis is written, the     *)
(* lock is released by the finally block, and only when the handler has    *)
(* returned does get_db commit.  A step ends at an await.                  *)
(***************************************************************************)
EXTENDS RideStore

VARIABLE accept     \* what each accept request is doing

\* "drop" and "rollback": the handler has raised; the lock, then the rows, go
AcceptPc == {"idle", "lock", "read", "ride", "driver", "driverKey", "rideKey",
             "release", "commit", "drop", "rollback"}
Accept == [pc : AcceptPc, ride : Rides \cup {None}, driver : Drivers \cup {None}]
IdleAccept == [pc |-> "idle", ride |-> None, driver |-> None]

AcceptTypeOK ==
    /\ accept \in [AcceptRequests -> Accept]
    /\ \A q \in AcceptRequests : accept[q].pc # "idle" =>
           accept[q].ride \in Rides /\ accept[q].driver \in Drivers

AcceptInit == accept = [q \in AcceptRequests |-> IdleAccept]

AcceptAt(q, pc) == accept[q].pc = pc
AcceptGoTo(q, pc) == accept' = [accept EXCEPT ![q].pc = pc]
AcceptReturns(q) == accept' = [accept EXCEPT ![q] = IdleAccept]

\* The offer is not compared with the caller.
AcceptUnoffered(q, r, d) ==
    /\ AcceptAt(q, "idle")
    /\ offerKey[r] # None
    /\ accept' = [accept EXCEPT ![q] = [pc |-> "lock", ride |-> r, driver |-> d]]
    /\ UNCHANGED storeVars

\* The offer on r is read and names d; every other request gets 409 here and
\* has changed nothing.
ReceiveAccept(q, r, d) ==
    /\ AcceptAt(q, "idle")
    /\ offerKey[r] = d
    /\ accept' = [accept EXCEPT ![q] = [pc |-> "lock", ride |-> r, driver |-> d]]
    /\ UNCHANGED storeVars

\* SET NX: taken, or 409.
TakeLock(q) ==
    LET r == accept[q].ride IN
    /\ AcceptAt(q, "lock")
    /\ \/ ~assignLock[r] /\ AcceptGoTo(q, "read")
       \/ assignLock[r] /\ AcceptReturns(q)
    /\ assignLock' = [assignLock EXCEPT ![r] = TRUE]
    /\ UNCHANGED <<dbVars, rowVars, offerKey, rideKey, driverKey, geo>>

\* assign_driver reads the ride, without locking the row, and checks the table.
ReadRide(q) ==
    LET allowed == CanTransition(rideStatus[accept[q].ride], "DRIVER_ASSIGNED") IN
    /\ AcceptAt(q, "read")
    /\ AcceptGoTo(q, IF allowed THEN "ride" ELSE "drop")
    /\ UNCHANGED storeVars

\* UPDATE rides, then INSERT INTO trips.  A committed trip of r cannot appear
\* between the two: inserting one takes the ride's row first.
WriteRideAndTrip(q) ==
    LET r == accept[q].ride IN
    /\ AcceptAt(q, "ride")
    /\ rideRow[r] = None
    /\ rideRow' = [rideRow EXCEPT ![r] = q]
    /\ AcceptGoTo(q, IF TripInsertFails(r) THEN "drop" ELSE "driver")
    /\ UNCHANGED <<dbVars, tripRow, driverRow, redisVars>>

\* The driver's status is updated outside the transaction.
WriteDriverUnlocked(q) ==
    /\ AcceptAt(q, "driver")
    /\ AcceptGoTo(q, "driverKey")
    /\ UNCHANGED storeVars

WriteDriver(q) ==
    LET d == accept[q].driver IN
    /\ AcceptAt(q, "driver")
    /\ driverRow[d] = None
    /\ driverRow' = [driverRow EXCEPT ![d] = q]
    /\ AcceptGoTo(q, "driverKey")
    /\ UNCHANGED <<dbVars, rideRow, tripRow, redisVars>>

SetDriverOnTrip(q) ==
    /\ AcceptAt(q, "driverKey")
    /\ driverKey' = [driverKey EXCEPT ![accept[q].driver] = "ON_TRIP"]
    /\ AcceptGoTo(q, "rideKey")
    /\ UNCHANGED <<dbVars, rowVars, offerKey, rideKey, assignLock, geo>>

SetRideAssigned(q) ==
    /\ AcceptAt(q, "rideKey")
    /\ rideKey' = [rideKey EXCEPT ![accept[q].ride] = "DRIVER_ASSIGNED"]
    /\ AcceptGoTo(q, "release")
    /\ UNCHANGED <<dbVars, rowVars, offerKey, driverKey, assignLock, geo>>

\* The finally block deletes the lock, whoever holds it by now; the rows stay
\* locked and the writes uncommitted.
ReleaseLock(q) ==
    /\ accept[q].pc \in {"release", "drop"}
    /\ assignLock' = [assignLock EXCEPT ![accept[q].ride] = FALSE]
    /\ AcceptGoTo(q, IF AcceptAt(q, "release") THEN "commit" ELSE "rollback")
    /\ UNCHANGED <<dbVars, rowVars, offerKey, rideKey, driverKey, geo>>

\* A session that is closed without a commit.
ForgetCommit(q) ==
    /\ AcceptAt(q, "commit")
    /\ ReleaseRows(q)
    /\ AcceptReturns(q)
    /\ UNCHANGED <<dbVars, redisVars>>

CommitAccept(q) ==
    LET r == accept[q].ride
        d == accept[q].driver IN
    /\ AcceptAt(q, "commit")
    /\ rideStatus' = [rideStatus EXCEPT ![r] = "DRIVER_ASSIGNED"]
    /\ rideDriver' = [rideDriver EXCEPT ![r] = d]
    /\ tripStatus' = [tripStatus EXCEPT ![r] = "IN_PROGRESS"]
    /\ driverStatus' = [driverStatus EXCEPT ![d] = "ON_TRIP"]
    /\ ReleaseRows(q)
    /\ AcceptReturns(q)
    /\ UNCHANGED <<totalTrips, redisVars>>

\* A failed session that is neither rolled back nor closed.
ForgetRollback(q) ==
    /\ AcceptAt(q, "rollback")
    /\ AcceptReturns(q)
    /\ UNCHANGED storeVars

RollbackAccept(q) ==
    /\ AcceptAt(q, "rollback")
    /\ ReleaseRows(q)
    /\ AcceptReturns(q)
    /\ UNCHANGED <<dbVars, redisVars>>

AcceptStep(q) ==
    \/ TakeLock(q) \/ ReadRide(q) \/ WriteRideAndTrip(q) \/ WriteDriver(q)
    \/ SetDriverOnTrip(q) \/ SetRideAssigned(q) \/ ReleaseLock(q)
    \/ CommitAccept(q) \/ RollbackAccept(q)

\* A Redis or database error: SET NX may have been applied and its answer lost,
\* which is before the try; inside it the lock is released, unless releasing is
\* what fails; or PostgreSQL does not commit.  (A commit that is applied and whose
\* acknowledgement is lost is CommitAccept, with another answer to the driver.)
AcceptFails(q) ==
    /\ \/ /\ AcceptAt(q, "lock") /\ AcceptReturns(q)
          /\ assignLock' = [assignLock EXCEPT ![accept[q].ride] = TRUE]
       \/ /\ accept[q].pc \in {"read", "ride", "driver", "driverKey", "rideKey"}
          /\ AcceptGoTo(q, "drop")
          /\ UNCHANGED assignLock
       \/ /\ accept[q].pc \in {"release", "drop", "commit"}
          /\ AcceptGoTo(q, "rollback")
          /\ UNCHANGED assignLock
    /\ UNCHANGED <<dbVars, rowVars, offerKey, rideKey, driverKey, geo>>
=============================================================================

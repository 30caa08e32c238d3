------------------------------ MODULE Dispatch -------------------------------
(***************************************************************************)
(* The life of rides from PENDING on: the matching task of every ride, the *)
(* accept, end-trip and location handlers, the expiry of Redis keys and    *)
(* the faults of the environment, interleaved at every await.              *)
(***************************************************************************)
EXTENDS Matching, AcceptRide, EndTrip, Presence

CONSTANT Faults     \* whether stores fail and the server crashes

ASSUME FaultsAssumption == Faults \in BOOLEAN

vars == <<storeVars, matchingVars, accept, end, ping>>

TypeOK == /\ StoreTypeOK /\ MatchingTypeOK
          /\ AcceptTypeOK /\ EndTypeOK /\ PingTypeOK

Init == StoreInit /\ MatchingInit /\ AcceptInit /\ EndInit /\ PingInit

(***************************************************************************)
(* Redis expiry.  An entry that outlives every reader never expires here:  *)
(* the outcomes in ride:status (3600 s).                                   *)
(***************************************************************************)
ExpireOffer(r) ==
    /\ offerKey[r] # None
    /\ offerKey' = [offerKey EXCEPT ![r] = None]
    /\ UNCHANGED <<dbVars, rowVars, rideKey, driverKey, assignLock, geo>>

ExpireMatching(r) ==
    /\ rideKey[r] = "MATCHING"
    /\ rideKey' = [rideKey EXCEPT ![r] = None]
    /\ UNCHANGED <<dbVars, rowVars, offerKey, driverKey, assignLock, geo>>

ExpireLock(r) ==
    /\ assignLock[r]
    /\ assignLock' = [assignLock EXCEPT ![r] = FALSE]
    /\ UNCHANGED <<dbVars, rowVars, offerKey, rideKey, driverKey, geo>>

\* The server dies: tasks and requests are gone, open transactions are rolled
\* back by PostgreSQL, and Redis (appendonly) keeps its keys.
Crash ==
    /\ task' = [r \in Rides |-> IF task[r].pc \in TaskOver THEN task[r]
                                ELSE [task[r] EXCEPT !.pc = "dead"]]
    /\ accept' = [q \in AcceptRequests |-> IdleAccept]
    /\ end' = [e \in EndRequests |-> IdleEnd]
    /\ ping' = [p \in PingRequests |-> IdlePing]
    /\ rideRow' = [r \in Rides |-> None]
    /\ tripRow' = [r \in Rides |-> None]
    /\ driverRow' = [d \in Drivers |-> None]
    /\ UNCHANGED <<dbVars, redisVars, offered>>

TaskActs(r) == MatchingStep(r) /\ UNCHANGED <<accept, end, ping>>
AcceptActs(q) == AcceptStep(q) /\ UNCHANGED <<matchingVars, end, ping>>
EndActs(e) == EndStep(e) /\ UNCHANGED <<matchingVars, accept, ping>>
PingActs(p) == PingStep(p) /\ UNCHANGED <<matchingVars, accept, end>>

Request ==
    \/ /\ \E q \in AcceptRequests, r \in Rides, d \in Drivers : ReceiveAccept(q, r, d)
       /\ UNCHANGED <<matchingVars, end, ping>>
    \/ /\ \E e \in EndRequests, r \in Rides : ReceiveEnd(e, r)
       /\ UNCHANGED <<matchingVars, accept, ping>>
    \/ /\ \E p \in PingRequests, d \in Drivers : ReceivePing(p, d)
       /\ UNCHANGED <<matchingVars, accept, end>>

Expire ==
    /\ \E r \in Rides : ExpireOffer(r) \/ ExpireMatching(r) \/ ExpireLock(r)
    /\ UNCHANGED <<matchingVars, accept, end, ping>>

Fault ==
    /\ Faults
    /\ \/ Crash
       \/ /\ \E r \in Rides : TaskFails(r)
          /\ UNCHANGED <<accept, end, ping>>
       \/ /\ \E q \in AcceptRequests : AcceptFails(q)
          /\ UNCHANGED <<matchingVars, end, ping>>
       \/ /\ \E e \in EndRequests : EndFails(e)
          /\ UNCHANGED <<matchingVars, accept, ping>>
       \/ /\ \E p \in PingRequests : PingFails(p)
          /\ UNCHANGED <<matchingVars, accept, end>>

Next ==
    \/ \E r \in Rides : TaskActs(r)
    \/ \E q \in AcceptRequests : AcceptActs(q)
    \/ \E e \in EndRequests : EndActs(e)
    \/ \E p \in PingRequests : PingActs(p)
    \/ Request
    \/ Expire
    \/ Fault

Spec == Init /\ [][Next]_vars

\* The event loop runs every task and handler to its end, and PostgreSQL queues
\* the transactions that wait for a row, so none of them is passed over forever.
\* Drivers need not call anything, and no fault has to happen.
Fairness ==
    /\ \A r \in Rides : SF_vars(TaskActs(r))
    /\ \A q \in AcceptRequests : SF_vars(AcceptActs(q))
    /\ \A e \in EndRequests : SF_vars(EndActs(e))
    /\ \A p \in PingRequests : WF_vars(PingActs(p))

FairSpec == Spec /\ Fairness

-----------------------------------------------------------------------------
(* Safety *)

Open(r) == rideStatus[r] \in {"PENDING", "MATCHING"}

\* What the two tables say of a ride agrees, in every committed state, whatever
\* raced, failed or crashed: a driver is recorded exactly when there is a trip, a
\* ride that is still open has none, an assigned ride has a trip in progress and a
\* completed one a completed trip.  (accept_ride and end_trip, one transaction each)
TripMatchesRide ==
    \A r \in Rides :
        /\ rideDriver[r] = None <=> tripStatus[r] = None
        /\ Open(r) => tripStatus[r] = None
        /\ rideStatus[r] = "DRIVER_ASSIGNED" => tripStatus[r] = "IN_PROGRESS"
        /\ rideStatus[r] = "COMPLETED" => tripStatus[r] = "COMPLETED"

\* Only a driver to whom matching has offered the ride ever gets it, however late
\* the accept arrives and whatever has happened to the offer since it was read.
\* (_try_radius, accept_ride)
OnlyOffered ==
    \A r \in Rides : rideDriver[r] # None => rideDriver[r] \in offered[r]

\* drivers.total_trips never misses a completed trip of the driver, however the
\* end-trip requests of one driver interleave.  (increment_trips adds in SQL)
TripsCounted ==
    \A d \in Drivers :
        totalTrips[d] >= Cardinality({r \in Rides : /\ rideDriver[r] = d
                                                    /\ tripStatus[r] = "COMPLETED"})

Agree(d) == driverKey[d] = driverStatus[d]

\* The transaction that holds d's row has not written d's Redis status yet, or has
\* written there what it is going to commit.
HolderTrue(d) ==
    LET h == driverRow[d] IN
    /\ h \in AcceptRequests =>
           \/ AcceptAt(h, "driverKey")
           \/ accept[h].pc \in {"rideKey", "release", "commit"} /\ driverKey[d] = "ON_TRIP"
    /\ h \in EndRequests =>
           \/ EndAt(h, "driverKey")
           \/ end[h].pc \in {"rideKey", "commit"} /\ driverKey[d] = "ONLINE"

InAgreement(d) ==
    /\ driverRow[d] = None => driverKey[d] = None \/ Agree(d)
    /\ HolderTrue(d)

\* A location of d has found no status in Redis and is going to write the one it has read.
FirstLocation(d) == \E p \in PingRequests : PingAt(p, "seed") /\ ping[p].driver = d

\* While no store fails, Redis and the database give the same status to every driver
\* whose row no transaction holds, and nothing but the write of a driver's first location
\* can part them: accept_ride and end_trip write the Redis status before they commit, but
\* while they hold the driver's row, so two of them cannot leave the two stores in
\* opposite orders.
DriverKeyAgrees ==
    /\ \A d \in Drivers : InAgreement(d)
    /\ [][\A d \in Drivers :
              InAgreement(d) /\ ~FirstLocation(d) => InAgreement(d)']_vars

\* While no store fails: of two first locations one may write an old status over a
\* newer one (update_location), but that is all.  Once a driver has a status in Redis on
\* which the two stores agree, and no location is left that has found none, it stays so
\* for ever, however accepts, trip ends and locations interleave: no later location
\* seeds the status again.
Settled(d) == driverKey[d] # None /\ InAgreement(d) /\ ~FirstLocation(d)

SettledStays == [][\A d \in Drivers : Settled(d) => Settled(d)']_vars

\* An accept has written the assignment of the ride to Redis and is about to commit it.
Announced(r) ==
    \E q \in AcceptRequests : accept[q].ride = r /\ accept[q].pc \in {"release", "commit"}

\* While no store fails, Redis does not announce an outcome of a ride that is still
\* open in the database, except for the moment in which the accept that has written
\* it is about to commit: run_matching and _poll_for_acceptance, which look at Redis
\* alone, never stop for a ride that stays open.
RideKeyTrue == \A r \in Rides : Decided(r) => ~Open(r) \/ Announced(r)

\* While no store fails, nobody forgets a ride: one that is open has a task that goes on
\* searching, or an accept that is about to commit it, although tasks stop at what Redis
\* says; and a task that stops because of a match leaves the ride to its trip.
\* (run_matching, _poll_for_acceptance)
NobodyForgotten ==
    \A r \in Rides :
        /\ Open(r) => task[r].pc \notin TaskOver \/ Announced(r)
        /\ At(r, "matched") => tripStatus[r] # None \/ Announced(r)

\* The request waits for a row that h's transaction holds.
AcceptWaitsFor(q, h) ==
    \/ AcceptAt(q, "ride") /\ rideRow[accept[q].ride] = h
    \/ AcceptAt(q, "driver") /\ driverRow[accept[q].driver] = h

EndWaitsFor(e, h) ==
    \/ EndAt(e, "trip") /\ tripRow[end[e].ride] = h
    \/ EndAt(e, "ride") /\ rideRow[end[e].ride] = h
    \/ EndAt(e, "driver") /\ driverRow[rideDriver[end[e].ride]] = h

WaitsFor(x, h) == \/ x \in AcceptRequests /\ AcceptWaitsFor(x, h)
                  \/ x \in EndRequests /\ EndWaitsFor(x, h)

\* Transactions never wait for each other's rows in a circle, whatever fails on the way:
\* among any requests there is one that waits for none of them.  (accept_ride, end_trip)
NoCircularWait ==
    \A S \in (SUBSET Requests) \ {{}} : \E x \in S : \A h \in S : ~WaitsFor(x, h)

\* The committed rows implement the promise of module Assignment: two accepts never
\* both win a ride, a trip ends at most once.  The lock of accept_ride is gone before
\* its commit; it is the unique index on trips.ride_id that decides.
A == INSTANCE Assignment WITH driver <- rideDriver, trip <- tripStatus
ImplementsAssignment == A!Spec

-----------------------------------------------------------------------------
(* The inductive invariant behind TripMatchesRide, OnlyOffered and A!Spec *)

\* A ride whose matching has not begun has been offered to nobody.
FreshRides ==
    \A r \in Rides :
        At(r, "start") => rideStatus[r] = "PENDING" /\ offered[r] = {}

OffersFlagged ==
    \A r \in Rides : offerKey[r] # None => offerKey[r] \in offered[r]

\* A handler of accept_ride works for a driver the ride was offered to.  Once its
\* INSERT has succeeded it holds the ride's row, and nobody else can give the ride
\* a trip before it commits.
AcceptInv ==
    \A q \in AcceptRequests : ~AcceptAt(q, "idle") =>
        /\ accept[q].driver \in offered[accept[q].ride]
        /\ accept[q].pc \in {"driver", "driverKey", "rideKey", "release", "commit"} =>
               rideRow[accept[q].ride] = q /\ tripStatus[accept[q].ride] = None

EndInv ==
    \A e \in EndRequests : ~EndAt(e, "idle") => tripStatus[end[e].ride] # None

Coupling == /\ TripMatchesRide /\ OnlyOffered
            /\ FreshRides /\ OffersFlagged /\ AcceptInv /\ EndInv

IInv == TypeOK /\ Coupling

-----------------------------------------------------------------------------
(* Liveness, while no store fails *)

\* Every ride is eventually assigned or cancelled.  (run_matching)
EveryRideDecided == \A r \in Rides : Open(r) ~> ~Open(r)

\* When the matching task stops because it saw DRIVER_ASSIGNED in Redis, which is
\* written before the commit, the ride does get its trip.  (_poll_for_acceptance)
MatchedIsAssigned == \A r \in Rides : At(r, "matched") ~> tripStatus[r] # None

\* Every handler that takes rows returns: no two transactions wait for each other's rows.
\* (accept_ride takes ride, driver; end_trip takes trip, ride, driver)
RequestsReturn ==
    /\ \A q \in AcceptRequests : ~AcceptAt(q, "idle") ~> AcceptAt(q, "idle")
    /\ \A e \in EndRequests : ~EndAt(e, "idle") ~> EndAt(e, "idle")

-----------------------------------------------------------------------------
(* What the documents say and the code does not keep *)

\* service.py says that when a driver accepts, the matching task exits, and that
\* it cancels when all radii are exhausted: a ride with a trip is not cancelled.
AssignedNotCancelled ==
    \A r \in Rides : tripStatus[r] # None => rideStatus[r] # "CANCELLED"

\* POST /trips/{id}/end ends an in-progress trip: it is counted once.
TripEndedOnce ==
    \A d \in Drivers :
        totalTrips[d] = Cardinality({r \in Rides : /\ rideDriver[r] = d
                                                   /\ tripStatus[r] = "COMPLETED"})
=============================================================================

--------------------------- MODULE DispatchProofs ----------------------------
(***************************************************************************)
(* Proofs about module Dispatch, for every set of rides, drivers and       *)
(* request slots, any number of radii, and with or without faults.         *)
(***************************************************************************)
EXTENDS Dispatch, FiniteSetTheorems, TLAPS

\* A transaction that ends leaves its own rows free and the others as they were.
LEMMA UnlockType ==
    ASSUME NEW S, NEW rows \in [S -> Requests \cup {None}], NEW q
    PROVE  Unlock(rows, q) \in [S -> Requests \cup {None}]
  BY DEF Unlock

\* A row that another transaction holds is not freed.
LEMMA UnlockOther ==
    ASSUME NEW S, NEW rows \in [S -> Requests \cup {None}], NEW q, NEW x \in S,
           rows[x] # q
    PROVE  Unlock(rows, q)[x] = rows[x]
  BY DEF Unlock

\* Freeing rows keeps the types of the row locks.
LEMMA ReleaseType ==
    ASSUME StoreTypeOK, NEW q, ReleaseRows(q)
    PROVE  /\ rideRow' \in [Rides -> Requests \cup {None}]
           /\ tripRow' \in [Rides -> Requests \cup {None}]
           /\ driverRow' \in [Drivers -> Requests \cup {None}]
  BY UnlockType DEF StoreTypeOK, ReleaseRows

-----------------------------------------------------------------------------
(* Types *)

\* The initial states are well typed.
LEMMA InitType == Init => TypeOK
  BY StoreAssumption, MatchingAssumption
  DEF Init, TypeOK, StoreInit, StoreTypeOK, MatchingInit, MatchingTypeOK, Task, TaskPc,
      TaskOver, AcceptInit, AcceptTypeOK, Accept, AcceptPc, IdleAccept, EndInit,
      EndTypeOK, End, EndPc, IdleEnd, PingInit, PingTypeOK, Ping, IdlePing,
      RideStatus, TripStatus, DriverStatus

\* Updating one task with a well-formed record keeps all of them well-formed.
LEMMA TaskUpdate ==
    ASSUME MatchingTypeOK, NEW r \in Rides, NEW t \in Task,
           t.pc = "offer" => t.candidate \in Drivers,
           task' = [task EXCEPT ![r] = t]
    PROVE  /\ task' \in [Rides -> Task]
           /\ \A x \in Rides : task'[x].pc = "offer" => task'[x].candidate \in Drivers
  BY DEF MatchingTypeOK

\* Moving one task to a pc other than "offer" keeps the matching state well typed.
LEMMA GoToType ==
    ASSUME MatchingTypeOK, NEW r \in Rides, NEW pc \in TaskPc \ {"offer"}, GoTo(r, pc)
    PROVE  /\ task' \in [Rides -> Task]
           /\ \A x \in Rides : task'[x].pc = "offer" => task'[x].candidate \in Drivers
<1> DEFINE t == [task[r] EXCEPT !.pc = pc]
<1>1. t \in Task /\ t.pc # "offer"
  BY DEF MatchingTypeOK, Task
<1>2. task' = [task EXCEPT ![r] = t]
  BY DEF GoTo
<1> HIDE DEF t
<1> QED
  BY <1>1, <1>2, TaskUpdate

\* The steps of the matching task keep the types.
LEMMA TaskType ==
    ASSUME TypeOK, NEW r \in Rides, MatchingStep(r)
    PROVE  StoreTypeOK' /\ MatchingTypeOK'
<1> USE DEF StoreTypeOK, MatchingTypeOK, TaskPc, TaskOver,
      dbVars, rowVars, redisVars, storeVars
<1>0. StoreTypeOK /\ MatchingTypeOK
  BY DEF TypeOK
<1>1. CASE StartMatching(r)
  BY <1>0, <1>1, GoToType DEF StartMatching, RideStatus
<1>2. CASE PublishMatching(r)
  BY <1>0, <1>2, GoToType DEF PublishMatching, RideStatus
<1>3. CASE SearchRadius(r)
  <2>1. PICK found \in SUBSET geo :
            task' = [task EXCEPT ![r].todo = found, ![r].pc = "next"]
    BY <1>3 DEF SearchRadius
  <2> DEFINE t == [task[r] EXCEPT !.todo = found, !.pc = "next"]
  <2>2. t \in Task /\ t.pc # "offer" /\ task' = [task EXCEPT ![r] = t]
    BY <1>0, <2>1 DEF Task
  <2> QED
    BY <1>0, <1>3, <2>2, TaskUpdate DEF SearchRadius
<1>4. ASSUME NEW d \in Drivers, SkipCandidate(r, d) \/ ChooseCandidate(r, d)
      PROVE  StoreTypeOK' /\ MatchingTypeOK'
  <2> DEFINE s == [task[r] EXCEPT !.todo = @ \ {d}]
             t == [task[r] EXCEPT !.todo = @ \ {d}, !.candidate = d, !.pc = "offer"]
  <2>1. s \in Task /\ (s.pc = "offer" => s.candidate \in Drivers)
    BY <1>0 DEF Task
  <2>2. t \in Task /\ t.candidate \in Drivers
    BY <1>0 DEF Task
  <2>3. task' = [task EXCEPT ![r] = s] \/ task' = [task EXCEPT ![r] = t]
    BY <1>4 DEF SkipCandidate, ChooseCandidate
  <2> HIDE DEF s, t
  <2>4. UNCHANGED <<storeVars, offered>>
    BY <1>4 DEF SkipCandidate, ChooseCandidate
  <2> QED
    BY <1>0, <2>1, <2>2, <2>3, <2>4, TaskUpdate
<1>5. CASE MakeOffer(r)
  <2> DEFINE t == [task[r] EXCEPT !.pc = "poll", !.candidate = None]
  <2>1. t \in Task /\ t.pc # "offer" /\ task' = [task EXCEPT ![r] = t]
    BY <1>0, <1>5 DEF MakeOffer, Task
  <2>2. task[r].candidate \in Drivers
    BY <1>0, <1>5 DEF MakeOffer, At
  <2> HIDE DEF t
  <2> QED
    BY <1>0, <1>5, <2>1, <2>2, TaskUpdate DEF MakeOffer
<1>6. CASE PollDecided(r) \/ PollTimeout(r) \/ RadiusExhausted(r) \/ CancelRead(r)
  BY <1>0, <1>6, GoToType DEF PollDecided, PollTimeout, RadiusExhausted, CancelRead
<1>7. CASE WithdrawOffer(r)
  BY <1>0, <1>7, GoToType DEF WithdrawOffer
<1>8. CASE BetweenRadii(r)
  <2> DEFINE t == [task[r] EXCEPT !.radius = @ + 1, !.pc = "search"]
  <2>1. CASE task[r].radius < Radii /\ task' = [task EXCEPT ![r] = t]
    <3>1. task[r].radius + 1 \in 1 .. Radii
      BY <1>0, <2>1, MatchingAssumption DEF Task
    <3>2. t \in Task /\ t.pc # "offer"
      BY <1>0, <3>1 DEF Task
    <3> HIDE DEF t
    <3> QED
      BY <1>0, <1>8, <2>1, <3>2, TaskUpdate DEF BetweenRadii
  <2>2. CASE GoTo(r, "decided") \/ GoTo(r, "cancelRead")
    BY <1>0, <1>8, <2>2, GoToType DEF BetweenRadii
  <2> QED
    BY <1>8, <2>1, <2>2 DEF BetweenRadii
<1>9. CASE CancelWrite(r)
  BY <1>0, <1>9, GoToType DEF CancelWrite, RideStatus
<1>10. CASE CancelKey(r)
  BY <1>0, <1>10, GoToType DEF CancelKey, RideStatus
<1> QED
  BY <1>1, <1>2, <1>3, <1>4, <1>5, <1>6, <1>7, <1>8, <1>9, <1>10 DEF MatchingStep

\* Moving one accept request, or ending it, keeps the accept requests well typed.
LEMMA AcceptMoveType ==
    ASSUME AcceptTypeOK, NEW q \in AcceptRequests, accept[q].pc # "idle",
           AcceptReturns(q) \/ \E pc \in AcceptPc : AcceptGoTo(q, pc)
    PROVE  AcceptTypeOK'
<1>1. CASE AcceptReturns(q)
  BY <1>1 DEF AcceptTypeOK, Accept, AcceptPc, IdleAccept, AcceptReturns
<1>2. ASSUME NEW pc \in AcceptPc, AcceptGoTo(q, pc)
      PROVE  AcceptTypeOK'
  BY <1>2 DEF AcceptTypeOK, Accept, AcceptGoTo
<1> QED
  BY <1>1, <1>2

\* The steps of accept_ride keep the types.
LEMMA AcceptType ==
    ASSUME TypeOK, NEW q \in AcceptRequests, AcceptStep(q)
    PROVE  StoreTypeOK' /\ AcceptTypeOK'
<1>0. StoreTypeOK /\ AcceptTypeOK
  BY DEF TypeOK
<1>a. AcceptTypeOK'
  <2>0. accept[q].pc # "idle"
    BY DEF AcceptAt, AcceptStep, TakeLock, ReadRide, WriteRideAndTrip, WriteDriver,
           SetDriverOnTrip, SetRideAssigned, ReleaseLock, CommitAccept, RollbackAccept
  <2> DEFINE Moves == AcceptReturns(q) \/ \E pc \in AcceptPc : AcceptGoTo(q, pc)
  <2>1. TakeLock(q) \/ ReadRide(q) \/ WriteRideAndTrip(q) \/ WriteDriver(q) => Moves
    BY DEF AcceptPc, TakeLock, ReadRide, WriteRideAndTrip, WriteDriver
  <2>2. SetDriverOnTrip(q) \/ SetRideAssigned(q) \/ ReleaseLock(q) => Moves
    BY DEF AcceptPc, SetDriverOnTrip, SetRideAssigned, ReleaseLock
  <2>3. CommitAccept(q) \/ RollbackAccept(q) => Moves
    BY DEF CommitAccept, RollbackAccept
  <2>4. Moves
    BY <2>1, <2>2, <2>3 DEF AcceptStep
  <2> HIDE DEF Moves
  <2> QED
    BY <1>0, <2>0, <2>4, AcceptMoveType DEF Moves
<1>b. StoreTypeOK'
  <2> USE DEF StoreTypeOK, Requests, dbVars, rowVars, redisVars, storeVars
  <2>1. CASE TakeLock(q) \/ ReadRide(q) \/ ReleaseLock(q)
    BY <1>0, <2>1 DEF TakeLock, ReadRide, ReleaseLock
  <2>2. CASE WriteRideAndTrip(q) \/ WriteDriver(q)
    BY <1>0, <2>2 DEF WriteRideAndTrip, WriteDriver
  <2>3. CASE SetDriverOnTrip(q)
    BY <1>0, <2>3 DEF SetDriverOnTrip, DriverStatus
  <2>4. CASE SetRideAssigned(q)
    BY <1>0, <2>4 DEF SetRideAssigned, RideStatus
  <2>5. CASE CommitAccept(q)
    <3>1. accept[q].driver \in Drivers \cup {None}
      BY <1>0 DEF AcceptTypeOK, Accept
    <3> QED
      BY <1>0, <2>5, <3>1, ReleaseType
      DEF CommitAccept, RideStatus, TripStatus, DriverStatus
  <2>6. CASE RollbackAccept(q)
    BY <1>0, <2>6, ReleaseType DEF RollbackAccept
  <2> QED
    BY <2>1, <2>2, <2>3, <2>4, <2>5, <2>6 DEF AcceptStep
<1> QED
  BY <1>a, <1>b

\* Moving one end request, or ending it, keeps the end requests well typed.
LEMMA EndMoveType ==
    ASSUME EndTypeOK, NEW e \in EndRequests, end[e].pc # "idle",
           EndReturns(e) \/ \E pc \in EndPc : EndGoTo(e, pc)
    PROVE  EndTypeOK'
<1>1. CASE EndReturns(e)
  BY <1>1 DEF EndTypeOK, End, EndPc, IdleEnd, EndReturns
<1>2. ASSUME NEW pc \in EndPc, EndGoTo(e, pc)
      PROVE  EndTypeOK'
  BY <1>2 DEF EndTypeOK, End, EndGoTo
<1> QED
  BY <1>1, <1>2

\* The steps of end_trip keep the types.
LEMMA EndType ==
    ASSUME TypeOK, NEW e \in EndRequests, EndStep(e)
    PROVE  StoreTypeOK' /\ EndTypeOK'
<1>0. StoreTypeOK /\ EndTypeOK
  BY DEF TypeOK
<1>1. end[e].pc # "idle"
  BY DEF EndAt, EndStep, LoadRide, CompleteTrip, CompleteRide, FreeDriver,
         SetDriverOnline, SetRideCompleted, CommitEnd, RollbackEnd
<1>2. end[e].ride \in Rides
  BY <1>0, <1>1 DEF EndTypeOK
<1>a. EndTypeOK'
  <2>1. CASE LoadRide(e)
    <3>1. rideStatus[end[e].ride] \in RideStatus
      BY <1>0, <1>2 DEF StoreTypeOK
    <3> QED
      BY <1>0, <1>2, <2>1, <3>1 DEF LoadRide, EndTypeOK, End, EndPc
  <2>2. CASE ~LoadRide(e)
    <3> DEFINE Moves == EndReturns(e) \/ \E pc \in EndPc : EndGoTo(e, pc)
    <3>1. CompleteTrip(e) \/ CompleteRide(e) \/ FreeDriver(e) => Moves
      BY DEF EndPc, CompleteTrip, CompleteRide, FreeDriver
    <3>2. SetDriverOnline(e) \/ SetRideCompleted(e) => Moves
      BY DEF EndPc, SetDriverOnline, SetRideCompleted
    <3>3. CommitEnd(e) \/ RollbackEnd(e) => Moves
      BY DEF CommitEnd, RollbackEnd
    <3>4. Moves
      BY <2>2, <3>1, <3>2, <3>3 DEF EndStep
    <3> HIDE DEF Moves
    <3> QED
      BY <1>0, <1>1, <3>4, EndMoveType DEF Moves
  <2> QED
    BY <2>1, <2>2
<1>b. StoreTypeOK'
  <2> USE DEF StoreTypeOK, Requests, dbVars, rowVars, redisVars, storeVars
  <2>1. CASE LoadRide(e)
    BY <1>0, <2>1 DEF LoadRide
  <2>2. CASE CompleteTrip(e) \/ CompleteRide(e) \/ FreeDriver(e)
    BY <1>0, <2>2 DEF CompleteTrip, CompleteRide, FreeDriver
  <2>3. CASE SetDriverOnline(e)
    BY <1>0, <2>3 DEF SetDriverOnline, DriverStatus
  <2>4. CASE SetRideCompleted(e)
    BY <1>0, <2>4 DEF SetRideCompleted, RideStatus
  <2>5. CASE CommitEnd(e)
    <3>1. totalTrips' \in [Drivers -> Nat]
      BY <1>0, <2>5 DEF CommitEnd
    <3>2. /\ rideStatus' \in [Rides -> RideStatus]
          /\ tripStatus' \in [Rides -> TripStatus \cup {None}]
          /\ driverStatus' \in [Drivers -> DriverStatus]
      BY <1>0, <2>5 DEF CommitEnd, RideStatus, TripStatus, DriverStatus
    <3> QED
      BY <1>0, <2>5, <3>1, <3>2, ReleaseType DEF CommitEnd
  <2>6. CASE RollbackEnd(e)
    BY <1>0, <2>6, ReleaseType DEF RollbackEnd
  <2> QED
    BY <2>1, <2>2, <2>3, <2>4, <2>5, <2>6 DEF EndStep
<1> QED
  BY <1>a, <1>b

\* The steps of update_location keep the types.
LEMMA PingType ==
    ASSUME TypeOK, NEW p \in PingRequests, PingStep(p)
    PROVE  StoreTypeOK' /\ PingTypeOK'
<1> USE DEF StoreTypeOK, PingTypeOK, Ping, IdlePing, PingAt, PingReturns,
      dbVars, rowVars, redisVars, storeVars
<1>0. StoreTypeOK /\ PingTypeOK
  BY DEF TypeOK
<1>1. CASE AddToGeo(p)
  BY <1>0, <1>1 DEF AddToGeo
<1>2. CASE CheckDriverKey(p)
  BY <1>0, <1>2 DEF CheckDriverKey
<1>3. CASE SeedDriverKey(p)
  BY <1>0, <1>3 DEF SeedDriverKey
<1> QED
  BY <1>1, <1>2, <1>3 DEF PingStep

\* The requests that arrive, the expiry of keys and the faults keep the types.
LEMMA RequestType == TypeOK /\ Request => TypeOK'
<1> SUFFICES ASSUME TypeOK, Request PROVE TypeOK'
  OBVIOUS
<1>1. ASSUME NEW q \in AcceptRequests, NEW r \in Rides, NEW d \in Drivers,
             ReceiveAccept(q, r, d), UNCHANGED <<matchingVars, end, ping>>
      PROVE  TypeOK'
  <2>1. AcceptTypeOK'
    BY <1>1 DEF TypeOK, AcceptTypeOK, Accept, AcceptPc, ReceiveAccept
  <2> QED
    BY <1>1, <2>1 DEF TypeOK, StoreTypeOK, MatchingTypeOK, EndTypeOK, PingTypeOK,
         ReceiveAccept, storeVars, dbVars, rowVars, redisVars, matchingVars
<1>2. ASSUME NEW e \in EndRequests, NEW r \in Rides,
             ReceiveEnd(e, r), UNCHANGED <<matchingVars, accept, ping>>
      PROVE  TypeOK'
  <2>1. EndTypeOK'
    BY <1>2 DEF TypeOK, EndTypeOK, End, EndPc, ReceiveEnd
  <2> QED
    BY <1>2, <2>1 DEF TypeOK, StoreTypeOK, MatchingTypeOK, AcceptTypeOK, PingTypeOK,
         ReceiveEnd, storeVars, dbVars, rowVars, redisVars, matchingVars
<1>3. ASSUME NEW p \in PingRequests, NEW d \in Drivers,
             ReceivePing(p, d), UNCHANGED <<matchingVars, accept, end>>
      PROVE  TypeOK'
  <2>1. PingTypeOK'
    BY <1>3 DEF TypeOK, StoreTypeOK, PingTypeOK, Ping, ReceivePing
  <2> QED
    BY <1>3, <2>1 DEF TypeOK, StoreTypeOK, MatchingTypeOK, AcceptTypeOK, EndTypeOK,
         ReceivePing, storeVars, dbVars, rowVars, redisVars, matchingVars
<1> QED
  BY <1>1, <1>2, <1>3 DEF Request

\* The expiry of a Redis key keeps the types.
LEMMA ExpireType == TypeOK /\ Expire => TypeOK'
  BY DEF Expire, ExpireOffer, ExpireMatching, ExpireLock, TypeOK, StoreTypeOK,
     MatchingTypeOK, AcceptTypeOK, EndTypeOK, PingTypeOK, storeVars, dbVars, rowVars,
     redisVars, matchingVars

\* A crash keeps the types.
LEMMA CrashType == TypeOK /\ Crash => TypeOK'
<1> SUFFICES ASSUME TypeOK, Crash PROVE TypeOK'
  OBVIOUS
<1>1. MatchingTypeOK'
  BY DEF TypeOK, MatchingTypeOK, Task, TaskPc, TaskOver, Crash
<1>2. AcceptTypeOK' /\ EndTypeOK' /\ PingTypeOK'
  BY DEF AcceptTypeOK, Accept, AcceptPc, IdleAccept, EndTypeOK, End, EndPc, IdleEnd,
         PingTypeOK, Ping, IdlePing, Crash
<1>3. StoreTypeOK'
  BY DEF TypeOK, StoreTypeOK, Crash, dbVars, redisVars
<1> QED
  BY <1>1, <1>2, <1>3 DEF TypeOK

\* The faults keep the types.
LEMMA FaultType == TypeOK /\ Fault => TypeOK'
<1> SUFFICES ASSUME TypeOK, Fault PROVE TypeOK'
  OBVIOUS
<1> USE DEF storeVars, dbVars, rowVars, redisVars, matchingVars
<1>1. CASE Crash
  BY <1>1, CrashType
<1>2. ASSUME NEW r \in Rides, TaskFails(r), UNCHANGED <<accept, end, ping>>
      PROVE  TypeOK'
  <2>1. \E pc \in TaskPc \ {"offer"} : GoTo(r, pc)
    BY <1>2 DEF TaskFails, TaskPc, TaskOver
  <2>2. MatchingTypeOK'
    BY <1>2, <2>1, GoToType DEF TypeOK, MatchingTypeOK, TaskFails
  <2> QED
    BY <1>2, <2>2 DEF TypeOK, StoreTypeOK, AcceptTypeOK, EndTypeOK, PingTypeOK, TaskFails
<1>3. ASSUME NEW q \in AcceptRequests, AcceptFails(q), UNCHANGED <<matchingVars, end, ping>>
      PROVE  TypeOK'
  <2>1. accept[q].pc # "idle" /\ (AcceptReturns(q) \/ \E pc \in AcceptPc : AcceptGoTo(q, pc))
    BY <1>3 DEF AcceptFails, AcceptAt, AcceptPc
  <2>2. AcceptTypeOK'
    BY <2>1, AcceptMoveType DEF TypeOK
  <2> QED
    BY <1>3, <2>2 DEF TypeOK, StoreTypeOK, MatchingTypeOK, EndTypeOK, PingTypeOK, AcceptFails
<1>4. ASSUME NEW e \in EndRequests, EndFails(e), UNCHANGED <<matchingVars, accept, ping>>
      PROVE  TypeOK'
  <2>1. EndTypeOK'
    BY <1>4, EndMoveType DEF TypeOK, EndFails, EndPc
  <2> QED
    BY <1>4, <2>1 DEF TypeOK, StoreTypeOK, MatchingTypeOK, AcceptTypeOK, PingTypeOK, EndFails
<1>5. ASSUME NEW p \in PingRequests, PingFails(p), UNCHANGED <<matchingVars, accept, end>>
      PROVE  TypeOK'
  <2>1. PingTypeOK'
    BY <1>5 DEF TypeOK, PingTypeOK, Ping, IdlePing, PingFails, PingReturns
  <2> QED
    BY <1>5, <2>1 DEF TypeOK, StoreTypeOK, MatchingTypeOK, AcceptTypeOK, EndTypeOK, PingFails
<1> QED
  BY <1>1, <1>2, <1>3, <1>4, <1>5 DEF Fault

\* Every step keeps the types.
LEMMA TypeStep == TypeOK /\ [Next]_vars => TypeOK'
<1> SUFFICES ASSUME TypeOK, [Next]_vars PROVE TypeOK'
  OBVIOUS
<1>1. ASSUME NEW r \in Rides, TaskActs(r) PROVE TypeOK'
  BY <1>1, TaskType
  DEF TaskActs, TypeOK, AcceptTypeOK, EndTypeOK, PingTypeOK
<1>2. ASSUME NEW q \in AcceptRequests, AcceptActs(q) PROVE TypeOK'
  BY <1>2, AcceptType
  DEF AcceptActs, TypeOK, MatchingTypeOK, EndTypeOK, PingTypeOK, matchingVars
<1>3. ASSUME NEW e \in EndRequests, EndActs(e) PROVE TypeOK'
  BY <1>3, EndType
  DEF EndActs, TypeOK, MatchingTypeOK, AcceptTypeOK, PingTypeOK, matchingVars
<1>4. ASSUME NEW p \in PingRequests, PingActs(p) PROVE TypeOK'
  BY <1>4, PingType
  DEF PingActs, TypeOK, MatchingTypeOK, AcceptTypeOK, EndTypeOK, matchingVars
<1>5. CASE UNCHANGED vars
  BY <1>5 DEF vars, storeVars, dbVars, rowVars, redisVars, matchingVars, TypeOK,
     StoreTypeOK, MatchingTypeOK, AcceptTypeOK, EndTypeOK, PingTypeOK
<1> QED
  BY <1>1, <1>2, <1>3, <1>4, <1>5, RequestType, ExpireType, FaultType DEF Next

\* Every state of the service is well typed: no handler ever works on a ride or a
\* driver it has not looked up, whatever interleaves, expires or fails.
THEOREM TypeCorrect == Spec => []TypeOK
  BY InitType, TypeStep, PTL DEF Spec

-----------------------------------------------------------------------------
(* The inductive invariant *)

\* At the start no ride has been offered and no request is under way.
LEMMA InitCoupling == Init => Coupling
  BY DEF Init, StoreInit, MatchingInit, AcceptInit, EndInit, IdleAccept, IdleEnd,
     Coupling, TripMatchesRide, OnlyOffered, FreshRides, OffersFlagged, AcceptInv, EndInv,
     Open, At, AcceptAt, EndAt

\* Tasks keep the coupling as long as they do not touch the tables or make an offer.
LEMMA TaskMovesCoupling ==
    ASSUME Coupling, UNCHANGED <<dbVars, rowVars, offered, accept, end>>,
           \A x \in Rides : offerKey'[x] \in {offerKey[x], None},
           \A x \in Rides : task'[x].pc = "start" => task[x].pc = "start"
    PROVE  Coupling'
<1> USE DEF Coupling, dbVars, rowVars
<1>1. TripMatchesRide' /\ OnlyOffered'
  BY DEF TripMatchesRide, OnlyOffered, Open
<1>2. FreshRides' /\ OffersFlagged'
  BY DEF FreshRides, OffersFlagged, At
<1>3. AcceptInv' /\ EndInv'
  BY DEF AcceptInv, EndInv, AcceptAt, EndAt
<1> QED
  BY <1>1, <1>2, <1>3

\* The steps of a matching task keep the coupling: it moves a ride's status only
\* while that leaves the two tables in agreement.
LEMMA TaskCoupling ==
    ASSUME IInv, NEW r \in Rides, TaskActs(r)
    PROVE  Coupling'
<1>0. Coupling /\ task \in [Rides -> Task] /\ rideStatus \in [Rides -> RideStatus]
      /\ offered \in [Rides -> SUBSET Drivers] /\ offerKey \in [Rides -> Drivers \cup {None}]
      /\ \A q \in AcceptRequests : accept[q].pc # "idle" => accept[q].ride \in Rides
  BY DEF IInv, TypeOK, StoreTypeOK, MatchingTypeOK, AcceptTypeOK
<1>1. UNCHANGED <<accept, end, ping>> /\ MatchingStep(r)
  BY DEF TaskActs
<1>2. CASE StartMatching(r)
  <2> USE DEF StartMatching, At, GoTo, dbVars, rowVars, redisVars
  <2>1. rideStatus[r] = "PENDING" /\ tripStatus[r] = None /\ rideDriver[r] = None
    BY <1>0, <1>2 DEF Coupling, FreshRides, TripMatchesRide, Open
  <2>2. TripMatchesRide' /\ OnlyOffered'
    BY <1>0, <1>2, <2>1 DEF Coupling, TripMatchesRide, OnlyOffered, Open
  <2>3. FreshRides' /\ OffersFlagged'
    BY <1>0, <1>2 DEF Coupling, FreshRides, OffersFlagged, Task
  <2>4. AcceptInv' /\ EndInv'
    BY <1>0, <1>1, <1>2 DEF Coupling, AcceptInv, EndInv, AcceptAt, EndAt
  <2> QED
    BY <2>2, <2>3, <2>4 DEF Coupling
<1>3. CASE MakeOffer(r)
  <2> USE DEF MakeOffer, At, dbVars, rowVars
  <2>1. offered' = [offered EXCEPT ![r] = @ \cup {task[r].candidate}]
    BY <1>3
  <2>2. \A x \in Rides : offered[x] \subseteq offered'[x]
    BY <1>0, <2>1
  <2>3. TripMatchesRide' /\ OnlyOffered'
    BY <1>0, <1>3, <2>2 DEF Coupling, TripMatchesRide, OnlyOffered, Open
  <2>4. FreshRides' /\ OffersFlagged'
    BY <1>0, <1>3 DEF Coupling, FreshRides, OffersFlagged, Task
  <2>5. AcceptInv' /\ EndInv'
    BY <1>0, <1>1, <1>3, <2>2 DEF Coupling, AcceptInv, EndInv, AcceptAt, EndAt
  <2> QED
    BY <2>3, <2>4, <2>5 DEF Coupling
<1>4. CASE CancelWrite(r)
  <2> USE DEF CancelWrite, At, GoTo, dbVars, rowVars, redisVars
  <2>1. TripMatchesRide' /\ OnlyOffered'
    BY <1>0, <1>4 DEF Coupling, TripMatchesRide, OnlyOffered, Open
  <2>2. FreshRides' /\ OffersFlagged'
    BY <1>0, <1>4 DEF Coupling, FreshRides, OffersFlagged, Task
  <2>3. AcceptInv' /\ EndInv'
    BY <1>0, <1>1, <1>4 DEF Coupling, AcceptInv, EndInv, AcceptAt, EndAt
  <2> QED
    BY <2>1, <2>2, <2>3 DEF Coupling
<1>5. CASE WithdrawOffer(r)
  BY <1>0, <1>1, <1>5, TaskMovesCoupling DEF WithdrawOffer, GoTo, Task
<1>6. CASE ~(StartMatching(r) \/ MakeOffer(r) \/ CancelWrite(r) \/ WithdrawOffer(r))
  <2>1. UNCHANGED <<dbVars, rowVars, offered, offerKey>>
    BY <1>1, <1>6 DEF MatchingStep, PublishMatching, SearchRadius, SkipCandidate,
       ChooseCandidate, PollDecided, PollTimeout, RadiusExhausted, BetweenRadii,
       CancelRead, CancelKey, storeVars, redisVars
  <2>2. \A x \in Rides : task'[x].pc = "start" => task[x].pc = "start"
    <3>1. CASE PublishMatching(r) \/ SearchRadius(r)
      BY <1>0, <3>1 DEF PublishMatching, SearchRadius, GoTo, Task
    <3>2. CASE \E d \in Drivers : SkipCandidate(r, d) \/ ChooseCandidate(r, d)
      BY <1>0, <3>2 DEF SkipCandidate, ChooseCandidate, Task
    <3>3. CASE PollDecided(r) \/ PollTimeout(r) \/ RadiusExhausted(r)
      BY <1>0, <3>3 DEF PollDecided, PollTimeout, RadiusExhausted, GoTo, Task
    <3>4. CASE BetweenRadii(r)
      BY <1>0, <3>4 DEF BetweenRadii, GoTo, Task
    <3>5. CASE CancelRead(r) \/ CancelKey(r)
      BY <1>0, <3>5 DEF CancelRead, CancelKey, GoTo, Task
    <3> QED
      BY <1>1, <1>6, <3>1, <3>2, <3>3, <3>4, <3>5 DEF MatchingStep
  <2> QED
    BY <1>0, <1>1, <2>1, <2>2, TaskMovesCoupling
<1> QED
  BY <1>2, <1>3, <1>4, <1>5, <1>6

\* Releasing one's rows does not disturb an accept that holds the row of its ride.
LEMMA ReleaseKeepsRide ==
    ASSUME StoreTypeOK, NEW q, ReleaseRows(q), NEW r \in Rides, rideRow[r] # q
    PROVE  rideRow'[r] = rideRow[r]
  BY UnlockOther DEF StoreTypeOK, ReleaseRows

\* The program counters from which an accept commits.
Assigning == {"driver", "driverKey", "rideKey", "release", "commit"}

\* An accept that moves on without touching the tables or other requests' rows.
LEMMA AcceptMovesCoupling ==
    ASSUME IInv, NEW q \in AcceptRequests, UNCHANGED <<dbVars, offerKey, matchingVars, end>>,
           \A x \in Rides : rideRow[x] \notin {None, q} => rideRow'[x] = rideRow[x],
           accept[q].pc # "idle",
           \/ AcceptReturns(q)
           \/ \E pc \in AcceptPc : /\ AcceptGoTo(q, pc)
                                   /\ pc \in Assigning =>
                                        /\ rideRow'[accept[q].ride] = q
                                        /\ tripStatus[accept[q].ride] = None
    PROVE  Coupling'
<1>0. Coupling /\ AcceptTypeOK
  BY DEF IInv, TypeOK
<1>1. TripMatchesRide' /\ OnlyOffered' /\ FreshRides' /\ OffersFlagged' /\ EndInv'
  BY <1>0 DEF Coupling, TripMatchesRide, OnlyOffered, FreshRides, OffersFlagged, EndInv,
     Open, At, EndAt, dbVars, matchingVars
<1>2. AcceptInv'
  <2> SUFFICES ASSUME NEW p \in AcceptRequests, accept'[p].pc # "idle"
               PROVE  /\ accept'[p].driver \in offered'[accept'[p].ride]
                      /\ accept'[p].pc \in Assigning =>
                           /\ rideRow'[accept'[p].ride] = p
                           /\ tripStatus'[accept'[p].ride] = None
    BY DEF AcceptInv, AcceptAt, Assigning
  <2>1. CASE p # q
    <3>1. accept'[p] = accept[p]
      BY <1>0, <2>1 DEF AcceptTypeOK, AcceptReturns, AcceptGoTo
    <3>2. accept[p].pc \in Assigning => rideRow'[accept[p].ride] = p
      BY <1>0, <2>1, <3>1, StoreAssumption
      DEF Coupling, AcceptInv, AcceptAt, AcceptTypeOK, Assigning, Requests
    <3> QED
      BY <1>0, <3>1, <3>2 DEF Coupling, AcceptInv, AcceptAt, Assigning, dbVars, matchingVars
  <2>2. CASE p = q
    <3>1. PICK pc \in AcceptPc : /\ AcceptGoTo(q, pc)
                                 /\ pc \in Assigning => /\ rideRow'[accept[q].ride] = q
                                                        /\ tripStatus[accept[q].ride] = None
      BY <1>0, <2>2 DEF AcceptReturns, IdleAccept, AcceptTypeOK
    <3>2. accept'[q] = [accept[q] EXCEPT !.pc = pc]
      BY <1>0, <3>1 DEF AcceptGoTo, AcceptTypeOK
    <3> QED
      BY <1>0, <2>2, <3>1, <3>2
      DEF Coupling, AcceptInv, AcceptAt, AcceptTypeOK, Accept, dbVars, matchingVars
  <2> QED
    BY <2>1, <2>2
<1> QED
  BY <1>1, <1>2 DEF Coupling

\* The steps of accept_ride keep the coupling: the commit happens only while the
\* request holds the ride's row and the ride has no trip.
LEMMA AcceptCoupling ==
    ASSUME IInv, NEW q \in AcceptRequests, AcceptActs(q)
    PROVE  Coupling'
<1> DEFINE r == accept[q].ride
           d == accept[q].driver
<1>0. /\ Coupling /\ StoreTypeOK /\ AcceptTypeOK
      /\ AcceptStep(q) /\ UNCHANGED <<matchingVars, end, ping>>
  BY DEF IInv, TypeOK, AcceptActs
<1>1. accept[q].pc # "idle"
  BY <1>0 DEF AcceptAt, AcceptStep, TakeLock, ReadRide, WriteRideAndTrip, WriteDriver,
     SetDriverOnTrip, SetRideAssigned, ReleaseLock, CommitAccept, RollbackAccept
<1>2. /\ r \in Rides /\ d \in Drivers /\ d \in offered[r]
      /\ accept[q].pc \in Assigning => rideRow[r] = q /\ tripStatus[r] = None
  BY <1>0, <1>1 DEF AcceptTypeOK, Coupling, AcceptInv, AcceptAt, Assigning
<1>3. CASE TakeLock(q) \/ ReadRide(q)
  BY <1>0, <1>1, <1>3, AcceptMovesCoupling
  DEF TakeLock, ReadRide, AcceptPc, Assigning, storeVars, rowVars, redisVars
<1>4. CASE WriteRideAndTrip(q)
  <2>1. tripStatus[r] = None \/ AcceptGoTo(q, "drop")
    BY <1>4 DEF WriteRideAndTrip, TripInsertFails
  <2>2. rideRow' = [rideRow EXCEPT ![r] = q] /\ rideRow[r] = None
    BY <1>4 DEF WriteRideAndTrip
  <2>3. AcceptGoTo(q, "drop") \/ AcceptGoTo(q, "driver")
    BY <1>4 DEF WriteRideAndTrip
  <2> QED
    BY <1>0, <1>1, <1>2, <1>4, <2>1, <2>2, <2>3, AcceptMovesCoupling
    DEF WriteRideAndTrip, StoreTypeOK, AcceptPc, Assigning, redisVars
<1>5. CASE WriteDriver(q) \/ SetDriverOnTrip(q) \/ SetRideAssigned(q)
  BY <1>0, <1>1, <1>2, <1>5, AcceptMovesCoupling
  DEF WriteDriver, SetDriverOnTrip, SetRideAssigned, AcceptAt, AcceptPc, Assigning,
      rowVars, redisVars
<1>6. CASE ReleaseLock(q)
  BY <1>0, <1>1, <1>2, <1>6, AcceptMovesCoupling
  DEF ReleaseLock, AcceptAt, AcceptPc, Assigning, rowVars, redisVars
<1>7. CASE RollbackAccept(q)
  <2>1. \A x \in Rides : rideRow[x] \notin {None, q} => rideRow'[x] = rideRow[x]
    BY <1>0, <1>7, ReleaseKeepsRide DEF RollbackAccept
  <2> QED
    BY <1>0, <1>1, <1>7, <2>1, AcceptMovesCoupling DEF RollbackAccept, redisVars
<1>8. CASE CommitAccept(q)
  <2>1. rideRow[r] = q /\ tripStatus[r] = None
    BY <1>2, <1>8 DEF CommitAccept, AcceptAt, Assigning
  <2>2. /\ rideStatus' = [rideStatus EXCEPT ![r] = "DRIVER_ASSIGNED"]
        /\ rideDriver' = [rideDriver EXCEPT ![r] = d]
        /\ tripStatus' = [tripStatus EXCEPT ![r] = "IN_PROGRESS"]
        /\ AcceptReturns(q) /\ ReleaseRows(q) /\ UNCHANGED <<offerKey, matchingVars, end>>
    BY <1>0, <1>8 DEF CommitAccept, redisVars
  <2>3. TripMatchesRide'
    BY <1>0, <1>2, <2>2, StoreAssumption
    DEF Coupling, TripMatchesRide, StoreTypeOK, Open, TripStatus
  <2>4. OnlyOffered' /\ OffersFlagged'
    BY <1>0, <1>2, <2>2
    DEF Coupling, OnlyOffered, OffersFlagged, StoreTypeOK, matchingVars
  <2>5. FreshRides'
    <3>1. task[r].pc # "start"
      BY <1>0, <1>2 DEF Coupling, FreshRides, At
    <3> QED
      BY <1>0, <2>2, <3>1 DEF Coupling, FreshRides, At, StoreTypeOK, matchingVars
  <2>6. EndInv'
    BY <1>0, <1>2, <2>2, StoreAssumption
    DEF Coupling, EndInv, EndAt, StoreTypeOK, TripStatus
  <2>7. AcceptInv'
    <3> SUFFICES ASSUME NEW p \in AcceptRequests, accept'[p].pc # "idle"
                 PROVE  /\ accept'[p].driver \in offered'[accept'[p].ride]
                        /\ accept'[p].pc \in Assigning =>
                             /\ rideRow'[accept'[p].ride] = p
                             /\ tripStatus'[accept'[p].ride] = None
      BY DEF AcceptInv, AcceptAt, Assigning
    <3>1. p # q /\ accept'[p] = accept[p]
      BY <1>0, <2>2 DEF AcceptReturns, IdleAccept, AcceptTypeOK
    <3>2. accept[p].ride \in Rides /\ accept[p].driver \in offered[accept[p].ride]
      BY <1>0, <3>1 DEF Coupling, AcceptInv, AcceptAt, AcceptTypeOK
    <3>3. ASSUME accept[p].pc \in Assigning
          PROVE  /\ rideRow'[accept[p].ride] = p
                 /\ tripStatus'[accept[p].ride] = None
      <4>1. rideRow[accept[p].ride] = p /\ tripStatus[accept[p].ride] = None
        BY <1>0, <3>1, <3>3 DEF Coupling, AcceptInv, AcceptAt, Assigning
      <4>2. accept[p].ride # r
        BY <2>1, <3>1, <4>1
      <4>3. rideRow'[accept[p].ride] = p
        BY <1>0, <2>2, <3>1, <3>2, <4>1, ReleaseKeepsRide
      <4> QED
        BY <1>0, <2>2, <3>2, <4>1, <4>2, <4>3 DEF StoreTypeOK
    <3> QED
      BY <2>2, <3>1, <3>2, <3>3 DEF matchingVars
  <2> QED
    BY <2>3, <2>4, <2>5, <2>6, <2>7 DEF Coupling
<1> QED
  BY <1>0, <1>3, <1>4, <1>5, <1>6, <1>7, <1>8 DEF AcceptStep

\* The steps of end_trip keep the coupling: they complete a trip that exists.
LEMMA EndCoupling ==
    ASSUME IInv, NEW e \in EndRequests, EndActs(e)
    PROVE  Coupling'
<1> DEFINE r == end[e].ride
<1>0. /\ Coupling /\ StoreTypeOK /\ AcceptTypeOK /\ EndTypeOK
      /\ EndStep(e) /\ UNCHANGED <<matchingVars, accept, ping>>
  BY DEF IInv, TypeOK, EndActs
<1>1. end[e].pc # "idle"
  BY <1>0 DEF EndAt, EndStep, LoadRide, CompleteTrip, CompleteRide, FreeDriver,
     SetDriverOnline, SetRideCompleted, CommitEnd, RollbackEnd
<1>2. r \in Rides /\ tripStatus[r] # None
  BY <1>0, <1>1 DEF EndTypeOK, Coupling, EndInv, EndAt
<1>3. EndInv' \/ ~(UNCHANGED tripStatus)
  <2> SUFFICES ASSUME UNCHANGED tripStatus, NEW x \in EndRequests, end'[x].pc # "idle"
               PROVE  tripStatus[end'[x].ride] # None
    BY DEF EndInv, EndAt
  <2>1. end'[x] = end[x] \/ (x = e /\ end'[x].ride = r)
    <3>1. CASE LoadRide(e)
      BY <1>0, <3>1 DEF LoadRide, EndTypeOK, End
    <3>2. CASE ~LoadRide(e)
      <4>1. EndReturns(e) \/ \E pc \in EndPc : EndGoTo(e, pc)
        BY <1>0, <3>2 DEF EndStep, EndPc, CompleteTrip, CompleteRide, FreeDriver,
           SetDriverOnline, SetRideCompleted, CommitEnd, RollbackEnd
      <4> QED
        BY <1>0, <4>1 DEF EndReturns, EndGoTo, IdleEnd, EndTypeOK, End
    <3> QED
      BY <3>1, <3>2
  <2> QED
    BY <1>0, <1>2, <2>1 DEF Coupling, EndInv, EndAt
<1>4. \A x \in Rides : rideRow[x] \in AcceptRequests => rideRow'[x] = rideRow[x]
  <2>1. CASE CompleteRide(e)
    BY <1>0, <1>2, <2>1, StoreAssumption DEF CompleteRide, StoreTypeOK, Requests
  <2>2. CASE CommitEnd(e) \/ RollbackEnd(e)
    BY <1>0, <2>2, ReleaseKeepsRide, StoreAssumption DEF CommitEnd, RollbackEnd
  <2>3. CASE ~(CompleteRide(e) \/ CommitEnd(e) \/ RollbackEnd(e))
    BY <1>0, <2>3 DEF EndStep, LoadRide, CompleteTrip, FreeDriver,
       SetDriverOnline, SetRideCompleted, storeVars, rowVars
  <2> QED
    BY <2>1, <2>2, <2>3
<1>5. UNCHANGED offerKey
  BY <1>0 DEF EndStep, LoadRide, CompleteTrip, CompleteRide, FreeDriver,
     SetDriverOnline, SetRideCompleted, CommitEnd, RollbackEnd, storeVars, redisVars
<1>6. CASE CommitEnd(e)
  <2>1. /\ tripStatus' = [tripStatus EXCEPT ![r] = "COMPLETED"]
        /\ rideStatus' = [rideStatus EXCEPT ![r] = "COMPLETED"]
        /\ UNCHANGED rideDriver /\ EndReturns(e)
    BY <1>6 DEF CommitEnd
  <2>2. TripMatchesRide' /\ OnlyOffered' /\ OffersFlagged'
    BY <1>0, <1>2, <1>5, <2>1, StoreAssumption
    DEF Coupling, TripMatchesRide, OnlyOffered, OffersFlagged, StoreTypeOK, Open,
        TripStatus, matchingVars
  <2>3. FreshRides'
    <3>1. rideStatus[r] # "PENDING"
      BY <1>0, <1>2 DEF Coupling, TripMatchesRide, Open
    <3> QED
      BY <1>0, <2>1, <3>1 DEF Coupling, FreshRides, At, StoreTypeOK, matchingVars
  <2>4. EndInv'
    <3> SUFFICES ASSUME NEW x \in EndRequests, end'[x].pc # "idle"
                 PROVE  tripStatus'[end'[x].ride] # None
      BY DEF EndInv, EndAt
    <3>1. end'[x] = end[x] /\ end[x].ride \in Rides
      BY <1>0, <2>1 DEF EndReturns, IdleEnd, EndTypeOK
    <3> QED
      BY <1>0, <2>1, <3>1, StoreAssumption
      DEF Coupling, EndInv, EndAt, StoreTypeOK, TripStatus
  <2>5. AcceptInv'
    BY <1>0, <1>2, <1>4, <2>1
    DEF Coupling, AcceptInv, AcceptAt, AcceptTypeOK, StoreTypeOK, matchingVars
  <2> QED
    BY <2>2, <2>3, <2>4, <2>5 DEF Coupling
<1>7. CASE ~CommitEnd(e)
  <2>1. UNCHANGED dbVars
    BY <1>0, <1>7 DEF EndStep, LoadRide, CompleteTrip, CompleteRide, FreeDriver,
       SetDriverOnline, SetRideCompleted, RollbackEnd, storeVars
  <2>2. TripMatchesRide' /\ OnlyOffered' /\ FreshRides' /\ OffersFlagged'
    BY <1>0, <1>5, <2>1 DEF Coupling, TripMatchesRide, OnlyOffered, FreshRides,
       OffersFlagged, Open, At, dbVars, matchingVars
  <2>3. AcceptInv'
    BY <1>0, <1>4, <2>1
    DEF Coupling, AcceptInv, AcceptAt, AcceptTypeOK, dbVars, matchingVars
  <2> QED
    BY <1>3, <2>1, <2>2, <2>3 DEF Coupling, dbVars
<1> QED
  BY <1>6, <1>7

\* A request that arrives finds the offer, or the trip, that the coupling asks for.
LEMMA RequestCoupling ==
    ASSUME IInv, Request
    PROVE  Coupling'
<1>0. Coupling /\ StoreTypeOK /\ AcceptTypeOK /\ EndTypeOK
  BY DEF IInv, TypeOK
<1> USE DEF storeVars, dbVars, rowVars, redisVars, matchingVars
<1>1. UNCHANGED <<storeVars, matchingVars>>
  BY DEF Request, ReceiveAccept, ReceiveEnd, ReceivePing
<1>2. TripMatchesRide' /\ OnlyOffered' /\ FreshRides' /\ OffersFlagged'
  BY <1>0, <1>1 DEF Coupling, TripMatchesRide, OnlyOffered, FreshRides, OffersFlagged,
     Open, At
<1>3. ASSUME NEW q \in AcceptRequests, NEW r \in Rides, NEW d \in Drivers,
             ReceiveAccept(q, r, d), UNCHANGED end
      PROVE  AcceptInv' /\ EndInv'
  <2>1. d \in offered[r]
    BY <1>0, <1>3, StoreAssumption DEF ReceiveAccept, Coupling, OffersFlagged
  <2>2. AcceptInv'
    BY <1>0, <1>1, <1>3, <2>1
    DEF ReceiveAccept, Coupling, AcceptInv, AcceptAt, AcceptTypeOK
  <2> QED
    BY <1>0, <1>1, <1>3, <2>2 DEF Coupling, EndInv, EndAt
<1>4. ASSUME NEW e \in EndRequests, NEW r \in Rides, ReceiveEnd(e, r), UNCHANGED accept
      PROVE  AcceptInv' /\ EndInv'
  <2>1. tripStatus[r] # None
    BY <1>4, StoreAssumption DEF ReceiveEnd, TripStatus
  <2>2. EndInv'
    BY <1>0, <1>1, <1>4, <2>1 DEF ReceiveEnd, Coupling, EndInv, EndAt, EndTypeOK
  <2> QED
    BY <1>0, <1>1, <1>4, <2>2 DEF Coupling, AcceptInv, AcceptAt
<1>5. CASE UNCHANGED <<accept, end>>
  BY <1>0, <1>1, <1>2, <1>5 DEF Coupling, AcceptInv, AcceptAt, EndInv, EndAt
<1> QED
  BY <1>2, <1>3, <1>4, <1>5 DEF Request, Coupling

\* A fault or a crash undoes open transactions, and so keeps the coupling.
LEMMA FaultCoupling ==
    ASSUME IInv, Fault
    PROVE  Coupling'
<1>0. Coupling /\ StoreTypeOK /\ MatchingTypeOK /\ AcceptTypeOK /\ EndTypeOK
  BY DEF IInv, TypeOK
<1> USE DEF storeVars, dbVars, rowVars, redisVars, matchingVars
<1>1. CASE Crash
  <2>1. TripMatchesRide' /\ OnlyOffered' /\ OffersFlagged'
    BY <1>0, <1>1 DEF Crash, Coupling, TripMatchesRide, OnlyOffered, OffersFlagged, Open
  <2>2. FreshRides'
    BY <1>0, <1>1 DEF Crash, Coupling, FreshRides, At, MatchingTypeOK, Task, TaskOver
  <2>3. AcceptInv' /\ EndInv'
    BY <1>1 DEF Crash, AcceptInv, EndInv, AcceptAt, EndAt, IdleAccept, IdleEnd
  <2> QED
    BY <2>1, <2>2, <2>3 DEF Coupling
<1>2. ASSUME NEW r \in Rides, TaskFails(r), UNCHANGED <<accept, end, ping>>
      PROVE  Coupling'
  BY <1>0, <1>2, TaskMovesCoupling DEF TaskFails, GoTo, MatchingTypeOK, Task
<1>3. ASSUME NEW q \in AcceptRequests, AcceptFails(q), UNCHANGED <<matchingVars, end, ping>>
      PROVE  Coupling'
  BY <1>3, AcceptMovesCoupling DEF AcceptFails, AcceptAt, AcceptPc, Assigning
<1>4. ASSUME NEW e \in EndRequests, EndFails(e), UNCHANGED <<matchingVars, accept, ping>>
      PROVE  Coupling'
  <2>1. \A x \in EndRequests : end'[x].pc # "idle" =>
            end[x].pc # "idle" /\ end'[x].ride = end[x].ride
    BY <1>0, <1>4 DEF EndFails, EndGoTo, EndTypeOK, End
  <2>2. EndInv'
    BY <1>0, <1>4, <2>1 DEF EndFails, Coupling, EndInv, EndAt
  <2>3. TripMatchesRide' /\ OnlyOffered' /\ FreshRides' /\ OffersFlagged' /\ AcceptInv'
    BY <1>0, <1>4 DEF EndFails, Coupling, TripMatchesRide, OnlyOffered, FreshRides,
       OffersFlagged, AcceptInv, Open, At, AcceptAt
  <2> QED
    BY <2>2, <2>3 DEF Coupling
<1>5. ASSUME NEW p \in PingRequests, PingFails(p), UNCHANGED <<matchingVars, accept, end>>
      PROVE  Coupling'
  BY <1>0, <1>5, TaskMovesCoupling DEF PingFails
<1> QED
  BY <1>1, <1>2, <1>3, <1>4, <1>5 DEF Fault

\* Every step keeps the inductive invariant.
LEMMA IInvStep == IInv /\ [Next]_vars => IInv'
<1> SUFFICES ASSUME IInv, [Next]_vars PROVE Coupling'
  BY TypeStep DEF IInv
<1>0. Coupling
  BY DEF IInv
<1> USE DEF storeVars, dbVars, rowVars, redisVars, matchingVars
<1>1. ASSUME NEW r \in Rides, TaskActs(r) PROVE Coupling'
  BY <1>1, TaskCoupling
<1>2. ASSUME NEW q \in AcceptRequests, AcceptActs(q) PROVE Coupling'
  BY <1>2, AcceptCoupling
<1>3. ASSUME NEW e \in EndRequests, EndActs(e) PROVE Coupling'
  BY <1>3, EndCoupling
<1>4. ASSUME NEW p \in PingRequests, PingActs(p) PROVE Coupling'
  BY <1>0, <1>4, TaskMovesCoupling
  DEF PingActs, PingStep, AddToGeo, CheckDriverKey, SeedDriverKey
<1>5. CASE Request
  BY <1>5, RequestCoupling
<1>6. CASE Expire
  <2>1. offerKey \in [Rides -> Drivers \cup {None}]
    BY DEF IInv, TypeOK, StoreTypeOK
  <2> QED
    BY <1>0, <1>6, <2>1, TaskMovesCoupling
    DEF Expire, ExpireOffer, ExpireMatching, ExpireLock
<1>7. CASE Fault
  BY <1>7, FaultCoupling
<1>8. CASE UNCHANGED vars
  BY <1>0, <1>8, TaskMovesCoupling DEF vars
<1> QED
  BY <1>1, <1>2, <1>3, <1>4, <1>5, <1>6, <1>7, <1>8 DEF Next

\* The inductive invariant holds in every reachable state.
THEOREM Invariance == Spec => []IInv
<1>1. Init => IInv
  BY InitType, InitCoupling DEF IInv
<1> QED
  BY <1>1, IInvStep, PTL DEF Spec

\* The rides and trips tables agree in every reachable state, with any number of
\* rides, drivers and concurrent requests, crashes and store failures included.
THEOREM TablesAgree == Spec => []TripMatchesRide
<1>1. IInv => TripMatchesRide
  BY DEF IInv, Coupling
<1> QED
  BY <1>1, Invariance, PTL

\* Nobody is ever assigned a ride that matching has not offered them.
THEOREM AssignmentsWereOffered == Spec => []OnlyOffered
<1>1. IInv => OnlyOffered
  BY DEF IInv, Coupling
<1> QED
  BY <1>1, Invariance, PTL

-----------------------------------------------------------------------------
(* Who holds which row *)

\* The program counters from which an accept, or an end, holds the driver's row.
AcceptHolding == {"driverKey", "rideKey", "release", "commit"}
EndHolding == {"driverKey", "rideKey", "commit"}

\* The rows in the hands of a request are the ones its handler has asked for so far, in
\* the order of the code, and after an error until the session is closed: an accept takes
\* the ride and then the driver, an end the trip, the ride and the driver.
AcceptRows(q) ==
    /\ \A r \in Rides : rideRow[r] = q =>
           /\ accept[q].ride = r
           /\ accept[q].pc \in AcceptHolding \cup {"driver", "drop", "rollback"}
    /\ \A r \in Rides : tripRow[r] # q
    /\ \A d \in Drivers : driverRow[d] = q =>
           /\ accept[q].driver = d
           /\ accept[q].pc \in AcceptHolding \cup {"drop", "rollback"}
    /\ accept[q].pc \in AcceptHolding => driverRow[accept[q].driver] = q

EndRows(e) ==
    /\ \A r \in Rides : tripRow[r] = e =>
           /\ end[e].ride = r
           /\ end[e].pc \in EndHolding \cup {"ride", "driver", "rollback"}
    /\ \A r \in Rides : rideRow[r] = e =>
           /\ end[e].ride = r
           /\ end[e].pc \in EndHolding \cup {"driver", "rollback"}
    /\ \A d \in Drivers : driverRow[d] = e =>
           /\ rideDriver[end[e].ride] = d
           /\ end[e].pc \in EndHolding \cup {"rollback"}
    /\ end[e].pc \in EndHolding => driverRow[rideDriver[end[e].ride]] = e

RowOwners == /\ \A q \in AcceptRequests : AcceptRows(q)
             /\ \A e \in EndRequests : EndRows(e)

\* What the lemmas below need of the types and of the coupling.
LEMMA RowFacts ==
    ASSUME IInv
    PROVE  /\ AcceptTypeOK /\ EndTypeOK
           /\ rideRow \in [Rides -> Requests \cup {None}]
           /\ tripRow \in [Rides -> Requests \cup {None}]
           /\ driverRow \in [Drivers -> Requests \cup {None}]
           /\ driverKey \in [Drivers -> DriverStatus \cup {None}]
           /\ driverStatus \in [Drivers -> DriverStatus]
           /\ rideDriver \in [Rides -> Drivers \cup {None}]
           /\ \A e \in EndRequests : end[e].pc # "idle" =>
                  end[e].ride \in Rides /\ rideDriver[end[e].ride] \in Drivers
  BY DEF IInv, TypeOK, StoreTypeOK, EndTypeOK, Coupling, EndInv, EndAt, TripMatchesRide

\* x holds the same rows after the step.
SameRows(x) ==
    /\ \A r \in Rides : (rideRow'[r] = x <=> rideRow[r] = x) /\ (tripRow'[r] = x <=> tripRow[r] = x)
    /\ \A d \in Drivers : driverRow'[d] = x <=> driverRow[d] = x

\* A step gives a row that was free to the one who takes it, or frees what the one who
\* returns has held: everybody else holds what they held.
LEMMA OthersKeepRows ==
    ASSUME IInv, NEW h \in Requests, NEW x \in Requests \ {h},
           \/ ReleaseRows(h)
           \/ UNCHANGED rowVars
           \/ \E r \in Rides : /\ rideRow[r] = None /\ rideRow' = [rideRow EXCEPT ![r] = h]
                               /\ UNCHANGED <<tripRow, driverRow>>
           \/ \E r \in Rides : /\ tripRow[r] = None /\ tripRow' = [tripRow EXCEPT ![r] = h]
                               /\ UNCHANGED <<rideRow, driverRow>>
           \/ \E d \in Drivers : /\ driverRow[d] = None /\ driverRow' = [driverRow EXCEPT ![d] = h]
                                 /\ UNCHANGED <<rideRow, tripRow>>
    PROVE  SameRows(x)
<1>1. x # None
  BY StoreAssumption
<1>2. CASE ReleaseRows(h)
  BY <1>1, <1>2, RowFacts DEF ReleaseRows, Unlock, SameRows
<1>3. CASE UNCHANGED rowVars
  BY <1>3 DEF rowVars, SameRows
<1> QED
  BY <1>1, <1>2, <1>3, RowFacts DEF SameRows

\* A request that a step leaves where it was, with the rows it had, still holds them
\* for the same reason; nobody changes the driver of a ride that is being ended.
LEMMA BystandersKeepRows ==
    ASSUME IInv, RowOwners,
           \A r \in Rides : tripStatus[r] # None => rideDriver'[r] = rideDriver[r]
    PROVE  /\ \A q \in AcceptRequests :
                  SameRows(q) /\ accept'[q] = accept[q] => AcceptRows(q)'
           /\ \A e \in EndRequests :
                  SameRows(e) /\ end'[e] = end[e] => EndRows(e)'
<1>1. ASSUME NEW q \in AcceptRequests, SameRows(q), accept'[q] = accept[q]
      PROVE  AcceptRows(q)'
  <2>1. AcceptRows(q) /\ (accept[q].pc \in AcceptHolding => accept[q].driver \in Drivers)
    BY RowFacts DEF RowOwners, AcceptTypeOK, AcceptHolding
  <2> QED
    BY <1>1, <2>1 DEF AcceptRows, SameRows
<1>2. ASSUME NEW e \in EndRequests, SameRows(e), end'[e] = end[e]
      PROVE  EndRows(e)'
  <2>1. EndRows(e)
    BY DEF RowOwners
  <2>2. CASE end[e].pc = "idle"
    BY <1>2, <2>1, <2>2 DEF EndRows, SameRows, EndHolding
  <2>3. CASE end[e].pc # "idle"
    <3>1. /\ end[e].ride \in Rides /\ rideDriver[end[e].ride] \in Drivers
          /\ rideDriver'[end[e].ride] = rideDriver[end[e].ride]
      BY <2>3, RowFacts DEF IInv, Coupling, EndInv, EndAt
    <3> QED
      BY <1>2, <2>1, <3>1 DEF EndRows, SameRows
  <2> QED
    BY <2>2, <2>3
<1> QED
  BY <1>1, <1>2

\* accept_ride, also when it fails, takes its rows in order and frees all of them.
LEMMA AcceptKeepsRows ==
    ASSUME IInv, RowOwners, NEW q \in AcceptRequests, UNCHANGED end,
           AcceptStep(q) \/ AcceptFails(q)
    PROVE  RowOwners'
<1> USE DEF storeVars, dbVars, rowVars, redisVars
<1>0. /\ accept[q].pc # "idle" /\ accept[q].ride \in Rides /\ accept[q].driver \in Drivers
      /\ accept[q].ride # None /\ accept[q].driver # None /\ AcceptRows(q)
      /\ q \in Requests /\ q # None
      /\ \A e \in EndRequests : e # q
  BY RowFacts, StoreAssumption
  DEF AcceptStep, TakeLock, ReadRide, WriteRideAndTrip, WriteDriver, SetDriverOnTrip,
     SetRideAssigned, ReleaseLock, CommitAccept, RollbackAccept, AcceptFails, AcceptAt,
     AcceptTypeOK, RowOwners, Requests
<1>1. \A r \in Rides : tripStatus[r] # None => rideDriver'[r] = rideDriver[r]
  <2>1. CASE CommitAccept(q)
    BY <1>0, <2>1, RowFacts DEF CommitAccept, AcceptAt, IInv, Coupling, AcceptInv
  <2>2. CASE UNCHANGED rideDriver
    BY <2>2
  <2> QED
    BY <2>1, <2>2 DEF AcceptStep, TakeLock, ReadRide, WriteRideAndTrip, WriteDriver,
       SetDriverOnTrip, SetRideAssigned, ReleaseLock, RollbackAccept, AcceptFails
<1>2. \A x \in Requests \ {q} : SameRows(x)
  <2>1. \/ ReleaseRows(q)
        \/ UNCHANGED rowVars
        \/ \E r \in Rides : /\ rideRow[r] = None /\ rideRow' = [rideRow EXCEPT ![r] = q]
                            /\ UNCHANGED <<tripRow, driverRow>>
        \/ \E d \in Drivers : /\ driverRow[d] = None /\ driverRow' = [driverRow EXCEPT ![d] = q]
                              /\ UNCHANGED <<rideRow, tripRow>>
    BY <1>0 DEF AcceptStep, TakeLock, ReadRide, WriteRideAndTrip, WriteDriver,
       SetDriverOnTrip, SetRideAssigned, ReleaseLock, CommitAccept, RollbackAccept, AcceptFails
  <2> QED
    BY <1>0, <2>1, OthersKeepRows
<1>3. \A p \in AcceptRequests \ {q} : accept'[p] = accept[p]
  BY RowFacts DEF AcceptStep, TakeLock, ReadRide, WriteRideAndTrip, WriteDriver,
     SetDriverOnTrip, SetRideAssigned, ReleaseLock, CommitAccept, RollbackAccept, AcceptFails,
     AcceptGoTo, AcceptReturns, AcceptTypeOK
<1>4. AcceptRows(q)'
  <2>1. ASSUME AcceptReturns(q), ReleaseRows(q) \/ (AcceptAt(q, "lock") /\ UNCHANGED rowVars)
        PROVE  AcceptRows(q)'
    <3>1. accept'[q].pc = "idle"
      BY <2>1, RowFacts DEF AcceptReturns, AcceptTypeOK, IdleAccept
    <3>2. /\ \A r \in Rides : rideRow'[r] # q /\ tripRow'[r] # q
          /\ \A d \in Drivers : driverRow'[d] # q
      BY <1>0, <2>1, RowFacts DEF ReleaseRows, Unlock, AcceptRows, AcceptAt, AcceptHolding
    <3> QED
      BY <3>1, <3>2 DEF AcceptRows, AcceptHolding
  <2>2. ASSUME NEW pc \in AcceptPc, AcceptGoTo(q, pc)
        PROVE  /\ accept'[q].pc = pc
               /\ accept'[q].ride = accept[q].ride /\ accept'[q].driver = accept[q].driver
    BY <2>2, RowFacts DEF AcceptGoTo, AcceptTypeOK, Accept
  <2>3. ASSUME NEW pc \in AcceptPc, AcceptGoTo(q, pc), UNCHANGED rowVars,
               accept[q].pc \in AcceptHolding \cup {"driver", "drop", "rollback"} =>
                   pc \in AcceptHolding \cup {"driver", "drop", "rollback"},
               accept[q].pc \in AcceptHolding \cup {"drop", "rollback"} =>
                   pc \in AcceptHolding \cup {"drop", "rollback"},
               pc \in AcceptHolding => accept[q].pc \in AcceptHolding
        PROVE  AcceptRows(q)'
    BY <1>0, <2>2, <2>3 DEF AcceptRows
  <2>4. CASE TakeLock(q)
    <3>1. AcceptAt(q, "lock") /\ UNCHANGED rowVars
      BY <2>4 DEF TakeLock
    <3>2. CASE AcceptReturns(q)
      BY <2>1, <3>1, <3>2
    <3>3. CASE AcceptGoTo(q, "read")
      BY <2>3, <3>1, <3>3 DEF AcceptAt, AcceptPc, AcceptHolding
    <3> QED
      BY <2>4, <3>2, <3>3 DEF TakeLock
  <2>5. CASE ReadRide(q)
    BY <2>3, <2>5 DEF ReadRide, AcceptAt, AcceptPc, AcceptHolding
  <2>6. CASE WriteRideAndTrip(q)
    <3>1. /\ accept[q].pc = "ride" /\ rideRow' = [rideRow EXCEPT ![accept[q].ride] = q]
          /\ UNCHANGED <<tripRow, driverRow>>
          /\ accept'[q].pc \in {"drop", "driver"}
          /\ accept'[q].ride = accept[q].ride /\ accept'[q].driver = accept[q].driver
      BY <2>2, <2>6 DEF WriteRideAndTrip, AcceptAt, AcceptPc
    <3> QED
      BY <1>0, <3>1, RowFacts DEF AcceptRows, AcceptHolding
  <2>7. CASE WriteDriver(q)
    <3>1. /\ accept[q].pc = "driver" /\ driverRow' = [driverRow EXCEPT ![accept[q].driver] = q]
          /\ UNCHANGED <<rideRow, tripRow>> /\ accept'[q].pc = "driverKey"
          /\ accept'[q].ride = accept[q].ride /\ accept'[q].driver = accept[q].driver
      BY <2>2, <2>7 DEF WriteDriver, AcceptAt, AcceptPc
    <3> QED
      BY <1>0, <3>1, RowFacts DEF AcceptRows, AcceptHolding
  <2>8. CASE SetDriverOnTrip(q) \/ SetRideAssigned(q) \/ ReleaseLock(q)
    <3>1. UNCHANGED rowVars
      BY <2>8 DEF SetDriverOnTrip, SetRideAssigned, ReleaseLock
    <3> QED
      BY <2>3, <2>8, <3>1 DEF SetDriverOnTrip, SetRideAssigned, ReleaseLock, AcceptAt, AcceptPc,
         AcceptHolding
  <2>9. CASE CommitAccept(q) \/ RollbackAccept(q)
    BY <2>1, <2>9 DEF CommitAccept, RollbackAccept
  <2>10. CASE AcceptFails(q)
    <3>1. UNCHANGED rowVars
      BY <2>10 DEF AcceptFails
    <3>2. CASE AcceptAt(q, "lock")
      BY <2>1, <2>10, <3>1, <3>2 DEF AcceptFails, AcceptAt
    <3>3. CASE ~AcceptAt(q, "lock")
      BY <2>3, <2>10, <3>1, <3>3 DEF AcceptFails, AcceptAt, AcceptPc, AcceptHolding
    <3> QED
      BY <3>2, <3>3
  <2> QED
    BY <2>4, <2>5, <2>6, <2>7, <2>8, <2>9, <2>10 DEF AcceptStep
<1> QED
  BY <1>0, <1>1, <1>2, <1>3, <1>4, BystandersKeepRows DEF RowOwners, Requests

\* end_trip, also when it fails, does the same.
LEMMA EndKeepsRows ==
    ASSUME IInv, RowOwners, NEW e \in EndRequests, UNCHANGED accept, EndStep(e) \/ EndFails(e)
    PROVE  RowOwners'
<1> USE DEF storeVars, dbVars, rowVars, redisVars
<1>0. /\ end[e].pc # "idle" /\ end[e].ride \in Rides /\ rideDriver[end[e].ride] \in Drivers
      /\ EndRows(e) /\ e \in Requests /\ e # None
      /\ \A q \in AcceptRequests : q # e
  BY RowFacts, StoreAssumption
  DEF EndStep, LoadRide, CompleteTrip, CompleteRide, FreeDriver, SetDriverOnline,
     SetRideCompleted, CommitEnd, RollbackEnd, EndFails, EndAt, RowOwners, Requests
<1>1. UNCHANGED rideDriver
  BY DEF EndStep, LoadRide, CompleteTrip, CompleteRide, FreeDriver, SetDriverOnline,
     SetRideCompleted, CommitEnd, RollbackEnd, EndFails
<1>2. \A x \in Requests \ {e} : SameRows(x)
  <2>1. \/ ReleaseRows(e)
        \/ UNCHANGED rowVars
        \/ \E r \in Rides : /\ tripRow[r] = None /\ tripRow' = [tripRow EXCEPT ![r] = e]
                            /\ UNCHANGED <<rideRow, driverRow>>
        \/ \E r \in Rides : /\ rideRow[r] = None /\ rideRow' = [rideRow EXCEPT ![r] = e]
                            /\ UNCHANGED <<tripRow, driverRow>>
        \/ \E d \in Drivers : /\ driverRow[d] = None /\ driverRow' = [driverRow EXCEPT ![d] = e]
                              /\ UNCHANGED <<rideRow, tripRow>>
    BY <1>0 DEF EndStep, LoadRide, CompleteTrip, CompleteRide, FreeDriver,
       SetDriverOnline, SetRideCompleted, CommitEnd, RollbackEnd, EndFails
  <2> QED
    BY <1>0, <2>1, OthersKeepRows
<1>3. \A x \in EndRequests \ {e} : end'[x] = end[x]
  BY RowFacts DEF EndStep, LoadRide, CompleteTrip, CompleteRide, FreeDriver,
     SetDriverOnline, SetRideCompleted, CommitEnd, RollbackEnd, EndFails, EndGoTo, EndReturns,
     EndTypeOK
<1>4. EndRows(e)'
  <2>1. CASE CommitEnd(e) \/ RollbackEnd(e)
    <3>1. end'[e].pc = "idle"
      BY <2>1, RowFacts DEF CommitEnd, RollbackEnd, EndReturns, EndTypeOK, IdleEnd
    <3>2. /\ \A r \in Rides : rideRow'[r] # e /\ tripRow'[r] # e
          /\ \A d \in Drivers : driverRow'[d] # e
      BY <1>0, <2>1, RowFacts DEF CommitEnd, RollbackEnd, ReleaseRows, Unlock
    <3> QED
      BY <3>1, <3>2 DEF EndRows, EndHolding
  <2>2. ASSUME NEW pc \in EndPc, EndGoTo(e, pc)
        PROVE  end'[e].pc = pc /\ end'[e].ride = end[e].ride
    BY <2>2, RowFacts DEF EndGoTo, EndTypeOK, End
  <2>3. CASE LoadRide(e)
    <3>1. end[e].pc = "load" /\ end'[e].pc = "trip" /\ end'[e].ride = end[e].ride
      BY <2>3, RowFacts DEF LoadRide, EndAt, EndTypeOK, End
    <3> QED
      BY <1>0, <2>3, <3>1 DEF LoadRide, EndRows, EndHolding
  <2>4. CASE CompleteTrip(e)
    <3>1. /\ end[e].pc = "trip" /\ tripRow' = [tripRow EXCEPT ![end[e].ride] = e]
          /\ UNCHANGED <<rideRow, driverRow>>
          /\ end'[e].pc \in {"ride", "rollback"} /\ end'[e].ride = end[e].ride
      BY <2>2, <2>4 DEF CompleteTrip, EndAt, EndPc
    <3> QED
      BY <1>0, <1>1, <3>1, RowFacts DEF EndRows, EndHolding
  <2>5. CASE CompleteRide(e)
    <3>1. /\ end[e].pc = "ride" /\ rideRow' = [rideRow EXCEPT ![end[e].ride] = e]
          /\ UNCHANGED <<tripRow, driverRow>>
          /\ end'[e].pc = "driver" /\ end'[e].ride = end[e].ride
      BY <1>0, <2>2, <2>5, StoreAssumption DEF CompleteRide, EndAt, EndPc
    <3> QED
      BY <1>0, <1>1, <3>1, RowFacts DEF EndRows, EndHolding
  <2>6. CASE FreeDriver(e)
    <3>1. /\ end[e].pc = "driver" /\ driverRow' = [driverRow EXCEPT ![rideDriver[end[e].ride]] = e]
          /\ UNCHANGED <<tripRow, rideRow>>
          /\ end'[e].pc = "driverKey" /\ end'[e].ride = end[e].ride
      BY <2>2, <2>6 DEF FreeDriver, EndAt, EndPc
    <3> QED
      BY <1>0, <1>1, <3>1, RowFacts DEF EndRows, EndHolding
  <2>7. CASE SetDriverOnline(e) \/ SetRideCompleted(e) \/ EndFails(e)
    <3>1. UNCHANGED rowVars
      BY <2>7 DEF SetDriverOnline, SetRideCompleted, EndFails
    <3>2. /\ end'[e].ride = end[e].ride
          /\ \/ end'[e].pc = "rollback"
             \/ end[e].pc = "driverKey" /\ end'[e].pc = "rideKey"
             \/ end[e].pc = "rideKey" /\ end'[e].pc = "commit"
      BY <2>2, <2>7 DEF SetDriverOnline, SetRideCompleted, EndFails, EndAt, EndPc
    <3> QED
      BY <1>0, <1>1, <3>1, <3>2 DEF EndRows, EndHolding
  <2> QED
    BY <2>1, <2>3, <2>4, <2>5, <2>6, <2>7 DEF EndStep
<1> QED
  BY <1>0, <1>1, <1>2, <1>3, <1>4, BystandersKeepRows DEF RowOwners, Requests

\* Every step, a crash and a failure included, keeps the rows in the right hands.
LEMMA RowStep == IInv /\ RowOwners /\ [Next]_vars => RowOwners'
<1> SUFFICES ASSUME IInv, RowOwners, [Next]_vars PROVE RowOwners'
  OBVIOUS
<1> USE DEF storeVars, dbVars, rowVars, redisVars, matchingVars
<1>1. CASE UNCHANGED <<rowVars, rideDriver, accept, end>>
  BY <1>1 DEF RowOwners, AcceptRows, EndRows
<1>2. ASSUME NEW r \in Rides, TaskActs(r) PROVE RowOwners'
  <2>1. UNCHANGED <<rowVars, rideDriver, accept, end>>
    BY <1>2 DEF TaskActs, MatchingStep, StartMatching, PublishMatching, SearchRadius,
       SkipCandidate, ChooseCandidate, MakeOffer, PollDecided, PollTimeout, WithdrawOffer,
       RadiusExhausted, BetweenRadii, CancelRead, CancelWrite, CancelKey
  <2> QED
    BY <1>1, <2>1
<1>3. ASSUME NEW p \in PingRequests, PingStep(p) \/ PingFails(p), UNCHANGED <<accept, end>>
      PROVE  RowOwners'
  BY <1>1, <1>3 DEF PingStep, AddToGeo, CheckDriverKey, SeedDriverKey, PingFails
<1>4. CASE Request
  <2>1. UNCHANGED storeVars
    BY <1>4 DEF Request, ReceiveAccept, ReceiveEnd, ReceivePing
  <2>2. \A q \in AcceptRequests : AcceptRows(q)'
    <3> SUFFICES ASSUME NEW q \in AcceptRequests PROVE AcceptRows(q)'
      OBVIOUS
    <3>1. \/ accept'[q] = accept[q]
          \/ accept[q].pc = "idle" /\ accept'[q].pc = "lock"
      BY <1>4, RowFacts DEF Request, ReceiveAccept, ReceiveEnd, ReceivePing, AcceptAt, AcceptTypeOK
    <3> QED
      BY <2>1, <3>1 DEF RowOwners, AcceptRows, AcceptHolding
  <2>3. \A e \in EndRequests : EndRows(e)'
    <3> SUFFICES ASSUME NEW e \in EndRequests PROVE EndRows(e)'
      OBVIOUS
    <3>1. \/ end'[e] = end[e]
          \/ end[e].pc = "idle" /\ end'[e].pc = "load"
      BY <1>4, RowFacts DEF Request, ReceiveAccept, ReceiveEnd, ReceivePing, EndAt, EndTypeOK
    <3> QED
      BY <2>1, <3>1 DEF RowOwners, EndRows, EndHolding
  <2> QED
    BY <2>2, <2>3 DEF RowOwners
<1>5. CASE Expire
  BY <1>1, <1>5 DEF Expire, ExpireOffer, ExpireMatching, ExpireLock
<1>6. CASE Crash
  BY <1>6, StoreAssumption DEF Crash, RowOwners, AcceptRows, EndRows, AcceptHolding, EndHolding,
     IdleAccept, IdleEnd, Requests
<1>7. CASE UNCHANGED vars
  BY <1>1, <1>7 DEF vars
<1>8. ASSUME NEW r \in Rides, TaskFails(r), UNCHANGED <<accept, end>> PROVE RowOwners'
  BY <1>1, <1>8 DEF TaskFails
<1> QED
  BY <1>2, <1>3, <1>4, <1>5, <1>6, <1>7, <1>8, AcceptKeepsRows, EndKeepsRows
  DEF Next, AcceptActs, EndActs, PingActs, Fault

\* At any time, whatever races or fails, every row is held by a request that is entitled
\* to it.
LEMMA RowsAreOwned == Spec => []RowOwners
<1>1. Init => RowOwners
  BY StoreAssumption DEF Init, StoreInit, AcceptInit, EndInit, IdleAccept, IdleEnd, RowOwners,
     AcceptRows, EndRows, AcceptHolding, EndHolding, Requests
<1> QED
  BY <1>1, RowStep, Invariance, PTL DEF Spec

\* Transactions never wait for each other in a circle, with any number of requests,
\* crashes and failures included.  The rows are taken in one order (trip, ride, driver):
\* among the requests of any set, one that holds the last kind of row that any of them
\* holds waits for none of them.
THEOREM NoDeadlock == Spec => []NoCircularWait
<1>1. IInv /\ RowOwners => NoCircularWait
  <2> SUFFICES ASSUME IInv, RowOwners, NEW S \in SUBSET Requests, S # {}
               PROVE  \E x \in S : \A h \in S : ~WaitsFor(x, h)
    BY DEF NoCircularWait
  <2>0. \A x \in S : /\ x # None /\ (x \in AcceptRequests \/ x \in EndRequests)
                     /\ ~(x \in AcceptRequests /\ x \in EndRequests)
    BY StoreAssumption DEF Requests
  <2>1. ASSUME NEW d \in Drivers, driverRow[d] \in S
        PROVE  \A h \in S : ~WaitsFor(driverRow[d], h)
    BY <2>0, <2>1 DEF RowOwners, AcceptRows, EndRows, AcceptHolding, EndHolding, WaitsFor,
       AcceptWaitsFor, EndWaitsFor, AcceptAt, EndAt
  <2>2. ASSUME NEW r \in Rides, rideRow[r] \in S, \A d \in Drivers : driverRow[d] \notin S
        PROVE  \A h \in S : ~WaitsFor(rideRow[r], h)
    <3>1. ASSUME NEW q \in AcceptRequests, rideRow[r] = q, NEW h \in S PROVE ~AcceptWaitsFor(q, h)
      BY <2>2, <3>1, RowFacts DEF RowOwners, AcceptRows, AcceptHolding, AcceptWaitsFor, AcceptAt,
         AcceptTypeOK
    <3>2. ASSUME NEW e \in EndRequests, rideRow[r] = e, NEW h \in S PROVE ~EndWaitsFor(e, h)
      BY <2>2, <3>2, RowFacts DEF RowOwners, EndRows, EndHolding, EndWaitsFor, EndAt
    <3> QED
      BY <2>0, <2>2, <3>1, <3>2 DEF WaitsFor
  <2>3. ASSUME NEW r \in Rides, tripRow[r] \in S, \A d \in Drivers : driverRow[d] \notin S,
               \A x \in Rides : rideRow[x] \notin S
        PROVE  \A h \in S : ~WaitsFor(tripRow[r], h)
    <3>1. tripRow[r] \in EndRequests
      BY <2>0, <2>3 DEF RowOwners, AcceptRows
    <3>2. \A h \in S : ~EndWaitsFor(tripRow[r], h)
      BY <2>3, <3>1, RowFacts DEF RowOwners, EndRows, EndHolding, EndWaitsFor, EndAt
    <3> QED
      BY <2>0, <2>3, <3>1, <3>2 DEF WaitsFor
  <2>4. CASE /\ \A r \in Rides : rideRow[r] \notin S /\ tripRow[r] \notin S
             /\ \A d \in Drivers : driverRow[d] \notin S
    <3>1. ASSUME NEW q \in AcceptRequests, NEW h \in S PROVE ~AcceptWaitsFor(q, h)
      BY <2>4, RowFacts DEF AcceptWaitsFor, AcceptAt, AcceptTypeOK
    <3>2. ASSUME NEW e \in EndRequests, NEW h \in S PROVE ~EndWaitsFor(e, h)
      BY <2>4, RowFacts DEF EndWaitsFor, EndAt
    <3> QED
      BY <3>1, <3>2 DEF WaitsFor
  <2> QED
    BY <2>1, <2>2, <2>3, <2>4
<1> QED
  BY <1>1, RowsAreOwned, Invariance, PTL

-----------------------------------------------------------------------------
(* Counting trips *)

\* Only the two commits change the trips, who drives them and how many were counted.
LEMMA CommitsChangeTrips ==
    ASSUME [Next]_vars
    PROVE  \/ \E q \in AcceptRequests : CommitAccept(q)
           \/ \E e \in EndRequests : CommitEnd(e)
           \/ UNCHANGED <<rideDriver, tripStatus, totalTrips>>
<1> USE DEF storeVars, dbVars, matchingVars
<1>1. ASSUME NEW r \in Rides, TaskActs(r) PROVE UNCHANGED <<rideDriver, tripStatus, totalTrips>>
  BY <1>1 DEF TaskActs, MatchingStep, StartMatching, PublishMatching, SearchRadius,
     SkipCandidate, ChooseCandidate, MakeOffer, PollDecided, PollTimeout, WithdrawOffer,
     RadiusExhausted, BetweenRadii, CancelRead, CancelWrite, CancelKey
<1>2. ASSUME NEW q \in AcceptRequests, AcceptActs(q)
      PROVE  CommitAccept(q) \/ UNCHANGED <<rideDriver, tripStatus, totalTrips>>
  BY <1>2 DEF AcceptActs, AcceptStep, TakeLock, ReadRide, WriteRideAndTrip, WriteDriver,
     SetDriverOnTrip, SetRideAssigned, ReleaseLock, RollbackAccept
<1>3. ASSUME NEW e \in EndRequests, EndActs(e)
      PROVE  CommitEnd(e) \/ UNCHANGED <<rideDriver, tripStatus, totalTrips>>
  BY <1>3 DEF EndActs, EndStep, LoadRide, CompleteTrip, CompleteRide,
     FreeDriver, SetDriverOnline, SetRideCompleted, RollbackEnd
<1>4. ASSUME NEW p \in PingRequests, PingActs(p) PROVE UNCHANGED <<rideDriver, tripStatus, totalTrips>>
  BY <1>4 DEF PingActs, PingStep, AddToGeo, CheckDriverKey, SeedDriverKey
<1>5. Request \/ Expire \/ Fault => UNCHANGED <<rideDriver, tripStatus, totalTrips>>
  BY DEF Request, ReceiveAccept, ReceiveEnd, ReceivePing, Expire, ExpireOffer,
     ExpireMatching, ExpireLock, Fault, Crash, TaskFails, AcceptFails, EndFails, PingFails
<1> QED
  BY <1>1, <1>2, <1>3, <1>4, <1>5 DEF Next, vars

\* The trips that d has completed.
Ended(d) == {r \in Rides : rideDriver[r] = d /\ tripStatus[r] = "COMPLETED"}

\* Assigning a ride adds no completed trip; completing one adds that trip to those of
\* its driver, whose counter goes up by one in the same transaction.
LEMMA TripsCountedStep == IInv /\ TripsCounted /\ [Next]_vars => TripsCounted'
<1> SUFFICES ASSUME IInv, TripsCounted, [Next]_vars, NEW d \in Drivers
             PROVE  totalTrips'[d] >= Cardinality(Ended(d)')
  BY DEF TripsCounted, Ended
<1>0. /\ Coupling /\ StoreTypeOK /\ AcceptTypeOK /\ EndTypeOK
      /\ totalTrips[d] \in Nat /\ totalTrips[d] >= Cardinality(Ended(d))
  BY DEF IInv, TypeOK, StoreTypeOK, TripsCounted, Ended
<1>1. IsFiniteSet(Ended(d)) /\ Cardinality(Ended(d)) \in Nat
  BY StoreAssumption, FS_Subset, FS_CardinalityType DEF Ended
<1>2. ASSUME NEW q \in AcceptRequests, CommitAccept(q)
      PROVE  totalTrips'[d] >= Cardinality(Ended(d)')
  <2>1. accept[q].ride \in Rides /\ tripStatus[accept[q].ride] = None
    BY <1>0, <1>2 DEF CommitAccept, AcceptAt, AcceptTypeOK, Coupling, AcceptInv
  <2>2. Ended(d)' = Ended(d)
    BY <1>0, <1>2, <2>1, StoreAssumption DEF CommitAccept, Ended, StoreTypeOK, TripStatus
  <2>3. UNCHANGED totalTrips
    BY <1>2 DEF CommitAccept
  <2> QED
    BY <1>0, <2>2, <2>3
<1>3. ASSUME NEW e \in EndRequests, CommitEnd(e)
      PROVE  totalTrips'[d] >= Cardinality(Ended(d)')
  <2> DEFINE r == end[e].ride
  <2>1. /\ tripStatus' = [tripStatus EXCEPT ![r] = "COMPLETED"]
        /\ totalTrips'[d] = IF d = rideDriver[r] THEN totalTrips[d] + 1 ELSE totalTrips[d]
        /\ UNCHANGED rideDriver
    BY <1>3 DEF CommitEnd
  <2>2. CASE d = rideDriver[r]
    <3>1. Ended(d)' \in SUBSET (Ended(d) \cup {r})
      BY <1>0, <2>1 DEF Ended, StoreTypeOK
    <3>2. /\ IsFiniteSet(Ended(d) \cup {r})
          /\ Cardinality(Ended(d) \cup {r}) <= Cardinality(Ended(d)) + 1
          /\ Cardinality(Ended(d) \cup {r}) \in Nat
      <4>1. /\ IsFiniteSet(Ended(d) \cup {r})
            /\ Cardinality(Ended(d) \cup {r}) = IF r \in Ended(d) THEN Cardinality(Ended(d))
                                                 ELSE Cardinality(Ended(d)) + 1
        BY <1>1, FS_AddElement
      <4> QED
        BY <1>1, <4>1
    <3>3. Cardinality(Ended(d)') <= Cardinality(Ended(d) \cup {r})
      BY <3>1, <3>2, FS_Subset
    <3>4. Cardinality(Ended(d)') \in Nat
      BY <3>1, <3>2, FS_Subset, FS_CardinalityType
    <3> QED
      BY <1>0, <1>1, <2>1, <2>2, <3>2, <3>3, <3>4
  <2>3. CASE d # rideDriver[r]
    <3>1. Ended(d)' = Ended(d)
      BY <1>0, <2>1, <2>3 DEF Ended, StoreTypeOK
    <3> QED
      BY <1>0, <2>1, <2>3, <3>1
  <2> QED
    BY <2>2, <2>3
<1>4. CASE UNCHANGED <<rideDriver, tripStatus, totalTrips>>
  <2>1. Ended(d)' = Ended(d)
    BY <1>4 DEF Ended
  <2> QED
    BY <1>0, <1>4, <2>1
<1> QED
  BY <1>2, <1>3, <1>4, CommitsChangeTrips

\* No completed trip is missing from its driver's counter, whatever races or fails.
THEOREM TripsAreCounted == Spec => []TripsCounted
<1>1. Init => TripsCounted
  <2> SUFFICES ASSUME Init, NEW d \in Drivers
               PROVE  totalTrips[d] >= Cardinality(Ended(d))
    BY DEF TripsCounted, Ended
  <2>1. Ended(d) = {}
    BY StoreAssumption DEF Init, StoreInit, Ended, TripStatus
  <2> QED
    BY <2>1, FS_EmptySet DEF Init, StoreInit
<1> QED
  BY <1>1, Invariance, TripsCountedStep, PTL DEF Spec

\* While at most one trip is being ended at a time, the trip that is ended is in progress.
EndingOnce ==
    \A e \in EndRequests : ~EndAt(e, "idle") => tripStatus[end[e].ride] = "IN_PROGRESS"

\* A request that ends a trip alone keeps it in progress until its commit.
LEMMA EndingOnceStep ==
    ASSUME \A e, f \in EndRequests : e = f, IInv, EndingOnce, [Next]_vars
    PROVE  EndingOnce'
<1> USE DEF storeVars, dbVars, rowVars, redisVars, matchingVars
<1>0. EndTypeOK /\ AcceptTypeOK /\ tripStatus \in [Rides -> TripStatus \cup {None}]
  BY DEF IInv, TypeOK, StoreTypeOK
<1> SUFFICES ASSUME NEW e \in EndRequests, end'[e].pc # "idle"
             PROVE  tripStatus'[end'[e].ride] = "IN_PROGRESS"
  BY DEF EndingOnce, EndAt
<1>1. ASSUME NEW r \in Rides, ReceiveEnd(e, r) PROVE tripStatus'[end'[e].ride] = "IN_PROGRESS"
  BY <1>0, <1>1 DEF ReceiveEnd, EndTypeOK
<1>2. ASSUME \A r \in Rides : ~ReceiveEnd(e, r)
      PROVE  end[e].pc # "idle" /\ end'[e].ride = end[e].ride
  <2>1. CASE UNCHANGED end
    BY <2>1
  <2>2. CASE EndActs(e) \/ EndFails(e)
    <3>1. CASE LoadRide(e)
      BY <1>0, <3>1 DEF LoadRide, EndAt, EndTypeOK, End
    <3>2. CASE ~LoadRide(e)
      <4>1. end[e].pc # "idle" /\ (EndReturns(e) \/ \E pc \in EndPc : EndGoTo(e, pc))
        BY <2>2, <3>2 DEF EndActs, EndStep, EndPc, CompleteTrip, CompleteRide,
           FreeDriver, SetDriverOnline, SetRideCompleted, CommitEnd, RollbackEnd, EndFails, EndAt
      <4>2. ~EndReturns(e)
        BY <1>0 DEF EndReturns, EndTypeOK, IdleEnd
      <4> QED
        BY <1>0, <4>1, <4>2 DEF EndGoTo, EndTypeOK, End
    <3> QED
      BY <3>1, <3>2
  <2>3. CASE Crash
    BY <2>3 DEF Crash, IdleEnd
  <2> QED
    BY <1>2, <2>1, <2>2, <2>3 DEF Next, vars, TaskActs, AcceptActs, PingActs, Request, ReceiveAccept,
       ReceivePing, Expire, Fault
<1>3. ASSUME end[e].pc # "idle", end'[e].ride = end[e].ride
      PROVE  tripStatus'[end'[e].ride] = "IN_PROGRESS"
  <2>1. end[e].ride \in Rides /\ tripStatus[end[e].ride] = "IN_PROGRESS"
    BY <1>0, <1>3 DEF EndingOnce, EndAt, EndTypeOK
  <2>2. ~CommitEnd(e)
    BY <1>0 DEF CommitEnd, EndReturns, EndTypeOK, IdleEnd
  <2>3. ASSUME NEW q \in AcceptRequests, CommitAccept(q)
        PROVE  tripStatus'[end[e].ride] = "IN_PROGRESS"
    BY <1>0, <2>1, <2>3 DEF CommitAccept
  <2> QED
    BY <1>3, <2>1, <2>2, <2>3, CommitsChangeTrips
<1> QED
  BY <1>1, <1>2, <1>3

\* The counter goes up once for every trip when no two requests end trips at a time.
LEMMA TripEndedOnceStep ==
    ASSUME IInv, EndingOnce, TripEndedOnce, [Next]_vars
    PROVE  TripEndedOnce'
<1> SUFFICES ASSUME NEW d \in Drivers PROVE totalTrips'[d] = Cardinality(Ended(d)')
  BY DEF TripEndedOnce, Ended
<1>0. /\ Coupling /\ StoreTypeOK /\ AcceptTypeOK /\ EndTypeOK
      /\ totalTrips[d] = Cardinality(Ended(d))
  BY DEF IInv, TypeOK, TripEndedOnce, Ended
<1>1. IsFiniteSet(Ended(d))
  BY StoreAssumption, FS_Subset DEF Ended
<1>2. ASSUME NEW q \in AcceptRequests, CommitAccept(q)
      PROVE  Ended(d)' = Ended(d) /\ UNCHANGED totalTrips
  <2>1. accept[q].ride \in Rides /\ tripStatus[accept[q].ride] = None
    BY <1>0, <1>2 DEF CommitAccept, AcceptAt, AcceptTypeOK, Coupling, AcceptInv
  <2> QED
    BY <1>0, <1>2, <2>1, StoreAssumption DEF CommitAccept, Ended, StoreTypeOK, TripStatus
<1>3. ASSUME NEW e \in EndRequests, CommitEnd(e)
      PROVE  totalTrips'[d] = Cardinality(Ended(d)')
  <2> DEFINE r == end[e].ride
  <2>1. /\ tripStatus' = [tripStatus EXCEPT ![r] = "COMPLETED"]
        /\ totalTrips'[d] = IF d = rideDriver[r] THEN totalTrips[d] + 1 ELSE totalTrips[d]
        /\ UNCHANGED rideDriver
    BY <1>3 DEF CommitEnd
  <2>2. r \in Rides /\ r \notin Ended(d)
    BY <1>0, <1>3 DEF CommitEnd, EndAt, EndTypeOK, EndingOnce, Ended
  <2>3. CASE d = rideDriver[r]
    <3>1. Ended(d)' = Ended(d) \cup {r}
      BY <1>0, <2>1, <2>2, <2>3 DEF Ended, StoreTypeOK
    <3>2. Cardinality(Ended(d) \cup {r}) = Cardinality(Ended(d)) + 1
      BY <1>1, <2>2, FS_AddElement
    <3> QED
      BY <1>0, <2>1, <2>3, <3>1, <3>2
  <2>4. CASE d # rideDriver[r]
    <3>1. Ended(d)' = Ended(d)
      BY <1>0, <2>1, <2>4 DEF Ended, StoreTypeOK
    <3> QED
      BY <1>0, <2>1, <2>4, <3>1
  <2> QED
    BY <2>3, <2>4
<1>4. CASE UNCHANGED <<rideDriver, tripStatus, totalTrips>>
  <2>1. Ended(d)' = Ended(d)
    BY <1>4 DEF Ended
  <2> QED
    BY <1>0, <1>4, <2>1
<1> QED
  BY <1>0, <1>2, <1>3, <1>4, CommitsChangeTrips

\* It takes two overlapping requests to count a trip twice: where at most one request at a
\* time ends a trip, the counters are exact, whatever else races, fails or crashes.
THEOREM TripsEndOnceAlone ==
    ASSUME \A e, f \in EndRequests : e = f
    PROVE  Spec => []TripEndedOnce
<1>1. Init => EndingOnce /\ TripEndedOnce
  <2> SUFFICES ASSUME Init PROVE EndingOnce /\ TripEndedOnce
    OBVIOUS
  <2>1. \A d \in Drivers : Ended(d) = {}
    BY StoreAssumption DEF Init, StoreInit, Ended, TripStatus
  <2> QED
    BY <2>1, FS_EmptySet DEF Init, StoreInit, EndInit, IdleEnd, EndingOnce, EndAt, TripEndedOnce,
       Ended
<1>2. IInv /\ EndingOnce /\ [Next]_vars => EndingOnce'
  BY EndingOnceStep
<1>3. IInv /\ EndingOnce /\ TripEndedOnce /\ [Next]_vars => TripEndedOnce'
  BY TripEndedOnceStep
<1> QED
  BY <1>1, <1>2, <1>3, Invariance, PTL DEF Spec

-----------------------------------------------------------------------------
(* Redis and the rides, while no store fails *)

\* The task that is about to tell Redis CANCELLED knows that the ride is not open.
CancelsTrue == \A r \in Rides : At(r, "cancelKey") => ~Open(r)

\* No step opens a ride again: run_matching moves only a PENDING ride to MATCHING.
LEMMA NeverReopened ==
    ASSUME IInv, [Next]_vars, NEW r \in Rides, ~Open(r)
    PROVE  ~Open(r)'
<1>0. FreshRides /\ rideStatus \in [Rides -> RideStatus]
  BY DEF IInv, Coupling, TypeOK, StoreTypeOK
<1> USE DEF storeVars, dbVars, rowVars, redisVars, matchingVars
<1>1. ASSUME NEW x \in Rides, TaskActs(x) PROVE ~Open(r)'
  <2>1. CASE StartMatching(x)
    BY <1>0, <2>1 DEF StartMatching, FreshRides, Open
  <2>2. CASE CancelWrite(x)
    BY <1>0, <2>2 DEF CancelWrite, Open
  <2>3. CASE UNCHANGED rideStatus
    BY <2>3 DEF Open
  <2> QED
    BY <1>1, <2>1, <2>2, <2>3 DEF TaskActs, MatchingStep, PublishMatching, SearchRadius,
       SkipCandidate, ChooseCandidate, MakeOffer, PollDecided, PollTimeout, WithdrawOffer,
       RadiusExhausted, BetweenRadii, CancelRead, CancelKey
<1>2. ASSUME NEW q \in AcceptRequests, AcceptActs(q) PROVE ~Open(r)'
  <2>1. CASE CommitAccept(q)
    BY <1>0, <2>1 DEF CommitAccept, Open
  <2>2. CASE UNCHANGED rideStatus
    BY <2>2 DEF Open
  <2> QED
    BY <1>2, <2>1, <2>2 DEF AcceptActs, AcceptStep, TakeLock, ReadRide, WriteRideAndTrip,
       WriteDriver, SetDriverOnTrip, SetRideAssigned, ReleaseLock, RollbackAccept
<1>3. ASSUME NEW e \in EndRequests, EndActs(e) PROVE ~Open(r)'
  <2>1. CASE CommitEnd(e)
    BY <1>0, <2>1 DEF CommitEnd, Open
  <2>2. CASE UNCHANGED rideStatus
    BY <2>2 DEF Open
  <2> QED
    BY <1>3, <2>1, <2>2 DEF EndActs, EndStep, LoadRide, CompleteTrip,
       CompleteRide, FreeDriver, SetDriverOnline, SetRideCompleted, RollbackEnd
<1>4. ASSUME NEW p \in PingRequests, PingActs(p) PROVE UNCHANGED rideStatus
  BY <1>4 DEF PingActs, PingStep, AddToGeo, CheckDriverKey, SeedDriverKey
<1>5. Request \/ Expire \/ Fault => UNCHANGED rideStatus
  BY DEF Request, ReceiveAccept, ReceiveEnd, ReceivePing, Expire, ExpireOffer,
     ExpireMatching, ExpireLock, Fault, Crash, TaskFails, AcceptFails, EndFails, PingFails
<1>6. CASE UNCHANGED rideStatus
  BY <1>6 DEF Open
<1> QED
  BY <1>1, <1>2, <1>3, <1>4, <1>5, <1>6 DEF Next, vars

\* A ride that has been assigned, completed or cancelled is never looked for again,
\* whatever writes its row by id without looking at it.
THEOREM RidesStayClosed == Spec => [][\A r \in Rides : ~Open(r) => ~Open(r)']_vars
<1>1. IInv /\ [Next]_vars => [\A r \in Rides : ~Open(r) => ~Open(r)']_vars
  BY NeverReopened
<1> QED
  BY <1>1, Invariance, PTL DEF Spec

\* The matching task tells Redis CANCELLED only of a ride it found closed or has closed.
LEMMA TaskKeepsRideKey ==
    ASSUME IInv, RideKeyTrue, CancelsTrue, NEW r \in Rides, TaskActs(r)
    PROVE  RideKeyTrue' /\ CancelsTrue'
<1> USE DEF storeVars, dbVars, rowVars, redisVars, matchingVars
<1>0. /\ task \in [Rides -> Task] /\ rideStatus \in [Rides -> RideStatus]
      /\ rideKey \in [Rides -> RideStatus \cup {None}]
      /\ \A x \in Rides : ~Open(x) => ~Open(x)'
  BY NeverReopened DEF IInv, TypeOK, StoreTypeOK, MatchingTypeOK, Next
<1>1. MatchingStep(r) /\ UNCHANGED accept
  BY DEF TaskActs
<1>2. RideKeyTrue'
  <2>1. \A x \in Rides : Decided(x)' => Decided(x) \/ ~Open(x)
    <3>1. CASE PublishMatching(r)
      BY <1>0, <3>1 DEF PublishMatching, Decided
    <3>2. CASE CancelKey(r)
      BY <1>0, <3>2 DEF CancelKey, Decided, CancelsTrue
    <3>3. CASE UNCHANGED rideKey
      BY <3>3 DEF Decided
    <3> QED
      BY <1>1, <3>1, <3>2, <3>3 DEF MatchingStep, StartMatching, SearchRadius,
         SkipCandidate, ChooseCandidate, MakeOffer, PollDecided, PollTimeout,
         WithdrawOffer, RadiusExhausted, BetweenRadii, CancelRead, CancelWrite
  <2> QED
    BY <1>0, <1>1, <2>1 DEF RideKeyTrue, Announced
<1>3. CancelsTrue'
  <2>1. CASE CancelRead(r)
    BY <1>0, <2>1 DEF CancelRead, CanTransition, RIDE_STATE_TRANSITIONS, CancelsTrue, At,
       GoTo, Open, Task, RideStatus
  <2>2. CASE CancelWrite(r)
    BY <1>0, <2>2 DEF CancelWrite, CancelsTrue, At, GoTo, Open, Task
  <2>3. CASE ~CancelRead(r) /\ ~CancelWrite(r)
    <3>1. \A x \in Rides : task'[x].pc = "cancelKey" => task[x].pc = "cancelKey"
      <4>1. CASE \E pc \in TaskPc \ {"cancelKey"} : GoTo(r, pc)
        BY <1>0, <4>1 DEF GoTo, Task
      <4>2. CASE SearchRadius(r) \/ MakeOffer(r)
        BY <1>0, <4>2 DEF SearchRadius, MakeOffer, Task
      <4>3. ASSUME NEW d \in Drivers, SkipCandidate(r, d) \/ ChooseCandidate(r, d)
            PROVE  \A x \in Rides : task'[x].pc = "cancelKey" => task[x].pc = "cancelKey"
        BY <1>0, <4>3 DEF SkipCandidate, ChooseCandidate, Task
      <4>4. CASE BetweenRadii(r)
        BY <1>0, <4>1, <4>4 DEF BetweenRadii, Task, TaskPc, TaskOver
      <4> QED
        BY <1>1, <2>3, <4>1, <4>2, <4>3, <4>4 DEF MatchingStep, StartMatching,
           PublishMatching, PollDecided, PollTimeout, WithdrawOffer, RadiusExhausted,
           CancelKey, TaskPc, TaskOver
    <3> QED
      BY <1>0, <3>1 DEF CancelsTrue, At
  <2> QED
    BY <2>1, <2>2, <2>3
<1> QED
  BY <1>2, <1>3

\* An accept that has announced the ride goes on to its commit, which closes it.
LEMMA AcceptKeepsRideKey ==
    ASSUME IInv, RideKeyTrue, CancelsTrue, NEW q \in AcceptRequests, AcceptActs(q)
    PROVE  RideKeyTrue' /\ CancelsTrue'
<1> USE DEF storeVars, dbVars, rowVars, redisVars, matchingVars
<1>0. /\ AcceptTypeOK /\ rideStatus \in [Rides -> RideStatus]
      /\ rideKey \in [Rides -> RideStatus \cup {None}]
      /\ \A x \in Rides : ~Open(x) => ~Open(x)'
  BY NeverReopened DEF IInv, TypeOK, StoreTypeOK, Next
<1>1. AcceptStep(q) /\ UNCHANGED task
  BY DEF AcceptActs
<1>2. CancelsTrue'
  BY <1>0, <1>1 DEF CancelsTrue, At
<1>3. \A p \in AcceptRequests \ {q} : accept'[p] = accept[p]
  BY <1>0, <1>1 DEF AcceptStep, TakeLock, ReadRide, WriteRideAndTrip, WriteDriver,
     SetDriverOnTrip, SetRideAssigned, ReleaseLock, CommitAccept, RollbackAccept,
     AcceptGoTo, AcceptReturns, AcceptTypeOK
<1>4. ASSUME NEW x \in Rides, Decided(x)', Open(x)'
      PROVE  \E p \in AcceptRequests : accept'[p].ride = x /\ accept'[p].pc \in {"release", "commit"}
  <2>1. CASE SetRideAssigned(q) /\ accept[q].ride = x
    BY <1>0, <2>1 DEF SetRideAssigned, AcceptGoTo, AcceptTypeOK, Accept
  <2>2. CASE ~(SetRideAssigned(q) /\ accept[q].ride = x)
    <3>1. Decided(x) /\ Open(x)
      BY <1>0, <1>1, <1>4, <2>2 DEF AcceptStep, TakeLock, ReadRide, WriteRideAndTrip,
         WriteDriver, SetDriverOnTrip, SetRideAssigned, ReleaseLock, CommitAccept,
         RollbackAccept, Decided
    <3>2. PICK p \in AcceptRequests : accept[p].ride = x /\ accept[p].pc \in {"release", "commit"}
      BY <3>1 DEF RideKeyTrue, Announced
    <3>3. CASE p # q
      BY <1>3, <3>2, <3>3
    <3>4. CASE p = q /\ ReleaseLock(q)
      BY <1>0, <3>2, <3>4 DEF ReleaseLock, AcceptAt, AcceptGoTo, AcceptTypeOK, Accept
    <3>5. ~CommitAccept(q) \/ p # q
      BY <1>0, <1>4, <3>2 DEF CommitAccept, Open
    <3> QED
      BY <1>1, <3>2, <3>3, <3>4, <3>5 DEF AcceptStep, TakeLock, ReadRide,
         WriteRideAndTrip, WriteDriver, SetDriverOnTrip, SetRideAssigned, RollbackAccept,
         AcceptAt
  <2> QED
    BY <2>1, <2>2
<1> QED
  BY <1>2, <1>4 DEF RideKeyTrue, Announced

\* Every step of a run without faults keeps what Redis says of rides true.
LEMMA RideKeyStep ==
    ASSUME Faults = FALSE, IInv, RideKeyTrue, CancelsTrue, [Next]_vars
    PROVE  RideKeyTrue' /\ CancelsTrue'
<1> USE DEF storeVars, dbVars, rowVars, redisVars, matchingVars
<1>0. /\ Coupling /\ AcceptTypeOK /\ EndTypeOK
      /\ rideKey \in [Rides -> RideStatus \cup {None}]
      /\ \A x \in Rides : ~Open(x) => ~Open(x)'
  BY NeverReopened DEF IInv, TypeOK, StoreTypeOK
<1>1. ASSUME NEW r \in Rides, TaskActs(r) PROVE RideKeyTrue' /\ CancelsTrue'
  BY <1>1, TaskKeepsRideKey
<1>2. ASSUME NEW q \in AcceptRequests, AcceptActs(q) PROVE RideKeyTrue' /\ CancelsTrue'
  BY <1>2, AcceptKeepsRideKey
<1>3. ASSUME UNCHANGED <<task, accept>>,
             \A x \in Rides : Decided(x)' => Decided(x) \/ ~Open(x)
      PROVE  RideKeyTrue' /\ CancelsTrue'
  BY <1>0, <1>3 DEF RideKeyTrue, Announced, CancelsTrue, At
<1>4. ASSUME NEW e \in EndRequests, EndActs(e) PROVE RideKeyTrue' /\ CancelsTrue'
  <2>1. CASE SetRideCompleted(e)
    <3>1. end[e].ride \in Rides /\ ~Open(end[e].ride)
      BY <1>0, <2>1 DEF SetRideCompleted, EndAt, EndTypeOK, Coupling, EndInv, TripMatchesRide
    <3> QED
      BY <1>0, <1>3, <1>4, <2>1, <3>1 DEF SetRideCompleted, EndActs, Decided
  <2>2. CASE UNCHANGED rideKey
    BY <1>3, <1>4, <2>2 DEF EndActs, Decided
  <2> QED
    BY <1>4, <2>1, <2>2 DEF EndActs, EndStep, LoadRide, CompleteTrip,
       CompleteRide, FreeDriver, SetDriverOnline, CommitEnd, RollbackEnd
<1>5. ASSUME NEW p \in PingRequests, PingActs(p) PROVE RideKeyTrue' /\ CancelsTrue'
  BY <1>3, <1>5 DEF PingActs, PingStep, AddToGeo, CheckDriverKey, SeedDriverKey, Decided
<1>6. CASE Request
  <2>1. CASE UNCHANGED accept
    BY <1>3, <1>6, <2>1 DEF Request, ReceiveEnd, ReceivePing, ReceiveAccept, Decided
  <2>2. ASSUME NEW q \in AcceptRequests, NEW r \in Rides, NEW d \in Drivers,
               ReceiveAccept(q, r, d)
        PROVE  RideKeyTrue' /\ CancelsTrue'
    <3>1. \A p \in AcceptRequests : accept[p].pc # "idle" => accept'[p] = accept[p]
      BY <1>0, <2>2 DEF ReceiveAccept, AcceptAt, AcceptTypeOK
    <3>2. UNCHANGED <<storeVars, task>>
      BY <1>6, <2>2 DEF Request, ReceiveAccept, ReceiveEnd, ReceivePing
    <3>3. RideKeyTrue'
      BY <3>1, <3>2 DEF RideKeyTrue, Announced, Decided, Open
    <3> QED
      BY <3>2, <3>3 DEF CancelsTrue, At, Open
  <2> QED
    BY <1>6, <2>1, <2>2 DEF Request, ReceiveEnd, ReceivePing
<1>7. CASE Expire
  BY <1>0, <1>3, <1>7 DEF Expire, ExpireOffer, ExpireMatching, ExpireLock, Decided
<1>8. CASE UNCHANGED vars
  BY <1>3, <1>8 DEF vars, Decided
<1> QED
  BY <1>1, <1>2, <1>4, <1>5, <1>6, <1>7, <1>8 DEF Next, Fault

\* While no store fails, Redis announces an outcome of a ride only when the database
\* has closed the ride, or an accept is just about to commit it.
THEOREM OutcomesAreTrue ==
    ASSUME Faults = FALSE
    PROVE  Spec => []RideKeyTrue
<1>1. Init => RideKeyTrue /\ CancelsTrue
  BY DEF Init, StoreInit, MatchingInit, RideKeyTrue, Announced, CancelsTrue, Decided, At
<1>2. IInv /\ RideKeyTrue /\ CancelsTrue /\ [Next]_vars => RideKeyTrue' /\ CancelsTrue'
  BY RideKeyStep
<1> QED
  BY <1>1, <1>2, Invariance, PTL DEF Spec

-----------------------------------------------------------------------------
(* No ride is forgotten, while no store fails *)

\* The ride has its trip, or an accept is about to commit it.
Backed(r) == tripStatus[r] # None \/ Announced(r)

\* Tasks stop only at rides of which Redis knows an outcome, and an assignment that
\* Redis or a task has seen is backed.
TasksTrue ==
    \A r \in Rides :
        /\ task[r].pc \in TaskOver => Decided(r)
        /\ rideKey[r] = "DRIVER_ASSIGNED" \/ At(r, "matched") => Backed(r)

\* An accept that has announced the ride goes on to its commit, and trips are not deleted.
LEMMA BackedStays ==
    ASSUME Faults = FALSE, IInv, [Next]_vars, NEW r \in Rides, Backed(r)
    PROVE  Backed(r)'
<1> USE DEF storeVars, dbVars, rowVars, redisVars, matchingVars
<1>0. AcceptTypeOK /\ tripStatus \in [Rides -> TripStatus \cup {None}] /\ None \notin TripStatus
  BY StoreAssumption DEF IInv, TypeOK, StoreTypeOK
<1>1. CASE tripStatus[r] # None
  <2>1. tripStatus'[r] # None
    <3>1. ASSUME NEW q \in AcceptRequests, CommitAccept(q) PROVE tripStatus'[r] # None
      BY <1>0, <1>1, <3>1 DEF CommitAccept, TripStatus
    <3>2. ASSUME NEW e \in EndRequests, CommitEnd(e) PROVE tripStatus'[r] # None
      BY <1>0, <1>1, <3>2 DEF CommitEnd, TripStatus
    <3> QED
      BY <1>1, <3>1, <3>2, CommitsChangeTrips
  <2> QED
    BY <2>1 DEF Backed
<1>2. ASSUME NEW q \in AcceptRequests, accept[q].ride = r, accept[q].pc \in {"release", "commit"}
      PROVE  Backed(r)'
  <2>1. CASE accept'[q] = accept[q]
    BY <1>2, <2>1 DEF Backed, Announced
  <2>2. CASE AcceptActs(q)
    <3>1. CASE ReleaseLock(q)
      <4>1. accept'[q].ride = r /\ accept'[q].pc = "commit"
        BY <1>0, <1>2, <3>1 DEF ReleaseLock, AcceptAt, AcceptGoTo, AcceptTypeOK, Accept
      <4> QED
        BY <4>1 DEF Backed, Announced
    <3>2. CASE CommitAccept(q)
      <4>1. tripStatus'[r] # None
        BY <1>0, <1>2, <3>2 DEF CommitAccept, TripStatus
      <4> QED
        BY <4>1 DEF Backed
    <3> QED
      BY <1>2, <2>2, <3>1, <3>2 DEF AcceptActs, AcceptStep, TakeLock, ReadRide,
         WriteRideAndTrip, WriteDriver, SetDriverOnTrip, SetRideAssigned, RollbackAccept, AcceptAt
  <2>3. AcceptActs(q) \/ accept'[q] = accept[q]
    <3>1. ASSUME NEW p \in AcceptRequests, AcceptActs(p), p # q PROVE accept'[q] = accept[q]
      BY <1>0, <3>1 DEF AcceptActs, AcceptStep, TakeLock, ReadRide, WriteRideAndTrip,
         WriteDriver, SetDriverOnTrip, SetRideAssigned, ReleaseLock, CommitAccept,
         RollbackAccept, AcceptGoTo, AcceptReturns, AcceptTypeOK
    <3>2. Request => accept'[q] = accept[q]
      BY <1>0, <1>2 DEF Request, ReceiveAccept, ReceiveEnd, ReceivePing, AcceptAt, AcceptTypeOK
    <3> QED
      BY <3>1, <3>2 DEF Next, vars, TaskActs, EndActs, PingActs, Expire, Fault
  <2> QED
    BY <2>1, <2>2, <2>3
<1> QED
  BY <1>1, <1>2 DEF Backed, Announced

\* A task that has stopped leaves its ride's status in Redis alone, and so does
\* everybody else, but for writing an outcome; a task stops only at an outcome.
LEMMA TasksStep ==
    ASSUME Faults = FALSE, IInv, TasksTrue, [Next]_vars
    PROVE  TasksTrue'
<1> USE DEF storeVars, dbVars, rowVars, redisVars, matchingVars
<1>0. /\ AcceptTypeOK /\ EndTypeOK /\ task \in [Rides -> Task]
      /\ rideKey \in [Rides -> RideStatus \cup {None}]
      /\ None \notin RideStatus
      /\ \A r \in Rides : Backed(r) => Backed(r)'
  BY StoreAssumption, BackedStays DEF IInv, TypeOK, StoreTypeOK, MatchingTypeOK
<1>1. ASSUME UNCHANGED <<task, rideKey>> PROVE TasksTrue'
  BY <1>0, <1>1 DEF TasksTrue, Decided, At
<1>2. ASSUME NEW r \in Rides, TaskActs(r) PROVE TasksTrue'
  <2> SUFFICES ASSUME NEW x \in Rides
               PROVE  /\ task'[x].pc \in TaskOver => Decided(x)'
                      /\ rideKey'[x] = "DRIVER_ASSIGNED" \/ task'[x].pc = "matched" => Backed(x)'
    BY DEF TasksTrue, At
  <2>1. CASE x # r
    <3>1. task'[x] = task[x]
      BY <1>0, <1>2, <2>1 DEF TaskActs, MatchingStep, StartMatching, PublishMatching,
         SearchRadius, SkipCandidate, ChooseCandidate, MakeOffer, PollDecided, PollTimeout,
         WithdrawOffer, RadiusExhausted, BetweenRadii, CancelRead, CancelWrite, CancelKey, GoTo
    <3>2. rideKey'[x] = rideKey[x]
      BY <1>0, <1>2, <2>1 DEF TaskActs, MatchingStep, StartMatching, PublishMatching,
         SearchRadius, SkipCandidate, ChooseCandidate, MakeOffer, PollDecided, PollTimeout,
         WithdrawOffer, RadiusExhausted, BetweenRadii, CancelRead, CancelWrite, CancelKey
    <3> QED
      BY <1>0, <3>1, <3>2 DEF TasksTrue, Decided, At
  <2>2. CASE x = r
    <3>1. CASE PublishMatching(r)
      <4>1. task'[r].pc = "search" /\ rideKey'[r] = "MATCHING"
        BY <1>0, <3>1 DEF PublishMatching, GoTo, Task
      <4> QED
        BY <2>2, <4>1 DEF TaskOver
    <3>2. CASE CancelKey(r)
      <4>1. task'[r].pc = "cancelled" /\ rideKey'[r] = "CANCELLED"
        BY <1>0, <3>2 DEF CancelKey, GoTo, Task
      <4> QED
        BY <1>0, <2>2, <4>1 DEF Decided, RideStatus
    <3>3. CASE PollDecided(r)
      <4>1. /\ Decided(r) /\ UNCHANGED rideKey
            /\ task'[r].pc = IF rideKey[r] = "DRIVER_ASSIGNED" THEN "matched" ELSE "withdraw"
        BY <1>0, <3>3 DEF PollDecided, GoTo, Task
      <4> QED
        BY <1>0, <2>2, <4>1 DEF TasksTrue, Decided
    <3>4. CASE BetweenRadii(r)
      <4>1. /\ UNCHANGED rideKey /\ task'[r].pc # "matched"
            /\ task'[r].pc \in TaskOver => Decided(r)
        BY <1>0, <3>4 DEF BetweenRadii, GoTo, Task, TaskOver
      <4> QED
        BY <1>0, <2>2, <4>1 DEF TasksTrue, Decided
    <3>5. CASE ~(PublishMatching(r) \/ CancelKey(r) \/ PollDecided(r) \/ BetweenRadii(r))
      <4>1. UNCHANGED rideKey /\ task'[r].pc \notin TaskOver
        <5>1. ASSUME NEW d \in Drivers, SkipCandidate(r, d) \/ ChooseCandidate(r, d)
              PROVE  UNCHANGED rideKey /\ task'[r].pc \notin TaskOver
          BY <1>0, <5>1 DEF SkipCandidate, ChooseCandidate, At, Task, TaskOver
        <5>2. SearchRadius(r) \/ MakeOffer(r) =>
                  UNCHANGED rideKey /\ task'[r].pc \notin TaskOver
          BY <1>0 DEF SearchRadius, MakeOffer, Task, TaskOver
        <5>3. StartMatching(r) \/ PollTimeout(r) \/ WithdrawOffer(r) \/ RadiusExhausted(r) =>
                  UNCHANGED rideKey /\ task'[r].pc \notin TaskOver
          BY <1>0 DEF StartMatching, PollTimeout, WithdrawOffer, RadiusExhausted, GoTo, Task,
             TaskOver
        <5>4. CancelRead(r) \/ CancelWrite(r) =>
                  UNCHANGED rideKey /\ task'[r].pc \notin TaskOver
          BY <1>0 DEF CancelRead, CancelWrite, GoTo, Task, TaskOver
        <5> QED
          BY <1>2, <3>5, <5>1, <5>2, <5>3, <5>4 DEF TaskActs, MatchingStep
      <4> QED
        BY <1>0, <2>2, <4>1 DEF TasksTrue, TaskOver
    <3> QED
      BY <3>1, <3>2, <3>3, <3>4, <3>5
  <2> QED
    BY <2>1, <2>2
<1>3. ASSUME NEW q \in AcceptRequests, AcceptActs(q) PROVE TasksTrue'
  <2>1. CASE SetRideAssigned(q)
    <3>1. /\ accept'[q].ride = accept[q].ride /\ accept'[q].pc = "release"
          /\ accept[q].ride \in Rides
          /\ rideKey' = [rideKey EXCEPT ![accept[q].ride] = "DRIVER_ASSIGNED"]
      BY <1>0, <2>1 DEF SetRideAssigned, AcceptAt, AcceptGoTo, AcceptTypeOK, Accept
    <3>2. Backed(accept[q].ride)'
      BY <3>1 DEF Backed, Announced
    <3>3. UNCHANGED task
      BY <1>3 DEF AcceptActs
    <3> QED
      BY <1>0, <3>1, <3>2, <3>3 DEF TasksTrue, Decided, At, RideStatus
  <2>2. CASE ~SetRideAssigned(q)
    BY <1>1, <1>3, <2>2 DEF AcceptActs, AcceptStep, TakeLock, ReadRide, WriteRideAndTrip,
       WriteDriver, SetDriverOnTrip, ReleaseLock, CommitAccept, RollbackAccept
  <2> QED
    BY <2>1, <2>2
<1>4. ASSUME NEW e \in EndRequests, EndActs(e) PROVE TasksTrue'
  <2>1. CASE SetRideCompleted(e)
    BY <1>0, <1>4, <2>1 DEF SetRideCompleted, EndActs, TasksTrue, Decided, At, RideStatus
  <2>2. CASE ~SetRideCompleted(e)
    BY <1>1, <1>4, <2>2 DEF EndActs, EndStep, LoadRide, CompleteTrip,
       CompleteRide, FreeDriver, SetDriverOnline, CommitEnd, RollbackEnd
  <2> QED
    BY <2>1, <2>2
<1>5. ASSUME NEW p \in PingRequests, PingActs(p) PROVE TasksTrue'
  BY <1>1, <1>5 DEF PingActs, PingStep, AddToGeo, CheckDriverKey, SeedDriverKey
<1>6. CASE Request
  BY <1>1, <1>6 DEF Request, ReceiveAccept, ReceiveEnd, ReceivePing
<1>7. CASE Expire
  <2>1. UNCHANGED task /\ \A r \in Rides : rideKey'[r] # rideKey[r] => ~Decided(r) /\ rideKey'[r] = None
    BY <1>0, <1>7 DEF Expire, ExpireOffer, ExpireMatching, ExpireLock, Decided
  <2> QED
    BY <1>0, <2>1 DEF TasksTrue, Decided, At, RideStatus
<1>8. CASE UNCHANGED vars
  BY <1>1, <1>8 DEF vars
<1> QED
  BY <1>2, <1>3, <1>4, <1>5, <1>6, <1>7, <1>8 DEF Next, Fault

\* While no store fails, a ride that is open has a task that goes on searching, or an
\* accept that is about to commit it, and a task that saw a match leaves a ride with a
\* trip, or one that is about to get it: no ride is left to nobody.
THEOREM NoRideForgotten ==
    ASSUME Faults = FALSE
    PROVE  Spec => []NobodyForgotten
<1>1. Init => TasksTrue
  BY StoreAssumption DEF Init, StoreInit, MatchingInit, TasksTrue, TaskOver, At, RideStatus
<1>2. IInv /\ TasksTrue /\ [Next]_vars => TasksTrue'
  BY TasksStep
<1>3. TasksTrue /\ RideKeyTrue => NobodyForgotten
  BY DEF TasksTrue, RideKeyTrue, NobodyForgotten, Backed, Announced
<1> QED
  BY <1>1, <1>2, <1>3, OutcomesAreTrue, Invariance, PTL DEF Spec

-----------------------------------------------------------------------------
(* Redis and the drivers, while no store fails *)

KeyAgrees(d) == driverKey[d] \in {None, driverStatus[d]}

\* HolderTrue of module Dispatch, for one request that holds the row of d.
AcceptHolds(q, d) ==
    \/ AcceptAt(q, "driverKey")
    \/ accept[q].pc \in {"rideKey", "release", "commit"} /\ driverKey[d] = "ON_TRIP"

EndHolds(e, d) ==
    \/ EndAt(e, "driverKey")
    \/ end[e].pc \in {"rideKey", "commit"} /\ driverKey[d] = "ONLINE"

DriverTrue(d) ==
    /\ driverRow[d] = None => KeyAgrees(d)
    /\ \A q \in AcceptRequests : driverRow[d] = q => AcceptHolds(q, d)
    /\ \A e \in EndRequests : driverRow[d] = e => EndHolds(e, d)

LEMMA AgreementIsTrue ==
    ASSUME NEW d \in Drivers
    PROVE  (InAgreement(d) <=> DriverTrue(d)) /\ (InAgreement(d)' <=> DriverTrue(d)')
  BY DEF InAgreement, HolderTrue, Agree, DriverTrue, KeyAgrees, AcceptHolds, EndHolds,
     AcceptAt, EndAt

\* A step that leaves d and the requests that hold its row alone.
LEMMA DriverUntouched ==
    ASSUME IInv, NEW d \in Drivers, DriverTrue(d),
           driverKey'[d] = driverKey[d], driverStatus'[d] = driverStatus[d],
           driverRow'[d] = driverRow[d],
           \A q \in AcceptRequests : driverRow[d] = q => accept'[q] = accept[q],
           \A e \in EndRequests : driverRow[d] = e => end'[e] = end[e]
    PROVE  DriverTrue(d)'
  BY DEF DriverTrue, AcceptHolds, EndHolds, KeyAgrees, AcceptAt, EndAt

\* Once the status of a driver is in Redis and no location is about to write an old one,
\* it remains so: the key has no expiry, and a location seeds it only where it is missing.
LEMMA NoMoreFirstLocations ==
    ASSUME IInv, [Next]_vars, NEW d \in Drivers, driverKey[d] # None, ~FirstLocation(d)
    PROVE  driverKey'[d] # None /\ ~FirstLocation(d)'
<1> USE DEF storeVars, dbVars, rowVars, redisVars, matchingVars
<1>0. /\ driverKey \in [Drivers -> DriverStatus \cup {None}]
      /\ "ON_TRIP" # None /\ "ONLINE" # None /\ PingTypeOK
  BY RowFacts, StoreAssumption DEF DriverStatus, IInv, TypeOK
<1>1. driverKey'[d] # None
  <2>1. ASSUME NEW r \in Rides, TaskActs(r) PROVE UNCHANGED driverKey
    BY <2>1 DEF TaskActs, MatchingStep, StartMatching, PublishMatching, SearchRadius,
       SkipCandidate, ChooseCandidate, MakeOffer, PollDecided, PollTimeout, WithdrawOffer,
       RadiusExhausted, BetweenRadii, CancelRead, CancelWrite, CancelKey
  <2>2. ASSUME NEW q \in AcceptRequests, AcceptActs(q) PROVE driverKey'[d] # None
    BY <1>0, <2>2 DEF AcceptActs, AcceptStep, TakeLock, ReadRide, WriteRideAndTrip, WriteDriver,
       SetDriverOnTrip, SetRideAssigned, ReleaseLock, CommitAccept, RollbackAccept
  <2>3. ASSUME NEW e \in EndRequests, EndActs(e) PROVE driverKey'[d] # None
    BY <1>0, <2>3 DEF EndActs, EndStep, LoadRide, CompleteTrip, CompleteRide,
       FreeDriver, SetDriverOnline, SetRideCompleted, CommitEnd, RollbackEnd
  <2>4. ASSUME NEW p \in PingRequests, PingActs(p) PROVE driverKey'[d] # None
    BY <1>0, <2>4 DEF PingActs, PingStep, AddToGeo, CheckDriverKey, SeedDriverKey, FirstLocation
  <2>5. Request \/ Expire \/ Fault => UNCHANGED driverKey
    BY DEF Request, ReceiveAccept, ReceiveEnd, ReceivePing, Expire, ExpireOffer,
       ExpireMatching, ExpireLock, Fault, Crash, TaskFails, AcceptFails, EndFails, PingFails
  <2> QED
    BY <2>1, <2>2, <2>3, <2>4, <2>5 DEF Next, vars
<1>2. ASSUME NEW p \in PingRequests
      PROVE  ~(ping'[p].pc = "seed" /\ ping'[p].driver = d)
  <2>1. CASE UNCHANGED ping
    BY <2>1 DEF FirstLocation, PingAt
  <2>2. ASSUME NEW x \in PingRequests, PingActs(x)
        PROVE  ~(ping'[p].pc = "seed" /\ ping'[p].driver = d)
    BY <1>0, <2>2 DEF PingActs, PingStep, AddToGeo, CheckDriverKey, SeedDriverKey, PingAt,
       PingReturns, IdlePing, FirstLocation, PingTypeOK, Ping
  <2>3. ASSUME NEW x \in PingRequests, NEW y \in Drivers, ReceivePing(x, y)
        PROVE  ~(ping'[p].pc = "seed" /\ ping'[p].driver = d)
    BY <1>0, <2>3 DEF ReceivePing, PingAt, FirstLocation, PingTypeOK, Ping
  <2>4. ASSUME NEW x \in PingRequests, PingFails(x)
        PROVE  ~(ping'[p].pc = "seed" /\ ping'[p].driver = d)
    BY <1>0, <2>4 DEF PingFails, PingReturns, IdlePing, PingAt, FirstLocation, PingTypeOK, Ping
  <2>5. CASE Crash
    BY <2>5 DEF Crash, IdlePing
  <2> QED
    BY <2>1, <2>2, <2>3, <2>4, <2>5 DEF Next, vars, TaskActs, AcceptActs, EndActs, Request,
       Expire, Fault
<1> QED
  BY <1>1, <1>2 DEF FirstLocation, PingAt

\* accept_ride writes the driver's Redis status between locking the driver's row and
\* committing it.
LEMMA AcceptKeepsDriver ==
    ASSUME IInv, RowOwners, NEW d \in Drivers, DriverTrue(d),
           NEW q \in AcceptRequests, AcceptActs(q)
    PROVE  DriverTrue(d)'
<1> USE DEF storeVars, dbVars, rowVars, redisVars, matchingVars
<1>0. /\ AcceptStep(q) /\ UNCHANGED end
      /\ accept[q].pc # "idle" /\ accept[q].driver \in Drivers /\ AcceptRows(q)
      /\ q # None /\ \A e \in EndRequests : e # q
  BY RowFacts, StoreAssumption
  DEF AcceptActs, AcceptStep, TakeLock, ReadRide, WriteRideAndTrip,
     WriteDriver, SetDriverOnTrip, SetRideAssigned, ReleaseLock, CommitAccept,
     RollbackAccept, AcceptAt, AcceptTypeOK, RowOwners, Requests
<1>1. \A p \in AcceptRequests \ {q} : accept'[p] = accept[p]
  BY <1>0, RowFacts DEF AcceptStep, TakeLock, ReadRide, WriteRideAndTrip, WriteDriver,
     SetDriverOnTrip, SetRideAssigned, ReleaseLock, CommitAccept, RollbackAccept,
     AcceptGoTo, AcceptReturns, AcceptTypeOK
<1>2. ASSUME NEW pc \in AcceptPc, AcceptGoTo(q, pc)
      PROVE  accept'[q].pc = pc
  BY <1>2, RowFacts DEF AcceptGoTo, AcceptTypeOK, Accept
<1>3. CASE accept[q].driver = d /\ WriteDriver(q)
  <2>1. /\ driverRow[d] = None /\ driverRow'[d] = q /\ accept'[q].pc = "driverKey"
        /\ UNCHANGED <<driverKey, driverStatus>>
    BY <1>2, <1>3, RowFacts DEF WriteDriver, AcceptPc
  <2> QED
    BY <1>0, <2>1 DEF DriverTrue, AcceptHolds, AcceptAt, KeyAgrees
<1>4. CASE driverRow[d] = q
  <2>1. accept[q].driver = d /\ AcceptHolds(q, d)
    BY <1>0, <1>4 DEF AcceptRows, DriverTrue
  <2>2. CASE SetDriverOnTrip(q)
    <3>1. /\ driverRow'[d] = q /\ driverKey'[d] = "ON_TRIP" /\ accept'[q].pc = "rideKey"
      BY <1>2, <1>4, <2>1, <2>2, RowFacts DEF SetDriverOnTrip, AcceptPc
    <3> QED
      BY <1>0, <3>1 DEF DriverTrue, AcceptHolds
  <2>3. CASE SetRideAssigned(q) \/ ReleaseLock(q)
    <3>1. /\ accept[q].pc \in {"rideKey", "release"} /\ accept'[q].pc \in {"release", "commit"}
          /\ UNCHANGED <<driverRow, driverKey>>
      BY <1>2, <2>1, <2>3 DEF SetRideAssigned, ReleaseLock, AcceptAt, AcceptPc, AcceptHolds
    <3> QED
      BY <1>0, <1>4, <2>1, <3>1 DEF DriverTrue, AcceptHolds, AcceptAt
  <2>4. CASE CommitAccept(q)
    <3>1. /\ driverKey[d] = "ON_TRIP" /\ driverStatus'[d] = "ON_TRIP" /\ driverRow'[d] = None
          /\ UNCHANGED driverKey
      BY <1>4, <2>1, <2>4, RowFacts DEF CommitAccept, ReleaseRows, Unlock, AcceptAt, AcceptHolds
    <3>2. \A h \in Requests : driverRow'[d] # h
      BY <3>1, StoreAssumption
    <3> QED
      BY <3>1, <3>2 DEF DriverTrue, KeyAgrees, Requests
  <2> QED
    BY <1>0, <2>1, <2>2, <2>3, <2>4, <1>4 DEF AcceptStep, TakeLock, ReadRide, WriteRideAndTrip,
       WriteDriver, RollbackAccept, AcceptAt, AcceptHolds
<1>5. CASE driverRow[d] # q /\ ~(accept[q].driver = d /\ WriteDriver(q))
  <2>1. accept[q].pc \in AcceptHolding => accept[q].driver # d
    BY <1>0, <1>5 DEF AcceptRows
  <2>2. driverRow'[d] = driverRow[d]
    <3>1. CASE CommitAccept(q) \/ RollbackAccept(q)
      BY <1>5, <3>1, RowFacts, UnlockOther DEF CommitAccept, RollbackAccept, ReleaseRows
    <3>2. CASE WriteDriver(q)
      BY <1>0, <1>5, <3>2, RowFacts DEF WriteDriver
    <3> QED
      BY <1>0, <3>1, <3>2 DEF AcceptStep, TakeLock, ReadRide, WriteRideAndTrip,
         SetDriverOnTrip, SetRideAssigned, ReleaseLock
  <2>3. driverKey'[d] = driverKey[d] /\ driverStatus'[d] = driverStatus[d]
    BY <1>0, <2>1, RowFacts DEF AcceptStep, TakeLock, ReadRide, WriteRideAndTrip, WriteDriver,
       SetDriverOnTrip, SetRideAssigned, ReleaseLock, CommitAccept, RollbackAccept, AcceptAt,
       AcceptHolding
  <2> QED
    BY <1>0, <1>1, <1>5, <2>2, <2>3, DriverUntouched
<1> QED
  BY <1>3, <1>4, <1>5

\* end_trip does the same: ONLINE is written while it holds the driver's row.
LEMMA EndKeepsDriver ==
    ASSUME IInv, RowOwners, NEW d \in Drivers, DriverTrue(d),
           NEW e \in EndRequests, EndActs(e)
    PROVE  DriverTrue(d)'
<1> DEFINE mine == rideDriver[end[e].ride]
<1> USE DEF storeVars, dbVars, rowVars, redisVars, matchingVars
<1>0. /\ EndStep(e) /\ UNCHANGED accept
      /\ end[e].pc # "idle" /\ mine \in Drivers /\ EndRows(e)
      /\ e # None /\ \A q \in AcceptRequests : e # q
  BY RowFacts, StoreAssumption
  DEF EndActs, EndStep, LoadRide, CompleteTrip, CompleteRide, FreeDriver,
     SetDriverOnline, SetRideCompleted, CommitEnd, RollbackEnd, EndAt, RowOwners, Requests
<1>1. \A x \in EndRequests \ {e} : end'[x] = end[x]
  BY <1>0, RowFacts DEF EndStep, LoadRide, CompleteTrip, CompleteRide, FreeDriver,
     SetDriverOnline, SetRideCompleted, CommitEnd, RollbackEnd, EndGoTo, EndReturns, EndTypeOK
<1>2. ASSUME NEW pc \in EndPc, EndGoTo(e, pc)
      PROVE  end'[e].pc = pc
  BY <1>2, RowFacts DEF EndGoTo, EndTypeOK, End
<1>3. CASE mine = d /\ FreeDriver(e)
  <2>1. /\ driverRow[d] = None /\ driverRow'[d] = e /\ end'[e].pc = "driverKey"
        /\ UNCHANGED <<driverKey, driverStatus>>
    BY <1>2, <1>3, RowFacts DEF FreeDriver, EndPc
  <2> QED
    BY <1>0, <2>1 DEF DriverTrue, EndHolds, EndAt, KeyAgrees
<1>4. CASE driverRow[d] = e
  <2>1. mine = d /\ EndHolds(e, d)
    BY <1>0, <1>4 DEF EndRows, DriverTrue
  <2>2. CASE SetDriverOnline(e)
    <3>1. /\ driverRow'[d] = e /\ driverKey'[d] = "ONLINE" /\ end'[e].pc = "rideKey"
      BY <1>2, <1>4, <2>1, <2>2, RowFacts DEF SetDriverOnline, EndPc
    <3> QED
      BY <1>0, <3>1 DEF DriverTrue, EndHolds
  <2>3. CASE SetRideCompleted(e)
    <3>1. /\ end[e].pc = "rideKey" /\ end'[e].pc = "commit"
          /\ UNCHANGED <<driverRow, driverKey>>
      BY <1>2, <2>3 DEF SetRideCompleted, EndAt, EndPc
    <3> QED
      BY <1>0, <1>4, <2>1, <3>1 DEF DriverTrue, EndHolds, EndAt
  <2>4. CASE CommitEnd(e)
    <3>1. /\ driverKey[d] = "ONLINE" /\ driverStatus'[d] = "ONLINE" /\ driverRow'[d] = None
          /\ UNCHANGED driverKey
      BY <1>4, <2>1, <2>4, RowFacts DEF CommitEnd, ReleaseRows, Unlock, EndAt, EndHolds
    <3>2. \A h \in Requests : driverRow'[d] # h
      BY <3>1, StoreAssumption
    <3> QED
      BY <3>1, <3>2 DEF DriverTrue, KeyAgrees, Requests
  <2> QED
    BY <1>0, <2>1, <2>2, <2>3, <2>4, <1>4 DEF EndStep, LoadRide, CompleteTrip,
       CompleteRide, FreeDriver, RollbackEnd, EndAt, EndHolds
<1>5. CASE driverRow[d] # e /\ ~(mine = d /\ FreeDriver(e))
  <2>1. end[e].pc \in EndHolding => mine # d
    BY <1>0, <1>5 DEF EndRows
  <2>2. driverRow'[d] = driverRow[d]
    <3>1. CASE CommitEnd(e) \/ RollbackEnd(e)
      BY <1>5, <3>1, RowFacts, UnlockOther DEF CommitEnd, RollbackEnd, ReleaseRows
    <3>2. CASE FreeDriver(e)
      BY <1>0, <1>5, <3>2, RowFacts DEF FreeDriver
    <3> QED
      BY <1>0, <3>1, <3>2 DEF EndStep, LoadRide, CompleteTrip, CompleteRide,
         SetDriverOnline, SetRideCompleted
  <2>3. driverKey'[d] = driverKey[d] /\ driverStatus'[d] = driverStatus[d]
    BY <1>0, <2>1, RowFacts DEF EndStep, LoadRide, CompleteTrip, CompleteRide,
       FreeDriver, SetDriverOnline, SetRideCompleted, CommitEnd, RollbackEnd, EndAt, EndHolding
  <2> QED
    BY <1>0, <1>1, <1>5, <2>2, <2>3, DriverUntouched
<1> QED
  BY <1>3, <1>4, <1>5

\* Every step of a run without faults keeps the two stores together about a driver for
\* whom no first location is on its way.
LEMMA DriverStep ==
    ASSUME Faults = FALSE, IInv, RowOwners, [Next]_vars,
           NEW d \in Drivers, DriverTrue(d), ~FirstLocation(d)
    PROVE  DriverTrue(d)'
<1> USE DEF storeVars, dbVars, rowVars, redisVars, matchingVars
<1>1. CASE UNCHANGED <<driverRow, driverKey, driverStatus, accept, end>>
  BY <1>1, DriverUntouched
<1>2. ASSUME NEW r \in Rides, TaskActs(r) PROVE DriverTrue(d)'
  <2>1. UNCHANGED <<driverRow, driverKey, driverStatus, accept, end>>
    BY <1>2 DEF TaskActs, MatchingStep, StartMatching, PublishMatching, SearchRadius,
       SkipCandidate, ChooseCandidate, MakeOffer, PollDecided, PollTimeout, WithdrawOffer,
       RadiusExhausted, BetweenRadii, CancelRead, CancelWrite, CancelKey
  <2> QED
    BY <1>1, <2>1
<1>3. ASSUME NEW p \in PingRequests, PingActs(p) PROVE DriverTrue(d)'
  <2>1. driverKey'[d] = driverKey[d]
    BY <1>3, RowFacts DEF PingActs, PingStep, AddToGeo, CheckDriverKey, SeedDriverKey,
       FirstLocation
  <2>2. UNCHANGED <<driverRow, driverStatus, accept, end>>
    BY <1>3 DEF PingActs, PingStep, AddToGeo, CheckDriverKey, SeedDriverKey
  <2> QED
    BY <2>1, <2>2, DriverUntouched
<1>4. CASE Request
  <2>1. UNCHANGED storeVars
    BY <1>4 DEF Request, ReceiveAccept, ReceiveEnd, ReceivePing
  <2>2. \A q \in AcceptRequests : driverRow[d] = q => accept'[q] = accept[q]
    BY <1>4, RowFacts DEF Request, ReceiveAccept, ReceiveEnd, ReceivePing, AcceptAt,
       AcceptTypeOK, DriverTrue, AcceptHolds
  <2>3. \A e \in EndRequests : driverRow[d] = e => end'[e] = end[e]
    BY <1>4, RowFacts DEF Request, ReceiveAccept, ReceiveEnd, ReceivePing, EndAt,
       EndTypeOK, DriverTrue, EndHolds
  <2> QED
    BY <2>1, <2>2, <2>3, DriverUntouched
<1>5. CASE Expire
  BY <1>1, <1>5 DEF Expire, ExpireOffer, ExpireMatching, ExpireLock
<1>6. CASE UNCHANGED vars
  BY <1>1, <1>6 DEF vars
<1> QED
  BY <1>2, <1>3, <1>4, <1>5, <1>6, AcceptKeepsDriver, EndKeepsDriver DEF Next, Fault

\* While no store fails, Redis and the database agree about every driver whose row no
\* transaction holds, until a first location parts them; nothing else ever does.
THEOREM DriverKeysAreTrue ==
    ASSUME Faults = FALSE
    PROVE  Spec => DriverKeyAgrees
<1> DEFINE AllAgree == \A d \in Drivers : InAgreement(d)
           Kept == \A d \in Drivers : InAgreement(d) /\ ~FirstLocation(d) => InAgreement(d)'
<1>1. Init => AllAgree
  BY StoreAssumption DEF Init, StoreInit, InAgreement, HolderTrue, Agree, Requests
<1>2. IInv /\ RowOwners /\ [Next]_vars => [Kept]_vars
  BY DriverStep, AgreementIsTrue
<1>3. DriverKeyAgrees <=> (AllAgree /\ [][Kept]_vars)
  BY DEF DriverKeyAgrees
<1> HIDE DEF AllAgree, Kept
<1> QED
  BY <1>1, <1>2, <1>3, RowsAreOwned, Invariance, PTL DEF Spec

\* While no store fails: once Redis and the database agree about a driver who has a status
\* in Redis, and no location is about to write an older one, they do so for ever, with any
\* number of accepts, trip ends and locations at once.
THEOREM DriversStaySettled ==
    ASSUME Faults = FALSE
    PROVE  Spec => SettledStays
<1> DEFINE Kept == \A d \in Drivers : Settled(d) => Settled(d)'
<1>1. IInv /\ RowOwners /\ [Next]_vars => [Kept]_vars
  BY DriverStep, AgreementIsTrue, NoMoreFirstLocations DEF Settled
<1>2. SettledStays <=> [][Kept]_vars
  BY DEF SettledStays
<1> HIDE DEF Kept
<1> QED
  BY <1>1, <1>2, RowsAreOwned, Invariance, PTL DEF Spec

\* So a driver whose row is free, and on whom the two stores agree with no first location
\* under way, has the status of the database in Redis whenever the row is free again.
THEOREM SettledForEver ==
    ASSUME Faults = FALSE, NEW d \in Drivers
    PROVE  Spec => [](Settled(d) => [](driverRow[d] = None => Agree(d)))
<1> DEFINE S == Settled(d)
           Kept == driverRow[d] = None => Agree(d)
<1>1. IInv /\ RowOwners /\ S /\ [Next]_vars => S'
  BY DriverStep, AgreementIsTrue, NoMoreFirstLocations DEF Settled
<1>2. S => Kept
  BY DEF Settled, InAgreement
<1>3. Spec => [](S => []Kept)
  <2> HIDE DEF S, Kept
  <2> QED
    BY <1>1, <1>2, RowsAreOwned, Invariance, PTL DEF Spec
<1> QED
  BY <1>3

-----------------------------------------------------------------------------
(* Progress: what the liveness properties rest on besides fairness.  Handlers and tasks *)
(* only ever move on, each by a measure that cannot fall for ever, whatever the others, *)
(* the expiries and the faults do in between.                                           *)

\* How far a handler is from its return.
AcceptLeft ==
    [lock |-> 9, read |-> 8, ride |-> 7, driver |-> 6, driverKey |-> 5, rideKey |-> 4,
     release |-> 3, drop |-> 2, commit |-> 2, rollback |-> 1, idle |-> 0]
EndLeft ==
    [load |-> 8, trip |-> 7, ride |-> 6, driver |-> 5, driverKey |-> 4,
     rideKey |-> 3, commit |-> 2, rollback |-> 1, idle |-> 0]
PingLeft == [geo |-> 3, check |-> 2, seed |-> 1, idle |-> 0]

HandlersAdvance ==
    /\ \A q \in AcceptRequests : accept'[q] # accept[q] /\ ~AcceptAt(q, "idle") =>
           AcceptLeft[accept'[q].pc] < AcceptLeft[accept[q].pc]
    /\ \A e \in EndRequests : end'[e] # end[e] /\ ~EndAt(e, "idle") =>
           EndLeft[end'[e].pc] < EndLeft[end[e].pc]
    /\ \A p \in PingRequests : ping'[p] # ping[p] /\ ~PingAt(p, "idle") =>
           PingLeft[ping'[p].pc] < PingLeft[ping[p].pc]

\* The parts of run_matching in their order, and the parts of one radius in theirs.
Stage(pc) == CASE pc = "start" -> 0
               [] pc = "publish" -> 1
               [] pc \in {"search", "next", "offer", "poll", "withdraw", "between"} -> 2
               [] pc = "cancelRead" -> 3
               [] pc = "cancelWrite" -> 4
               [] pc = "cancelKey" -> 5
               [] pc \in TaskOver -> 6
Phase(pc) == CASE pc = "search" -> 0 [] pc = "between" -> 2 [] OTHER -> 1
OfferLeft(pc) == CASE pc = "offer" -> 3 [] pc = "poll" -> 2 [] pc = "withdraw" -> 1 [] OTHER -> 0

\* The task u comes after t: a later part, or the same with a larger radius, or in the same
\* radius with fewer candidates, or nearer to the end of one offer.
After(t, u) ==
    \/ Stage(t.pc) < Stage(u.pc)
    \/ /\ Stage(t.pc) = 2 /\ Stage(u.pc) = 2
       /\ \/ t.radius < u.radius
          \/ /\ t.radius = u.radius
             /\ \/ Phase(t.pc) < Phase(u.pc)
                \/ /\ Phase(t.pc) = 1 /\ Phase(u.pc) = 1
                   /\ \/ u.todo \subseteq t.todo /\ u.todo # t.todo
                      \/ u.todo = t.todo /\ OfferLeft(u.pc) < OfferLeft(t.pc)

TasksAdvance == \A r \in Rides : task'[r] # task[r] => After(task[r], task'[r])

\* The steps that are not those of a task or of its failure leave the tasks alone.
LEMMA TaskSteps ==
    ASSUME [Next]_vars, NEW r \in Rides, TypeOK, task'[r] # task[r]
    PROVE  MatchingStep(r) \/ TaskFails(r) \/ Crash
<1> USE DEF storeVars, dbVars, rowVars, redisVars, matchingVars
<1>1. ASSUME NEW x \in Rides, TaskActs(x) \/ TaskFails(x), x # r PROVE FALSE
  <2>1. task'[r] = task[r]
    <3>1. CASE TaskFails(x)
      BY <1>1, <3>1 DEF TaskFails, GoTo, TypeOK, MatchingTypeOK
    <3>2. CASE TaskActs(x)
      BY <1>1, <3>2 DEF TypeOK, MatchingTypeOK, TaskActs, MatchingStep, StartMatching,
         PublishMatching, SearchRadius, SkipCandidate, ChooseCandidate, MakeOffer, PollDecided,
         PollTimeout, WithdrawOffer, RadiusExhausted, BetweenRadii, CancelRead, CancelWrite,
         CancelKey, GoTo
    <3> QED
      BY <1>1, <3>1, <3>2
  <2> QED
    BY <2>1
<1>2. ~UNCHANGED task
  OBVIOUS
<1> QED
  BY <1>1, <1>2 DEF Next, vars, TaskActs, AcceptActs, EndActs, PingActs, Request, Expire, Fault

\* run_matching never comes back to where it was: no search goes on for ever over the
\* same drivers, and a radius is not searched twice.
THEOREM TasksMoveOn == Spec => [][TasksAdvance]_vars
<1>1. ASSUME TypeOK, [Next]_vars, NEW r \in Rides, task'[r] # task[r]
      PROVE  After(task[r], task'[r])
  <2>0. task \in [Rides -> Task]
    BY <1>1 DEF TypeOK, MatchingTypeOK
  <2>1. ASSUME NEW pc \in TaskPc, GoTo(r, pc)
        PROVE  task'[r] = [task[r] EXCEPT !.pc = pc]
    BY <2>0, <2>1 DEF GoTo
  <2>2. CASE StartMatching(r) \/ PublishMatching(r) \/ CancelKey(r)
    <3>1. \/ task[r].pc = "start" /\ task'[r].pc = "publish"
          \/ task[r].pc = "publish" /\ task'[r].pc = "search"
          \/ task[r].pc = "cancelKey" /\ task'[r].pc = "cancelled"
      BY <2>0, <2>2 DEF StartMatching, PublishMatching, CancelKey, At, GoTo, Task
    <3> QED
      BY <3>1 DEF After, Stage, TaskOver
  <2>3. CASE CancelRead(r) \/ CancelWrite(r)
    <3>1. \/ task[r].pc = "cancelRead" /\ task'[r].pc \in {"cancelWrite", "cancelKey"}
          \/ task[r].pc = "cancelWrite" /\ task'[r].pc = "cancelKey"
      BY <2>0, <2>3 DEF CancelRead, CancelWrite, At, GoTo, Task
    <3> QED
      BY <3>1 DEF After, Stage, TaskOver
  <2>4. CASE SearchRadius(r)
    <3>1. /\ task[r].pc = "search" /\ task'[r].pc = "next" /\ task'[r].radius = task[r].radius
      BY <2>0, <2>4 DEF SearchRadius, At, Task
    <3> QED
      BY <3>1 DEF After, Stage, Phase, TaskOver
  <2>5. ASSUME NEW d \in Drivers, SkipCandidate(r, d) \/ ChooseCandidate(r, d)
        PROVE  After(task[r], task'[r])
    <3>1. /\ task[r].pc = "next" /\ task'[r].pc \in {"next", "offer"}
          /\ task'[r].radius = task[r].radius
          /\ d \in task[r].todo /\ task'[r].todo = task[r].todo \ {d}
      BY <2>0, <2>5 DEF SkipCandidate, ChooseCandidate, At, Task
    <3> QED
      BY <3>1 DEF After, Stage, Phase, TaskOver
  <2>6. CASE MakeOffer(r) \/ WithdrawOffer(r) \/ PollTimeout(r)
    <3>1. /\ \/ task[r].pc = "offer" /\ task'[r].pc = "poll"
             \/ task[r].pc = "withdraw" /\ task'[r].pc = "next"
             \/ task[r].pc = "poll" /\ task'[r].pc = "withdraw"
          /\ task'[r].radius = task[r].radius /\ task'[r].todo = task[r].todo
      BY <2>0, <2>6 DEF MakeOffer, WithdrawOffer, PollTimeout, At, GoTo, Task
    <3> QED
      BY <3>1 DEF After, Stage, Phase, OfferLeft, TaskOver
  <2>7. CASE PollDecided(r)
    <3>1. /\ task[r].pc = "poll" /\ task'[r].pc \in {"matched", "withdraw"}
          /\ task'[r].radius = task[r].radius /\ task'[r].todo = task[r].todo
      BY <2>0, <2>7 DEF PollDecided, At, GoTo, Task
    <3> QED
      BY <3>1 DEF After, Stage, Phase, OfferLeft, TaskOver
  <2>8. CASE RadiusExhausted(r)
    <3>1. task[r].pc = "next" /\ task'[r].pc = "between" /\ task'[r].radius = task[r].radius
      BY <2>0, <2>8 DEF RadiusExhausted, At, GoTo, Task
    <3> QED
      BY <3>1 DEF After, Stage, Phase, TaskOver
  <2>9. CASE BetweenRadii(r)
    <3>1. /\ task[r].pc = "between" /\ task[r].radius \in Nat
          /\ \/ task'[r].pc \in {"decided", "cancelRead"}
             \/ task'[r].pc = "search" /\ task'[r].radius = task[r].radius + 1
      BY <2>0, <2>9, MatchingAssumption DEF BetweenRadii, At, GoTo, Task
    <3> QED
      BY <3>1 DEF After, Stage, TaskOver
  <2>10. CASE TaskFails(r) \/ Crash
    <3>1. /\ task[r].pc \in TaskPc \ TaskOver
          /\ \/ task'[r].pc = "dead"
             \/ task[r].pc \in {"cancelRead", "cancelWrite"} /\ task'[r].pc = "cancelKey"
      BY <1>1, <2>0, <2>10 DEF TaskFails, Crash, GoTo, Task
    <3> QED
      BY <3>1 DEF After, Stage, TaskPc, TaskOver
  <2> QED
    BY <1>1, <2>2, <2>3, <2>4, <2>5, <2>6, <2>7, <2>8, <2>9, <2>10, TaskSteps DEF MatchingStep
<1>2. TypeOK /\ [Next]_vars => [TasksAdvance]_vars
  BY <1>1 DEF TasksAdvance
<1> QED
  BY <1>2, TypeCorrect, PTL DEF Spec

\* Every handler moves towards its return: none has a loop, and an error, a crash or the
\* steps of others do not put it back.
THEOREM HandlersMoveOn == Spec => [][HandlersAdvance]_vars
<1> USE DEF storeVars, dbVars, rowVars, redisVars, matchingVars
<1>1. ASSUME TypeOK, [Next]_vars, NEW q \in AcceptRequests, accept'[q] # accept[q],
             accept[q].pc # "idle"
      PROVE  AcceptLeft[accept'[q].pc] < AcceptLeft[accept[q].pc]
  <2>0. accept \in [AcceptRequests -> Accept]
    BY <1>1 DEF TypeOK, AcceptTypeOK
  <2>1. AcceptStep(q) \/ AcceptFails(q) \/ Crash
    <3>1. ASSUME NEW x \in AcceptRequests, x # q, AcceptActs(x) \/ AcceptFails(x) PROVE FALSE
      BY <1>1, <2>0, <3>1 DEF AcceptActs, AcceptStep, TakeLock, ReadRide, WriteRideAndTrip,
         WriteDriver, SetDriverOnTrip, SetRideAssigned, ReleaseLock, CommitAccept,
         RollbackAccept, AcceptFails, AcceptGoTo, AcceptReturns
    <3>2. ~Request
      BY <1>1, <2>0 DEF Request, ReceiveAccept, AcceptAt
    <3> QED
      BY <1>1, <3>1, <3>2 DEF Next, vars, TaskActs, AcceptActs, EndActs, PingActs, Expire, Fault
  <2>2. accept[q].pc \in AcceptPc \ {"idle"}
    BY <1>1, <2>0 DEF Accept
  <2>3. ASSUME NEW pc \in AcceptPc, AcceptGoTo(q, pc) PROVE accept'[q].pc = pc
    BY <2>0, <2>3 DEF AcceptGoTo, Accept
  <2>4. CASE AcceptReturns(q) \/ Crash
    <3>1. accept'[q].pc = "idle"
      BY <2>0, <2>4 DEF AcceptReturns, Crash, IdleAccept
    <3> QED
      BY <2>2, <3>1 DEF AcceptLeft, AcceptPc
  <2>5. CASE ~AcceptReturns(q) /\ ~Crash
    <3>1. \/ accept[q].pc = "lock" /\ AcceptGoTo(q, "read")
          \/ accept[q].pc = "read" /\ AcceptGoTo(q, "ride")
          \/ accept[q].pc \in {"read", "ride", "driver", "driverKey", "rideKey"} /\ AcceptGoTo(q, "drop")
          \/ accept[q].pc = "ride" /\ AcceptGoTo(q, "driver")
          \/ accept[q].pc = "driver" /\ AcceptGoTo(q, "driverKey")
          \/ accept[q].pc = "driverKey" /\ AcceptGoTo(q, "rideKey")
          \/ accept[q].pc = "rideKey" /\ AcceptGoTo(q, "release")
          \/ accept[q].pc = "release" /\ AcceptGoTo(q, "commit")
          \/ accept[q].pc \in {"release", "drop", "commit"} /\ AcceptGoTo(q, "rollback")
      BY <2>1, <2>5 DEF AcceptStep, TakeLock, ReadRide, WriteRideAndTrip, WriteDriver,
         SetDriverOnTrip, SetRideAssigned, ReleaseLock, CommitAccept, RollbackAccept,
         AcceptFails, AcceptAt
    <3> QED
      BY <2>3, <3>1 DEF AcceptLeft, AcceptPc
  <2> QED
    BY <2>4, <2>5
<1>2. ASSUME TypeOK, [Next]_vars, NEW e \in EndRequests, end'[e] # end[e], end[e].pc # "idle"
      PROVE  EndLeft[end'[e].pc] < EndLeft[end[e].pc]
  <2>0. end \in [EndRequests -> End]
    BY <1>2 DEF TypeOK, EndTypeOK
  <2>1. EndStep(e) \/ EndFails(e) \/ Crash
    <3>1. ASSUME NEW x \in EndRequests, x # e, EndActs(x) \/ EndFails(x) PROVE FALSE
      BY <1>2, <2>0, <3>1 DEF EndActs, EndStep, LoadRide, CompleteTrip,
         CompleteRide, FreeDriver, SetDriverOnline, SetRideCompleted, CommitEnd, RollbackEnd,
         EndFails, EndGoTo, EndReturns
    <3>2. ~Request
      BY <1>2, <2>0 DEF Request, ReceiveEnd, EndAt
    <3> QED
      BY <1>2, <3>1, <3>2 DEF Next, vars, TaskActs, AcceptActs, EndActs, PingActs, Expire, Fault
  <2>2. end[e].pc \in EndPc \ {"idle"}
    BY <1>2, <2>0 DEF End
  <2>3. ASSUME NEW pc \in EndPc, EndGoTo(e, pc) PROVE end'[e].pc = pc
    BY <2>0, <2>3 DEF EndGoTo, End
  <2>4. CASE EndReturns(e) \/ Crash
    <3>1. end'[e].pc = "idle"
      BY <2>0, <2>4 DEF EndReturns, Crash, IdleEnd
    <3> QED
      BY <2>2, <3>1 DEF EndLeft, EndPc
  <2>5. CASE LoadRide(e)
    <3>1. end[e].pc = "load" /\ end'[e].pc = "trip"
      BY <2>0, <2>5 DEF LoadRide, EndAt, End
    <3> QED
      BY <3>1 DEF EndLeft
  <2>6. CASE ~EndReturns(e) /\ ~Crash /\ ~LoadRide(e)
    <3>1. \/ end[e].pc = "trip" /\ EndGoTo(e, "ride")
          \/ end[e].pc \notin {"idle", "rollback"} /\ EndGoTo(e, "rollback")
          \/ end[e].pc = "ride" /\ (EndGoTo(e, "driver") \/ EndGoTo(e, "rideKey"))
          \/ end[e].pc = "driver" /\ EndGoTo(e, "driverKey")
          \/ end[e].pc = "driverKey" /\ EndGoTo(e, "rideKey")
          \/ end[e].pc = "rideKey" /\ EndGoTo(e, "commit")
      BY <2>1, <2>6 DEF EndStep, CompleteTrip, CompleteRide, FreeDriver,
         SetDriverOnline, SetRideCompleted, CommitEnd, RollbackEnd, EndFails, EndAt
    <3> QED
      BY <2>2, <2>3, <3>1 DEF EndLeft, EndPc
  <2> QED
    BY <2>4, <2>5, <2>6
<1>3. ASSUME TypeOK, [Next]_vars, NEW p \in PingRequests, ping'[p] # ping[p], ping[p].pc # "idle"
      PROVE  PingLeft[ping'[p].pc] < PingLeft[ping[p].pc]
  <2>0. ping \in [PingRequests -> Ping]
    BY <1>3 DEF TypeOK, PingTypeOK
  <2>1. PingStep(p) \/ PingFails(p) \/ Crash
    <3>1. ASSUME NEW x \in PingRequests, x # p, PingActs(x) \/ PingFails(x) PROVE FALSE
      BY <1>3, <2>0, <3>1 DEF PingActs, PingStep, AddToGeo, CheckDriverKey, SeedDriverKey,
         PingFails, PingReturns
    <3>2. ~Request
      BY <1>3, <2>0 DEF Request, ReceivePing, PingAt
    <3> QED
      BY <1>3, <3>1, <3>2 DEF Next, vars, TaskActs, AcceptActs, EndActs, PingActs, Expire, Fault
  <2>2. \/ ping'[p].pc = "idle"
        \/ ping[p].pc = "geo" /\ ping'[p].pc = "check"
        \/ ping[p].pc = "check" /\ ping'[p].pc = "seed"
    BY <2>0, <2>1 DEF PingStep, AddToGeo, CheckDriverKey, SeedDriverKey, PingFails, Crash,
       PingReturns, IdlePing, PingAt, Ping
  <2>3. ping[p].pc \in {"geo", "check", "seed"}
    BY <1>3, <2>0 DEF Ping
  <2> QED
    BY <2>2, <2>3 DEF PingLeft
<1>4. TypeOK /\ [Next]_vars => [HandlersAdvance]_vars
  BY <1>1, <1>2, <1>3 DEF HandlersAdvance, AcceptAt, EndAt, PingAt
<1> QED
  BY <1>4, TypeCorrect, PTL DEF Spec

-----------------------------------------------------------------------------
(* Refinement *)

\* Every step of the service is a step of Assignment, or leaves its variables alone.
LEMMA RefinementStep == IInv /\ [Next]_vars => [A!Next]_(A!assignmentVars)
<1> SUFFICES ASSUME IInv, [Next]_vars PROVE [A!Next]_(A!assignmentVars)
  OBVIOUS
<1>0. Coupling /\ StoreTypeOK /\ AcceptTypeOK /\ EndTypeOK
  BY DEF IInv, TypeOK
<1>1. ASSUME NEW q \in AcceptRequests, CommitAccept(q) PROVE A!Next
  <2> DEFINE r == accept[q].ride
             d == accept[q].driver
  <2>1. r \in Rides /\ d \in Drivers /\ tripStatus[r] = None
    BY <1>0, <1>1 DEF CommitAccept, AcceptAt, AcceptTypeOK, Coupling, AcceptInv
  <2>2. rideDriver[r] = None
    BY <1>0, <2>1 DEF Coupling, TripMatchesRide
  <2>3. A!Assign(r, d)
    BY <1>1, <2>1, <2>2 DEF CommitAccept, A!Assign
  <2> QED
    BY <2>1, <2>3 DEF A!Next
<1>2. ASSUME NEW e \in EndRequests, CommitEnd(e) PROVE [A!Next]_(A!assignmentVars)
  <2> DEFINE r == end[e].ride
  <2>1. r \in Rides /\ tripStatus[r] \in TripStatus
    BY <1>0, <1>2 DEF CommitEnd, EndAt, EndTypeOK, Coupling, EndInv, StoreTypeOK
  <2>2. CASE tripStatus[r] = "IN_PROGRESS"
    <3>1. A!Finish(r)
      BY <1>2, <2>2 DEF CommitEnd, A!Finish
    <3> QED
      BY <2>1, <3>1 DEF A!Next
  <2>3. CASE tripStatus[r] = "COMPLETED"
    <3>1. UNCHANGED <<rideDriver, tripStatus>>
      BY <1>0, <1>2, <2>1, <2>3 DEF CommitEnd, StoreTypeOK
    <3> QED
      BY <3>1 DEF A!assignmentVars
  <2> QED
    BY <2>1, <2>2, <2>3 DEF TripStatus
<1> QED
  BY <1>1, <1>2, CommitsChangeTrips DEF A!assignmentVars

\* The service implements module Assignment: whatever handlers and tasks race, a ride
\* is assigned once, to one driver, together with its trip, which completes once.
THEOREM Implements == Spec => ImplementsAssignment
<1>1. Init => A!Init
  BY DEF Init, StoreInit, A!Init
<1> QED
  BY <1>1, Invariance, RefinementStep, PTL DEF Spec, A!Spec, ImplementsAssignment
=============================================================================

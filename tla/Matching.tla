------------------------------ MODULE Matching -------------------------------
(***************************************************************************)
(* run_matching: the background task of one ride.  It searches one radius  *)
(* after another, offers the ride to one ONLINE driver at a time, polls    *)
(* the Redis ride status for an acceptance and cancels the ride when every *)
(* radius is exhausted.  A step ends at an await.                          *)
(*                                                                         *)
(* GEOSEARCH is external: as drivers move between two searches it may find *)
(* any of the drivers in the geo index, in any order.  Time is left out: a *)
(* poll may end before or after the acceptance it waits for, as it may in  *)
(* the code, which does not look at the status again after its last sleep. *)
(***************************************************************************)
EXTENDS RideStore

CONSTANTS
    Radii,          \* how many radii are searched: len(RADII_KM) = 3
    FlagsExpire     \* whether a search may last so long that a flag expires

ASSUME MatchingAssumption ==
    Radii \in Nat \ {0} /\ FlagsExpire \in BOOLEAN

VARIABLES
    task,       \* the background task of each ride
    offered     \* the drivers for whom offered:{ride_id}:{driver_id} was set

matchingVars == <<task, offered>>

\* "matched", "decided", "cancelled": run_matching has returned; "dead": it raised
TaskOver == {"matched", "decided", "cancelled", "dead"}
TaskPc == TaskOver \cup {"start", "publish", "search", "next", "offer", "poll", "withdraw",
                         "between", "cancelRead", "cancelWrite", "cancelKey"}
Task == [pc : TaskPc, radius : 1 .. Radii, todo : SUBSET Drivers,
         candidate : Drivers \cup {None}]

MatchingTypeOK ==
    /\ task \in [Rides -> Task]
    /\ \A r \in Rides : task[r].pc = "offer" => task[r].candidate \in Drivers
    /\ offered \in [Rides -> SUBSET Drivers]

MatchingInit ==
    /\ task = [r \in Rides |-> [pc |-> "start", radius |-> 1, todo |-> {},
                                candidate |-> None]]
    /\ offered = [r \in Rides |-> {}]

At(r, pc) == task[r].pc = pc
GoTo(r, pc) == task' = [task EXCEPT ![r].pc = pc]

\* PENDING -> MATCHING in the database.  No other handler touches a ride that has
\* never been offered, so check, update and commit are one step ...
StartMatching(r) ==
    /\ At(r, "start")
    /\ CanTransition(rideStatus[r], "MATCHING")
    /\ rideStatus' = [rideStatus EXCEPT ![r] = "MATCHING"]
    /\ GoTo(r, "publish")
    /\ UNCHANGED <<rideDriver, tripStatus, driverStatus, totalTrips, rowVars,
                   redisVars, offered>>

\* ... and Redis is told afterwards.
PublishMatching(r) ==
    /\ At(r, "publish")
    /\ rideKey' = [rideKey EXCEPT ![r] = "MATCHING"]
    /\ GoTo(r, "search")
    /\ UNCHANGED <<dbVars, rowVars, offerKey, driverKey, assignLock, geo, offered>>

\* GEOSEARCH; a search that raises counts as one that finds nobody.
SearchRadius(r) ==
    /\ At(r, "search")
    /\ \E found \in SUBSET geo :
           task' = [task EXCEPT ![r].todo = found, ![r].pc = "next"]
    /\ UNCHANGED <<storeVars, offered>>

\* A driver already offered this ride, or not ONLINE in Redis, is passed over.
SkipCandidate(r, d) ==
    /\ At(r, "next") /\ d \in task[r].todo
    /\ d \in offered[r] \/ driverKey[d] # "ONLINE"
    /\ task' = [task EXCEPT ![r].todo = @ \ {d}]
    /\ UNCHANGED <<storeVars, offered>>

\* The flag lives 600 s, and up to 30 candidates per radius are polled for 30 s
\* each: when there are many drivers it may be gone again.
ChooseCandidate(r, d) ==
    /\ At(r, "next") /\ d \in task[r].todo
    /\ d \notin offered[r] \/ FlagsExpire
    /\ driverKey[d] = "ONLINE"
    /\ task' = [task EXCEPT ![r].todo = @ \ {d}, ![r].candidate = d,
                            ![r].pc = "offer"]
    /\ UNCHANGED <<storeVars, offered>>

\* The flag and the offer are written after the reads: the driver's status may
\* have changed since.  (Only this task reads the flag.)
MakeOffer(r) ==
    /\ At(r, "offer")
    /\ offered' = [offered EXCEPT ![r] = @ \cup {task[r].candidate}]
    /\ offerKey' = [offerKey EXCEPT ![r] = task[r].candidate]
    /\ task' = [task EXCEPT ![r].pc = "poll", ![r].candidate = None]
    /\ UNCHANGED <<dbVars, rowVars, rideKey, driverKey, assignLock, geo>>

\* The poll sees an outcome: only DRIVER_ASSIGNED counts as accepted.
PollDecided(r) ==
    /\ At(r, "poll") /\ Decided(r)
    /\ GoTo(r, IF rideKey[r] = "DRIVER_ASSIGNED" THEN "matched" ELSE "withdraw")
    /\ UNCHANGED <<storeVars, offered>>

PollTimeout(r) ==
    /\ At(r, "poll")
    /\ GoTo(r, "withdraw")
    /\ UNCHANGED <<storeVars, offered>>

WithdrawOffer(r) ==
    /\ At(r, "withdraw")
    /\ offerKey' = [offerKey EXCEPT ![r] = None]
    /\ GoTo(r, "next")
    /\ UNCHANGED <<dbVars, rowVars, rideKey, driverKey, assignLock, geo, offered>>

RadiusExhausted(r) ==
    /\ At(r, "next") /\ task[r].todo = {}
    /\ GoTo(r, "between")
    /\ UNCHANGED <<storeVars, offered>>

\* The last radius is not noticed.
BetweenRadiiOneTooMany(r) ==
    /\ At(r, "between") /\ ~Decided(r)
    /\ IF task[r].radius <= Radii
       THEN task' = [task EXCEPT ![r].radius = @ + 1, ![r].pc = "search"]
       ELSE GoTo(r, "cancelRead")
    /\ UNCHANGED <<storeVars, offered>>

\* Returning after the last radius instead of cancelling.
BetweenRadiiGivesUp(r) ==
    /\ At(r, "between")
    /\ IF ~Decided(r) /\ task[r].radius < Radii
       THEN task' = [task EXCEPT ![r].radius = @ + 1, ![r].pc = "search"]
       ELSE GoTo(r, "decided")
    /\ UNCHANGED <<storeVars, offered>>

\* Return when Redis knows an outcome; otherwise sleep 5 s, then the next radius
\* or, after the last one, the cancellation: it does not look again.
BetweenRadii(r) ==
    /\ At(r, "between")
    /\ \/ Decided(r) /\ GoTo(r, "decided")
       \/ /\ ~Decided(r) /\ task[r].radius < Radii
          /\ task' = [task EXCEPT ![r].radius = @ + 1, ![r].pc = "search"]
       \/ ~Decided(r) /\ task[r].radius = Radii /\ GoTo(r, "cancelRead")
    /\ UNCHANGED <<storeVars, offered>>

\* Redis is told without the database.
SkipCancelWrite(r) ==
    /\ At(r, "cancelRead")
    /\ GoTo(r, "cancelKey")
    /\ UNCHANGED <<storeVars, offered>>

\* transition_status(ride_id, "CANCELLED"): the status is read and checked ...
CancelRead(r) ==
    /\ At(r, "cancelRead")
    /\ GoTo(r, IF CanTransition(rideStatus[r], "CANCELLED")
               THEN "cancelWrite" ELSE "cancelKey")
    /\ UNCHANGED <<storeVars, offered>>

\* ... and the row is then updated by id, whatever it holds by now.
CancelWrite(r) ==
    /\ At(r, "cancelWrite")
    /\ rideRow[r] = None
    /\ rideStatus' = [rideStatus EXCEPT ![r] = "CANCELLED"]
    /\ GoTo(r, "cancelKey")
    /\ UNCHANGED <<rideDriver, tripStatus, driverStatus, totalTrips, rowVars,
                   redisVars, offered>>

\* Redis is told CANCELLED even when the transition was refused.
CancelKey(r) ==
    /\ At(r, "cancelKey")
    /\ rideKey' = [rideKey EXCEPT ![r] = "CANCELLED"]
    /\ GoTo(r, "cancelled")
    /\ UNCHANGED <<dbVars, rowVars, offerKey, driverKey, assignLock, geo, offered>>

MatchingStep(r) ==
    \/ StartMatching(r) \/ PublishMatching(r) \/ SearchRadius(r)
    \/ \E d \in Drivers : SkipCandidate(r, d) \/ ChooseCandidate(r, d)
    \/ MakeOffer(r) \/ PollDecided(r) \/ PollTimeout(r) \/ WithdrawOffer(r)
    \/ RadiusExhausted(r) \/ BetweenRadii(r)
    \/ CancelRead(r) \/ CancelWrite(r) \/ CancelKey(r)

\* A Redis or database error ends the task; nothing restarts it.  An error
\* inside the cancelling transition is caught and Redis told CANCELLED anyway.
TaskFails(r) ==
    /\ task[r].pc \notin TaskOver
    /\ \/ GoTo(r, "dead")
       \/ task[r].pc \in {"cancelRead", "cancelWrite"} /\ GoTo(r, "cancelKey")
    /\ UNCHANGED <<storeVars, offered>>
=============================================================================

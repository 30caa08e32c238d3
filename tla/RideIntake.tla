----------------------------- MODULE RideIntake ------------------------------
(***************************************************************************)
(* create_ride: POST /v1/rides with an Idempotency-Key.  The key is looked *)
(* up first and the ride inserted later, in the same transaction; get_db   *)
(* commits when the handler has returned and only then does the response's *)
(* background task start the matching.  A step ends at an await.           *)
(*                                                                         *)
(* rides.idempotency_key is UNIQUE: an INSERT waits for an open            *)
(* transaction that has inserted the same key and fails if that commits.   *)
(***************************************************************************)
EXTENDS Naturals, FiniteSets

CONSTANTS
    Keys,               \* idempotency keys the clients send
    CreateRequests,     \* slots for concurrent POST /v1/rides
    MaxRides,           \* bound: ride ids handed out
    None

ASSUME IntakeAssumption ==
    /\ MaxRides \in Nat /\ IsFiniteSet(CreateRequests)
    /\ None \notin CreateRequests /\ None \notin Nat

RideIds == 1 .. MaxRides

VARIABLES
    rides,          \* committed rows: the set of [id, key]
    nextId,         \* the next uuid4()
    keyLock,        \* the request whose open transaction has inserted the key
    create,         \* what each request is doing
    background,     \* of each ride id: how its background task stands
    answers         \* of each key: the ids of the rides the clients were given

vars == <<rides, nextId, keyLock, create, background, answers>>

CreatePc == {"idle", "lookup", "estimate", "insert", "commit", "answer", "refused"}
Create == [pc : CreatePc, key : Keys \cup {None}, ride : RideIds \cup {None}, new : BOOLEAN]
IdleCreate == [pc |-> "idle", key |-> None, ride |-> None, new |-> FALSE]

TypeOK ==
    /\ rides \subseteq [id : RideIds, key : Keys]
    /\ nextId \in 1 .. MaxRides + 1
    /\ keyLock \in [Keys -> CreateRequests \cup {None}]
    /\ create \in [CreateRequests -> Create]
    /\ background \in [RideIds -> {"none", "queued", "started", "lost", "dropped"}]
    /\ answers \in [Keys -> SUBSET RideIds]

Init ==
    /\ rides = {} /\ nextId = 1
    /\ keyLock = [k \in Keys |-> None]
    /\ create = [q \in CreateRequests |-> IdleCreate]
    /\ background = [i \in RideIds |-> "none"]
    /\ answers = [k \in Keys |-> {}]

At(q, pc) == create[q].pc = pc
GoTo(q, pc) == create' = [create EXCEPT ![q].pc = pc]
Key(q) == create[q].key
HasRide(k) == \E row \in rides : row.key = k
RideOf(k) == CHOOSE i \in RideIds : [id |-> i, key |-> k] \in rides
Unlock(q) == keyLock' = [k \in Keys |-> IF keyLock[k] = q THEN None ELSE keyLock[k]]

ReceiveCreate(q, k) ==
    /\ At(q, "idle")
    /\ nextId + Cardinality({x \in CreateRequests : ~At(x, "idle")}) <= MaxRides
    /\ create' = [create EXCEPT ![q] = [IdleCreate EXCEPT !.pc = "lookup", !.key = k]]
    /\ UNCHANGED <<rides, nextId, keyLock, background, answers>>

\* The row that is looked up is not checked to exist.
LookUpUnchecked(q) ==
    /\ At(q, "lookup")
    /\ GoTo(q, "answer")
    /\ UNCHANGED <<rides, nextId, keyLock, background, answers>>

\* A committed ride of the key is the answer, with no matching started for it.
LookUpKey(q) ==
    /\ At(q, "lookup")
    /\ IF HasRide(Key(q))
       THEN create' = [create EXCEPT ![q].pc = "answer", ![q].ride = RideOf(Key(q))]
       ELSE GoTo(q, "estimate")
    /\ UNCHANGED <<rides, nextId, keyLock, background, answers>>

\* estimate_fare reads the surge of the zone from Redis: the key may be taken by now.
EstimateFare(q) ==
    /\ At(q, "estimate")
    /\ GoTo(q, "insert")
    /\ UNCHANGED <<rides, nextId, keyLock, background, answers>>

Insert(q) ==
    /\ create' = [create EXCEPT ![q].pc = "commit", ![q].ride = nextId, ![q].new = TRUE]
    /\ nextId' = nextId + 1
    /\ keyLock' = [keyLock EXCEPT ![Key(q)] = q]

\* A schema without the unique constraint.
InsertUnchecked(q) ==
    /\ At(q, "insert")
    /\ Insert(q)
    /\ UNCHANGED <<rides, background, answers>>

\* An insert that fails as soon as another one of the key is under way.
InsertImpatient(q) ==
    /\ At(q, "insert")
    /\ IF HasRide(Key(q)) \/ keyLock[Key(q)] # None
       THEN GoTo(q, "refused") /\ UNCHANGED <<nextId, keyLock>>
       ELSE Insert(q)
    /\ UNCHANGED <<rides, background, answers>>

\* The IntegrityError of a duplicate is not caught: 500, rolled back.
InsertRide(q) ==
    /\ At(q, "insert")
    /\ keyLock[Key(q)] = None
    /\ IF HasRide(Key(q))
       THEN GoTo(q, "refused") /\ UNCHANGED <<nextId, keyLock>>
       ELSE Insert(q)
    /\ UNCHANGED <<rides, background, answers>>

\* The response goes out while the transaction is still open.
AnswerBeforeCommit(q) ==
    /\ At(q, "commit")
    /\ GoTo(q, "answer")
    /\ UNCHANGED <<rides, nextId, keyLock, background, answers>>

\* The handler has returned its response, with the background task attached.
CommitRide(q) ==
    /\ At(q, "commit")
    /\ rides' = rides \cup {[id |-> create[q].ride, key |-> Key(q)]}
    /\ background' = [background EXCEPT ![create[q].ride] = "queued"]
    /\ Unlock(q)
    /\ GoTo(q, "answer")
    /\ UNCHANGED <<nextId, answers>>

Answer(q) ==
    /\ At(q, "answer")
    /\ answers' = [answers EXCEPT ![Key(q)] = @ \cup {create[q].ride}]
    /\ create' = [create EXCEPT ![q] = IdleCreate]
    /\ UNCHANGED <<rides, nextId, keyLock, background>>

Refuse(q) ==
    /\ At(q, "refused")
    /\ create' = [create EXCEPT ![q] = IdleCreate]
    /\ UNCHANGED <<rides, nextId, keyLock, background, answers>>

CreateStep(q) ==
    \/ LookUpKey(q) \/ EstimateFare(q) \/ InsertRide(q) \/ CommitRide(q)
    \/ Answer(q) \/ Refuse(q)

\* The task runs once the response that carries it has been sent.
Sent(i) == ~\E q \in CreateRequests : At(q, "answer") /\ create[q].new /\ create[q].ride = i

\* Only a request that is still open can start its task.
StartUnsent(i) ==
    /\ background[i] = "queued" /\ ~Sent(i)
    /\ background' = [background EXCEPT ![i] = "started"]
    /\ UNCHANGED <<rides, nextId, keyLock, create, answers>>

StartMatching(i) ==
    /\ background[i] = "queued" /\ Sent(i)
    /\ background' = [background EXCEPT ![i] = "started"]
    /\ UNCHANGED <<rides, nextId, keyLock, create, answers>>

\* A store fails before the commit, or PostgreSQL refuses it: rolled back, 500.
CreateFails(q) ==
    /\ create[q].pc \in {"lookup", "estimate", "insert", "commit"}
    /\ create' = [create EXCEPT ![q] = IdleCreate]
    /\ Unlock(q)
    /\ UNCHANGED <<rides, nextId, background, answers>>

\* PostgreSQL commits and the connection is lost before it says so: get_db raises, the
\* client is sent a 500, and the response is dropped with its background task.
CommitUnconfirmed(q) ==
    /\ At(q, "commit")
    /\ rides' = rides \cup {[id |-> create[q].ride, key |-> Key(q)]}
    /\ background' = [background EXCEPT ![create[q].ride] = "dropped"]
    /\ Unlock(q)
    /\ create' = [create EXCEPT ![q] = IdleCreate]
    /\ UNCHANGED <<nextId, answers>>

\* The server dies.  Nothing remembers the tasks that had not begun.
Crash ==
    /\ create' = [q \in CreateRequests |-> IdleCreate]
    /\ keyLock' = [k \in Keys |-> None]
    /\ background' = [i \in RideIds |-> IF background[i] = "queued" THEN "lost"
                                        ELSE background[i]]
    /\ UNCHANGED <<rides, nextId, answers>>

Next ==
    \/ \E q \in CreateRequests :
           \/ CreateStep(q) \/ CreateFails(q) \/ CommitUnconfirmed(q)
           \/ \E k \in Keys : ReceiveCreate(q, k)
    \/ \E i \in RideIds : StartMatching(i)
    \/ Crash

Spec == Init /\ [][Next]_vars

\* The event loop runs handlers and tasks; PostgreSQL queues the inserts of a key.
FairSpec ==
    /\ Spec
    /\ \A q \in CreateRequests : SF_vars(CreateStep(q))
    /\ \A i \in RideIds : WF_vars(StartMatching(i))

-----------------------------------------------------------------------------
\* All the clients that are answered for one key are given the same ride, however
\* their requests overlap, fail and are retried.  (create_ride)
SameAnswer == \A k \in Keys : Cardinality(answers[k]) <= 1

\* A ride that a client was told of is in the database, whatever crashes.  (get_db
\* commits before the response is sent)
AnswerIsStored ==
    \A k \in Keys : \A i \in answers[k] : [id |-> i, key |-> k] \in rides

\* A duplicate that loses the race is refused with 500 only when the ride of its key
\* exists: sending it once more gets that ride.  (IntegrityError in create)
RefusedHasRide == \A q \in CreateRequests : At(q, "refused") => HasRide(Key(q))

\* The matching of every committed ride starts, unless the server died in between or the
\* acknowledgement of the commit was lost.  (BackgroundTasks of create_ride, get_db)
EveryRideMatched ==
    \A i \in RideIds :
        (\E row \in rides : row.id = i) ~> background[i] \in {"started", "lost", "dropped"}

\* The committed rides and the answers implement the promise of IdempotentCreate.  The
\* look-up of the key is not what makes it true, the unique index of the insert is.
rideOf == [k \in Keys |-> IF HasRide(k) THEN RideOf(k) ELSE None]
C == INSTANCE IdempotentCreate WITH Ids <- RideIds, told <- answers
ImplementsCreate == C!Spec
=============================================================================

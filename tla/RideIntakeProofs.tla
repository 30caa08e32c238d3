--------------------------- MODULE RideIntakeProofs ---------------------------
(***************************************************************************)
(* Proofs about module RideIntake, for every set of keys and requests and  *)
(* every bound on the rides.                                               *)
(***************************************************************************)
EXTENDS RideIntake, FiniteSetTheorems, TLAPS

\* An id names one row, a key has one row, and no row has an id still to be handed out.
RowsUnique ==
    /\ \A x, y \in rides : x.id = y.id \/ x.key = y.key => x = y
    /\ \A x \in rides : x.id < nextId

\* A request that has inserted a row locks its key, and nobody else has its id.
Inserted(q) ==
    /\ create[q].ride \in RideIds /\ create[q].ride < nextId
    /\ keyLock[Key(q)] = q
    /\ \A x \in rides : x.key # Key(q) /\ x.id # create[q].ride

InsertsUnique ==
    /\ \A q \in CreateRequests : At(q, "commit") => Inserted(q)
    /\ \A p, q \in CreateRequests :
           At(p, "commit") /\ At(q, "commit") /\ create[p].ride = create[q].ride => p = q

\* A request under way has a key; one about to answer has the row of that key.
RequestsTrue ==
    \A q \in CreateRequests :
        /\ ~At(q, "idle") => Key(q) \in Keys
        /\ At(q, "answer") => /\ create[q].ride \in RideIds
                              /\ [id |-> create[q].ride, key |-> Key(q)] \in rides

\* The requests that may still insert have ids left for them.
ToInsert == {q \in CreateRequests : create[q].pc \in {"lookup", "estimate", "insert"}}
IdsLeft == nextId + Cardinality(ToInsert) <= MaxRides + 1

Coupling == RowsUnique /\ InsertsUnique /\ RequestsTrue /\ AnswerIsStored /\ RefusedHasRide

IInv == TypeOK /\ IdsLeft /\ Coupling

-----------------------------------------------------------------------------
\* Sets of requests are finite; one request more or less changes the number by one.
LEMMA RequestsCounted ==
    ASSUME NEW S \in SUBSET CreateRequests, NEW q \in CreateRequests
    PROVE  /\ IsFiniteSet(S) /\ Cardinality(S) \in Nat
           /\ q \in S => Cardinality(S) >= 1
           /\ q \in S => Cardinality(S \ {q}) = Cardinality(S) - 1
           /\ Cardinality(S \cup {q}) <= Cardinality(S) + 1
           /\ \A T \in SUBSET S : Cardinality(T) \in Nat /\ Cardinality(T) <= Cardinality(S)
<1>1. IsFiniteSet(S)
  BY IntakeAssumption, FS_Subset
<1>2. Cardinality(S) \in Nat
  BY <1>1, FS_CardinalityType
<1>3. q \in S => Cardinality(S \ {q}) = Cardinality(S) - 1 /\ Cardinality(S \ {q}) \in Nat
  BY <1>1, FS_RemoveElement, FS_Subset, FS_CardinalityType
<1>4. Cardinality(S \cup {q}) <= Cardinality(S) + 1
  BY <1>1, <1>2, FS_AddElement
<1>5. \A T \in SUBSET S : Cardinality(T) \in Nat /\ Cardinality(T) <= Cardinality(S)
  BY <1>1, FS_Subset, FS_CardinalityType
<1> QED
  BY <1>1, <1>2, <1>3, <1>4, <1>5

\* Ids are left while no request joins those that may insert.
LEMMA IdsStay ==
    ASSUME TypeOK, IdsLeft, nextId' = nextId, ToInsert' \subseteq ToInsert
    PROVE  IdsLeft'
<1>1. ToInsert \in SUBSET CreateRequests
  BY DEF ToInsert
<1>2. IsFiniteSet(ToInsert)
  BY <1>1, IntakeAssumption, FS_Subset
<1>3. /\ Cardinality(ToInsert') \in Nat /\ Cardinality(ToInsert) \in Nat
      /\ Cardinality(ToInsert') <= Cardinality(ToInsert)
  BY <1>2, FS_Subset, FS_CardinalityType
<1> QED
  BY <1>3, IntakeAssumption DEF IdsLeft, TypeOK

\* Unlocking keeps the locks of the others.
LEMMA UnlockKeeps ==
    ASSUME TypeOK, NEW q \in CreateRequests, Unlock(q)
    PROVE  /\ keyLock' \in [Keys -> CreateRequests \cup {None}]
           /\ \A k \in Keys : keyLock[k] # q => keyLock'[k] = keyLock[k]
  BY DEF Unlock, TypeOK

\* A request that reads, answers or is refused disturbs nothing, if it is right itself.
LEMMA RequestMoves ==
    ASSUME IInv, NEW q \in CreateRequests, UNCHANGED <<rides, nextId, keyLock>>,
           \A p \in CreateRequests \ {q} : create'[p] = create[p],
           create'[q].pc # "commit", create'[q].pc # "idle" => create'[q].key \in Keys,
           create'[q].pc = "answer" =>
               /\ create'[q].ride \in RideIds
               /\ [id |-> create'[q].ride, key |-> create'[q].key] \in rides,
           create'[q].pc = "refused" => HasRide(create'[q].key)
    PROVE  RowsUnique' /\ InsertsUnique' /\ RequestsTrue' /\ RefusedHasRide'
<1> USE DEF IInv, Coupling
<1>1. RowsUnique'
  BY DEF RowsUnique
<1>2. InsertsUnique'
  BY DEF InsertsUnique, Inserted, Key, At
<1>3. RequestsTrue'
  BY DEF RequestsTrue, Key, At
<1>4. RefusedHasRide'
  BY DEF RefusedHasRide, HasRide, Key, At
<1> QED
  BY <1>1, <1>2, <1>3, <1>4

\* At the start there is nothing.
LEMMA InitInv == Init => IInv
<1> SUFFICES ASSUME Init PROVE IInv
  OBVIOUS
<1>1. TypeOK /\ Coupling
  BY IntakeAssumption
  DEF Init, TypeOK, Coupling, RowsUnique, InsertsUnique, RequestsTrue, AnswerIsStored,
      RefusedHasRide, Create, CreatePc, IdleCreate, At, RideIds
<1>2. ToInsert = {}
  BY DEF Init, ToInsert, IdleCreate
<1>3. IdsLeft
  BY <1>2, FS_EmptySet, IntakeAssumption DEF Init, IdsLeft
<1> QED
  BY <1>1, <1>3 DEF IInv

\* A request that comes takes part of the ids that are left.
LEMMA ReceiveInv ==
    ASSUME IInv, NEW q \in CreateRequests, NEW k \in Keys, ReceiveCreate(q, k)
    PROVE  IInv'
<1> USE DEF IInv, ReceiveCreate
<1>1. TypeOK'
  BY DEF TypeOK, Create, CreatePc, IdleCreate
<1>2. IdsLeft'
  <2> DEFINE Active == {x \in CreateRequests : ~At(x, "idle")}
  <2>1. ToInsert' \in SUBSET (Active \cup {q}) /\ Active \cup {q} \in SUBSET CreateRequests
    BY DEF ToInsert, At, TypeOK, IdleCreate
  <2>2. /\ Cardinality(Active) \in Nat /\ Cardinality(Active \cup {q}) <= Cardinality(Active) + 1
        /\ Cardinality(Active \cup {q}) \in Nat
    BY RequestsCounted
  <2>3. Cardinality(ToInsert') \in Nat /\ Cardinality(ToInsert') <= Cardinality(Active \cup {q})
    BY <2>1, RequestsCounted
  <2>4. nextId + Cardinality(Active) <= MaxRides
    OBVIOUS
  <2> QED
    BY <2>2, <2>3, <2>4, IntakeAssumption DEF IdsLeft, TypeOK
<1>3. Coupling'
  BY DEF Coupling, RowsUnique, InsertsUnique, Inserted, RequestsTrue, AnswerIsStored,
         RefusedHasRide, HasRide, TypeOK, Key, At, IdleCreate
<1> QED
  BY <1>1, <1>2, <1>3

\* The ride of a key is its committed row.
LEMMA RideOfKey ==
    ASSUME TypeOK, NEW k \in Keys, HasRide(k)
    PROVE  RideOf(k) \in RideIds /\ [id |-> RideOf(k), key |-> k] \in rides
<1>1. PICK row \in rides : row.key = k
  BY DEF HasRide
<1>2. row.id \in RideIds /\ row = [id |-> row.id, key |-> k]
  BY <1>1 DEF TypeOK
<1> QED
  BY <1>1, <1>2 DEF RideOf

\* Looking the key up finds a committed row, or nothing.
LEMMA LookUpInv == ASSUME IInv, NEW q \in CreateRequests, LookUpKey(q) PROVE IInv'
<1> USE DEF IInv
<1>1. Key(q) \in Keys
  BY DEF LookUpKey, Coupling, RequestsTrue, At
<1>2. HasRide(Key(q)) => /\ RideOf(Key(q)) \in RideIds
                         /\ [id |-> RideOf(Key(q)), key |-> Key(q)] \in rides
  BY <1>1, RideOfKey
<1>3. TypeOK'
  BY <1>2 DEF LookUpKey, GoTo, TypeOK, Create, CreatePc
<1>4. IdsLeft'
  BY IdsStay DEF LookUpKey, GoTo, ToInsert, At, TypeOK
<1>5. /\ create'[q].key = Key(q) /\ create'[q].pc \in {"answer", "estimate"}
      /\ create'[q].pc = "answer" => HasRide(Key(q)) /\ create'[q].ride = RideOf(Key(q))
      /\ \A p \in CreateRequests \ {q} : create'[p] = create[p]
      /\ UNCHANGED <<rides, nextId, keyLock, answers>>
  <2>1. CASE HasRide(Key(q))
    BY <2>1 DEF LookUpKey, TypeOK, Create, Key
  <2>2. CASE ~HasRide(Key(q))
    BY <2>2 DEF LookUpKey, GoTo, TypeOK, Create, Key
  <2> QED
    BY <2>1, <2>2
<1>6. Coupling'
  BY <1>1, <1>2, <1>5, RequestMoves DEF Coupling, AnswerIsStored
<1> QED
  BY <1>3, <1>4, <1>6

\* The estimate reads no rows.
LEMMA EstimateInv == ASSUME IInv, NEW q \in CreateRequests, EstimateFare(q) PROVE IInv'
<1> USE DEF IInv, EstimateFare, GoTo
<1>1. TypeOK'
  BY DEF TypeOK, Create, CreatePc
<1>2. IdsLeft'
  BY IdsStay DEF ToInsert, At, TypeOK
<1>3. Coupling'
  BY DEF Coupling, RowsUnique, InsertsUnique, Inserted, RequestsTrue,
         AnswerIsStored, RefusedHasRide, HasRide, TypeOK, Key, At
<1> QED
  BY <1>1, <1>2, <1>3

\* An insert that succeeds has an id that nobody had, and the lock of its key.
LEMMA InsertInv == ASSUME IInv, NEW q \in CreateRequests, InsertRide(q) PROVE IInv'
<1> USE DEF IInv
<1>1. Key(q) \in Keys /\ q \in ToInsert
  BY DEF InsertRide, Coupling, RequestsTrue, At, ToInsert
<1>2. CASE HasRide(Key(q))
  <2> USE <1>2 DEF InsertRide, GoTo
  <2>1. TypeOK'
    BY DEF TypeOK, Create, CreatePc
  <2>2. IdsLeft'
    BY IdsStay DEF ToInsert, At, TypeOK
  <2>3. /\ create'[q].key = Key(q) /\ create'[q].pc = "refused"
        /\ \A p \in CreateRequests \ {q} : create'[p] = create[p]
    BY DEF TypeOK, Create, Key
  <2>4. Coupling'
    BY <1>1, <2>3, RequestMoves DEF Coupling, AnswerIsStored
  <2> QED
    BY <2>1, <2>2, <2>4
<1>3. CASE ~HasRide(Key(q))
  <2>1. Cardinality(ToInsert) \in Nat /\ Cardinality(ToInsert) >= 1
    BY <1>1, RequestsCounted DEF ToInsert
  <2>2. nextId \in RideIds /\ nextId + 1 \in 1 .. MaxRides + 1
    BY <2>1, IntakeAssumption DEF IdsLeft, TypeOK, RideIds
  <2>3. TypeOK'
    BY <1>1, <1>3, <2>2 DEF InsertRide, Insert, TypeOK, Create, CreatePc
  <2>4. IdsLeft'
    <3>1. ToInsert' = ToInsert \ {q}
      <4>1. create'[q].pc = "commit" /\ \A p \in CreateRequests \ {q} : create'[p] = create[p]
        BY <1>3 DEF InsertRide, Insert, TypeOK, Create
      <4> QED
        BY <4>1 DEF ToInsert
    <3>2. Cardinality(ToInsert \ {q}) = Cardinality(ToInsert) - 1
      BY <1>1, RequestsCounted DEF ToInsert
    <3> QED
      BY <1>3, <2>1, <3>1, <3>2, IntakeAssumption DEF InsertRide, Insert, IdsLeft, TypeOK
  <2>5. RowsUnique'
    BY <1>3 DEF InsertRide, Insert, Coupling, RowsUnique, TypeOK, RideIds
  <2>6. InsertsUnique'
    <3>1. /\ create' = [create EXCEPT ![q].pc = "commit", ![q].ride = nextId, ![q].new = TRUE]
          /\ nextId' = nextId + 1 /\ keyLock' = [keyLock EXCEPT ![Key(q)] = q]
          /\ keyLock[Key(q)] = None /\ rides' = rides /\ ~At(q, "commit")
      BY <1>3 DEF InsertRide, Insert, At
    <3>2. ASSUME NEW p \in CreateRequests, At(p, "commit")', p # q
          PROVE  /\ At(p, "commit") /\ create'[p] = create[p] /\ Inserted(p)
                 /\ create[p].ride < nextId /\ Key(p) # Key(q)
      <4>1. At(p, "commit") /\ create'[p] = create[p]
        BY <3>1, <3>2 DEF At, TypeOK
      <4>2. Inserted(p)
        BY <4>1 DEF Coupling, InsertsUnique
      <4> QED
        BY <3>1, <4>1, <4>2, IntakeAssumption DEF Inserted
    <3>3. ASSUME NEW p \in CreateRequests, At(p, "commit")', p # q PROVE Inserted(p)'
      <4>1. Key(p) \in Keys
        BY <3>2, <3>3 DEF Coupling, RequestsTrue, At
      <4> QED
        BY <3>1, <3>2, <3>3, <4>1 DEF Inserted, Key, TypeOK, RideIds
    <3>4. Inserted(q)'
      BY <1>1, <1>3, <2>2, <3>1 DEF Inserted, HasRide, Key, Coupling, RowsUnique, TypeOK, RideIds
    <3>5. \A p \in CreateRequests : At(p, "commit")' /\ p # q => create'[p].ride # create'[q].ride
      BY <3>1, <3>2 DEF TypeOK, RideIds, Inserted
    <3>6. \A p, x \in CreateRequests :
              At(p, "commit")' /\ At(x, "commit")' /\ create'[p].ride = create'[x].ride => p = x
      BY <3>2, <3>5 DEF Coupling, InsertsUnique
    <3> QED
      BY <3>3, <3>4, <3>6 DEF InsertsUnique
  <2>7. /\ create'[q].pc = "commit" /\ create'[q].key = Key(q)
        /\ \A p \in CreateRequests \ {q} : create'[p] = create[p]
        /\ rides' = rides /\ answers' = answers
    BY <1>3 DEF InsertRide, Insert, TypeOK, Create, Key
  <2>8. RequestsTrue' /\ AnswerIsStored' /\ RefusedHasRide'
    BY <1>1, <2>7 DEF Coupling, RequestsTrue, AnswerIsStored, RefusedHasRide, HasRide, Key, At
  <2> QED
    BY <2>3, <2>4, <2>5, <2>6, <2>7, <2>8 DEF Coupling
<1> QED
  BY <1>2, <1>3

\* The row that is committed is the only one of its key and of its id.
LEMMA CommitInv == ASSUME IInv, NEW q \in CreateRequests, CommitRide(q) PROVE IInv'
<1> USE DEF IInv
<1> DEFINE row == [id |-> create[q].ride, key |-> Key(q)]
<1>1. At(q, "commit") /\ Inserted(q) /\ Key(q) \in Keys
  BY DEF CommitRide, Coupling, InsertsUnique, RequestsTrue, At
<1>2. /\ rides' = rides \cup {row} /\ create' = [create EXCEPT ![q].pc = "answer"]
      /\ nextId' = nextId /\ answers' = answers
      /\ background' = [background EXCEPT ![create[q].ride] = "queued"]
  BY DEF CommitRide, GoTo
<1>3. /\ keyLock' \in [Keys -> CreateRequests \cup {None}]
      /\ \A k \in Keys : keyLock[k] # q => keyLock'[k] = keyLock[k]
  BY UnlockKeeps DEF CommitRide
<1>4. TypeOK'
  BY <1>1, <1>2, <1>3 DEF TypeOK, Create, CreatePc, Inserted
<1>5. IdsLeft'
  BY <1>2, IdsStay DEF ToInsert, TypeOK
<1>6. RowsUnique'
  BY <1>1, <1>2 DEF Coupling, RowsUnique, Inserted
<1>7. InsertsUnique'
  <2>1. ASSUME NEW p \in CreateRequests, At(p, "commit")'
        PROVE  p # q /\ At(p, "commit") /\ create'[p] = create[p]
    BY <1>2, <2>1 DEF At, TypeOK
  <2>2. ASSUME NEW p \in CreateRequests, At(p, "commit")' PROVE Inserted(p)'
    <3>1. Inserted(p) /\ Key(p) \in Keys /\ create[p].ride # create[q].ride
      BY <1>1, <2>1, <2>2 DEF Coupling, InsertsUnique, RequestsTrue, At
    <3>2. keyLock'[Key(p)] = p /\ Key(p) # Key(q)
      BY <1>1, <1>3, <2>1, <2>2, <3>1 DEF Inserted
    <3> QED
      BY <1>2, <2>1, <2>2, <3>1, <3>2 DEF Inserted, Key
  <2> QED
    BY <2>1, <2>2 DEF Coupling, InsertsUnique
<1>8. RequestsTrue'
  BY <1>1, <1>2 DEF Coupling, RequestsTrue, Inserted, Key, At, TypeOK
<1>9. AnswerIsStored' /\ RefusedHasRide'
  BY <1>2 DEF Coupling, AnswerIsStored, RefusedHasRide, HasRide, Key, At, TypeOK
<1> QED
  BY <1>4, <1>5, <1>6, <1>7, <1>8, <1>9 DEF Coupling

\* What a client is told is the row of its key.
LEMMA AnswerInv == ASSUME IInv, NEW q \in CreateRequests, Answer(q) \/ Refuse(q) PROVE IInv'
<1> USE DEF IInv, Answer, Refuse
<1>1. At(q, "answer") => create[q].ride \in RideIds /\ Key(q) \in Keys
                         /\ [id |-> create[q].ride, key |-> Key(q)] \in rides
  BY DEF Coupling, RequestsTrue, At
<1>2. TypeOK'
  <2>1. create' \in [CreateRequests -> Create]
    <3>1. IdleCreate \in Create
      BY DEF Create, CreatePc, IdleCreate
    <3> QED
      BY <3>1 DEF TypeOK
  <2>2. answers' \in [Keys -> SUBSET RideIds]
    <3>1. CASE answers' = answers
      BY <3>1 DEF TypeOK
    <3>2. CASE Answer(q)
      BY <1>1, <3>2 DEF TypeOK
    <3> QED
      BY <3>1, <3>2
  <2> QED
    BY <2>1, <2>2 DEF TypeOK
<1>3. IdsLeft'
  BY IdsStay DEF ToInsert, TypeOK, IdleCreate
<1>4. Coupling'
  BY <1>1 DEF Coupling, RowsUnique, InsertsUnique, Inserted, RequestsTrue, AnswerIsStored,
         RefusedHasRide, HasRide, TypeOK, Key, At, IdleCreate
<1> QED
  BY <1>2, <1>3, <1>4

\* A request that fails leaves no row, and the locks of the others.
LEMMA FailInv == ASSUME IInv, NEW q \in CreateRequests, CreateFails(q) PROVE IInv'
<1> USE DEF IInv
<1>1. /\ create' = [create EXCEPT ![q] = IdleCreate]
      /\ UNCHANGED <<rides, nextId, background, answers>>
  BY DEF CreateFails
<1>2. /\ keyLock' \in [Keys -> CreateRequests \cup {None}]
      /\ \A k \in Keys : keyLock[k] # q => keyLock'[k] = keyLock[k]
  BY UnlockKeeps DEF CreateFails
<1>3. TypeOK'
  BY <1>1, <1>2 DEF TypeOK, Create, CreatePc, IdleCreate
<1>4. IdsLeft'
  BY <1>1, IdsStay DEF ToInsert, TypeOK, IdleCreate
<1>5. InsertsUnique'
  <2>1. ASSUME NEW p \in CreateRequests, At(p, "commit")'
        PROVE  p # q /\ At(p, "commit") /\ create'[p] = create[p]
    BY <1>1, <2>1 DEF At, TypeOK, IdleCreate
  <2>2. ASSUME NEW p \in CreateRequests, At(p, "commit")' PROVE Inserted(p)'
    <3>1. Inserted(p) /\ Key(p) \in Keys
      BY <2>1, <2>2 DEF Coupling, InsertsUnique, RequestsTrue, At
    <3> QED
      BY <1>1, <1>2, <2>1, <2>2, <3>1 DEF Inserted, Key
  <2> QED
    BY <2>1, <2>2 DEF Coupling, InsertsUnique
<1>6. RowsUnique' /\ RequestsTrue' /\ AnswerIsStored' /\ RefusedHasRide'
  BY <1>1 DEF Coupling, RowsUnique, RequestsTrue, AnswerIsStored, RefusedHasRide, HasRide,
         Key, At, TypeOK, IdleCreate
<1> QED
  BY <1>3, <1>4, <1>5, <1>6 DEF Coupling

\* A commit whose acknowledgement is lost leaves a row that is the only one of its key and
\* of its id, and the locks of the others.
LEMMA UnconfirmedInv == ASSUME IInv, NEW q \in CreateRequests, CommitUnconfirmed(q) PROVE IInv'
<1> USE DEF IInv
<1> DEFINE row == [id |-> create[q].ride, key |-> Key(q)]
<1>1. At(q, "commit") /\ Inserted(q) /\ Key(q) \in Keys
  BY DEF CommitUnconfirmed, Coupling, InsertsUnique, RequestsTrue, At
<1>2. /\ rides' = rides \cup {row} /\ create' = [create EXCEPT ![q] = IdleCreate]
      /\ nextId' = nextId /\ answers' = answers
      /\ background' = [background EXCEPT ![create[q].ride] = "dropped"]
  BY DEF CommitUnconfirmed
<1>3. /\ keyLock' \in [Keys -> CreateRequests \cup {None}]
      /\ \A k \in Keys : keyLock[k] # q => keyLock'[k] = keyLock[k]
  BY UnlockKeeps DEF CommitUnconfirmed
<1>4. TypeOK'
  BY <1>1, <1>2, <1>3 DEF TypeOK, Create, CreatePc, IdleCreate, Inserted
<1>5. IdsLeft'
  BY <1>2, IdsStay DEF ToInsert, TypeOK, IdleCreate
<1>6. RowsUnique'
  BY <1>1, <1>2 DEF Coupling, RowsUnique, Inserted
<1>7. InsertsUnique'
  <2>1. ASSUME NEW p \in CreateRequests, At(p, "commit")'
        PROVE  p # q /\ At(p, "commit") /\ create'[p] = create[p]
    BY <1>2, <2>1 DEF At, TypeOK, IdleCreate
  <2>2. ASSUME NEW p \in CreateRequests, At(p, "commit")' PROVE Inserted(p)'
    <3>1. Inserted(p) /\ Key(p) \in Keys /\ create[p].ride # create[q].ride
      BY <1>1, <2>1, <2>2 DEF Coupling, InsertsUnique, RequestsTrue, At
    <3>2. keyLock'[Key(p)] = p /\ Key(p) # Key(q)
      BY <1>1, <1>3, <2>1, <2>2, <3>1 DEF Inserted
    <3> QED
      BY <1>2, <2>1, <2>2, <3>1, <3>2 DEF Inserted, Key
  <2> QED
    BY <2>1, <2>2 DEF Coupling, InsertsUnique
<1>8. RequestsTrue'
  BY <1>2 DEF Coupling, RequestsTrue, Key, At, TypeOK, IdleCreate
<1>9. AnswerIsStored' /\ RefusedHasRide'
  BY <1>2 DEF Coupling, AnswerIsStored, RefusedHasRide, HasRide, Key, At, TypeOK, IdleCreate
<1> QED
  BY <1>4, <1>5, <1>6, <1>7, <1>8, <1>9 DEF Coupling

\* A crash leaves the committed rows.
LEMMA CrashInv == IInv /\ Crash => IInv'
<1> SUFFICES ASSUME IInv, Crash PROVE IInv'
  OBVIOUS
<1> USE DEF IInv, Crash
<1>1. TypeOK'
  BY DEF TypeOK, Create, CreatePc, IdleCreate
<1>2. IdsLeft'
  BY IdsStay DEF ToInsert, TypeOK, IdleCreate
<1>3. Coupling'
  BY DEF Coupling, RowsUnique, InsertsUnique, RequestsTrue, AnswerIsStored, RefusedHasRide,
         HasRide, Key, At, IdleCreate
<1> QED
  BY <1>1, <1>2, <1>3

\* Steps that touch neither rows nor requests.
LEMMA OtherInv ==
    ASSUME IInv, (\E i \in RideIds : StartMatching(i)) \/ UNCHANGED vars
    PROVE  IInv'
<1> USE DEF IInv, StartMatching, vars
<1>1. TypeOK'
  BY DEF TypeOK
<1>2. IdsLeft'
  BY DEF IdsLeft, ToInsert
<1>3. Coupling'
  BY DEF Coupling, RowsUnique, InsertsUnique, Inserted, RequestsTrue, AnswerIsStored,
         RefusedHasRide, HasRide, Key, At
<1> QED
  BY <1>1, <1>2, <1>3

\* Every step keeps the invariant.
LEMMA NextInv == IInv /\ [Next]_vars => IInv'
  BY ReceiveInv, LookUpInv, EstimateInv, InsertInv, CommitInv, AnswerInv, FailInv, UnconfirmedInv,
     CrashInv, OtherInv
  DEF Next, CreateStep

\* The invariant holds in every reachable state.
THEOREM Invariance == Spec => []IInv
  BY InitInv, NextInv, PTL DEF Spec

\* The state is well typed: no request runs out of ride ids.
THEOREM TypeCorrect == Spec => []TypeOK
<1>1. IInv => TypeOK
  BY DEF IInv
<1> QED
  BY <1>1, Invariance, PTL

\* A client is told only of rides that are committed, whatever crashes.
THEOREM AnswersDurable == Spec => []AnswerIsStored
<1>1. IInv => AnswerIsStored
  BY DEF IInv, Coupling
<1> QED
  BY <1>1, Invariance, PTL

\* Who is refused can get the ride of its key.
THEOREM RefusalsHaveRide == Spec => []RefusedHasRide
<1>1. IInv => RefusedHasRide
  BY DEF IInv, Coupling
<1> QED
  BY <1>1, Invariance, PTL

\* All the clients of one key are given one ride.
THEOREM OneAnswer == Spec => []SameAnswer
<1>1. IInv => SameAnswer
  <2> SUFFICES ASSUME IInv, NEW k \in Keys PROVE Cardinality(answers[k]) <= 1
    BY DEF SameAnswer
  <2>1. \A i, j \in answers[k] : i = j
    BY DEF IInv, Coupling, AnswerIsStored, RowsUnique
  <2>2. CASE answers[k] = {}
    BY <2>2, FS_EmptySet
  <2>3. ASSUME NEW i \in answers[k] PROVE Cardinality(answers[k]) <= 1
    <3>1. answers[k] = {i}
      BY <2>1
    <3> QED
      BY <3>1, FS_Singleton
  <2> QED
    BY <2>2, <2>3
<1> QED
  BY <1>1, Invariance, PTL

-----------------------------------------------------------------------------
(* The matching of the committed rides: what EveryRideMatched rests on besides fairness *)

Stored(i) == \E row \in rides : row.id = i

\* No task is queued for a ride that is not committed, and that of a committed ride has been
\* queued, or dropped with the response.
TasksStored == \A i \in RideIds : background[i] # "none" <=> Stored(i)

\* A commit queues the task of its ride or, when its acknowledgement is lost, drops it; the
\* ride was not stored before.  Every other step leaves the rows alone and moves only tasks that are queued already.
LEMMA TaskMoves ==
    ASSUME IInv, TasksStored, [Next]_vars
    PROVE  \/ \E i \in RideIds :
                  /\ background[i] = "none" /\ ~Stored(i)
                  /\ \E task \in {"queued", "dropped"} :
                         background' = [background EXCEPT ![i] = task]
                  /\ \A j \in RideIds : Stored(j)' <=> Stored(j) \/ j = i
           \/ /\ UNCHANGED rides
              /\ \A i \in RideIds : \/ background'[i] = background[i]
                                    \/ background[i] = "queued" /\ background'[i] \in {"started", "lost"}
<1>0. background \in [RideIds -> {"none", "queued", "started", "lost", "dropped"}]
  BY DEF IInv, TypeOK
<1>1. ASSUME NEW q \in CreateRequests, CommitRide(q) \/ CommitUnconfirmed(q)
      PROVE  \E i \in RideIds :
                 /\ background[i] = "none" /\ ~Stored(i)
                 /\ \E task \in {"queued", "dropped"} :
                        background' = [background EXCEPT ![i] = task]
                 /\ \A j \in RideIds : Stored(j)' <=> Stored(j) \/ j = i
  <2>1. create[q].ride \in RideIds /\ ~Stored(create[q].ride)
    BY <1>1 DEF CommitRide, CommitUnconfirmed, IInv, Coupling, InsertsUnique, Inserted, Stored
  <2>2. background[create[q].ride] = "none"
    BY <2>1 DEF TasksStored
  <2>3. /\ \E task \in {"queued", "dropped"} :
               background' = [background EXCEPT ![create[q].ride] = task]
        /\ rides' = rides \cup {[id |-> create[q].ride, key |-> Key(q)]}
    BY <1>1 DEF CommitRide, CommitUnconfirmed
  <2>4. \A j \in RideIds : Stored(j)' <=> Stored(j) \/ j = create[q].ride
    <3> DEFINE new == [id |-> create[q].ride, key |-> Key(q)]
    <3>1. new.id = create[q].ride
      OBVIOUS
    <3>2. rides' = rides \cup {new}
      BY <2>3
    <3> HIDE DEF new
    <3> QED
      BY <3>1, <3>2 DEF Stored
  <2> QED
    BY <2>1, <2>2, <2>3, <2>4
<1>2. ASSUME NEW i \in RideIds, StartMatching(i)
      PROVE  /\ UNCHANGED rides
             /\ \A j \in RideIds : \/ background'[j] = background[j]
                                   \/ background[j] = "queued" /\ background'[j] \in {"started", "lost"}
  BY <1>0, <1>2 DEF StartMatching
<1>3. CASE Crash
  BY <1>0, <1>3 DEF Crash
<1>4. CASE UNCHANGED <<rides, background>>
  BY <1>4
<1> QED
  BY <1>1, <1>2, <1>3, <1>4 DEF Next, vars, CreateStep, LookUpKey, EstimateFare, InsertRide,
     Answer, Refuse, CreateFails, ReceiveCreate

\* A task is never queued, let alone started, for a ride that is not committed or whose
\* commit has failed, and no committed ride is without one: it has been queued, and then
\* started or lost with the server, or dropped because the commit's acknowledgement was
\* lost.  (create_ride, get_db)
THEOREM MatchingFollowsCommit == Spec => []TasksStored
<1>1. Init => TasksStored
  BY DEF Init, TasksStored, Stored
<1>2. IInv /\ TasksStored /\ [Next]_vars => TasksStored'
  BY TaskMoves DEF TasksStored, Stored, IInv, TypeOK
<1> QED
  BY <1>1, <1>2, Invariance, PTL DEF Spec

\* The matching of a ride is queued once at most, by its commit, and started once at most,
\* however often its key is sent again, and one that is dropped never starts: retries of the
\* key find the ride and do not match it.  Only a crash loses a task that is queued.
THEOREM MatchedOnce ==
    Spec => [][\A i \in RideIds :
                   \/ background'[i] = background[i]
                   \/ background[i] = "none" /\ background'[i] \in {"queued", "dropped"}
                   \/ background[i] = "queued" /\ background'[i] \in {"started", "lost"}]_vars
<1> DEFINE Moves == \A i \in RideIds :
                        \/ background'[i] = background[i]
                        \/ background[i] = "none" /\ background'[i] \in {"queued", "dropped"}
                        \/ background[i] = "queued" /\ background'[i] \in {"started", "lost"}
<1>1. IInv /\ TasksStored /\ [Next]_vars => [Moves]_vars
  BY TaskMoves DEF IInv, TypeOK
<1> HIDE DEF Moves
<1>2. Spec => [][Moves]_vars
  BY <1>1, Invariance, MatchingFollowsCommit, PTL DEF Spec
<1> QED
  BY <1>2 DEF Moves

-----------------------------------------------------------------------------
(* Who waits for a key: what a create's return rests on besides fairness *)

\* A key that is locked is locked by a request that has inserted it and is about to commit.
LocksHeld ==
    \A k \in Keys : keyLock[k] # None =>
        /\ keyLock[k] \in CreateRequests
        /\ At(keyLock[k], "commit") /\ Key(keyLock[k]) = k

\* How far a request is from its answer.
CreateLeft == [lookup |-> 5, estimate |-> 4, insert |-> 3, commit |-> 2, answer |-> 1,
               refused |-> 1, idle |-> 0]

Nearer(q) == CreateLeft[create'[q].pc] < CreateLeft[create[q].pc]

\* What a request does when no key changes hands.
Passes(q) ==
    /\ ~At(q, "commit") /\ create'[q].pc # "commit"
    /\ UNCHANGED keyLock

\* The steps of one request, by what they do to it and to the locks.
LEMMA CreateMoves ==
    ASSUME TypeOK, NEW q \in CreateRequests,
           CreateStep(q) \/ CreateFails(q) \/ CommitUnconfirmed(q)
    PROVE  /\ \A p \in CreateRequests \ {q} : create'[p] = create[p]
           /\ Nearer(q)
           /\ \/ Passes(q)
              \/ Unlock(q) /\ create'[q].pc # "commit"
              \/ /\ At(q, "insert") /\ create'[q].pc = "commit" /\ create'[q].key = Key(q)
                 /\ keyLock' = [keyLock EXCEPT ![Key(q)] = q]
<1>0. create \in [CreateRequests -> Create]
  BY DEF TypeOK
<1>1. CASE LookUpKey(q)
  <2>1. /\ At(q, "lookup") /\ create'[q].pc \in {"answer", "estimate"} /\ UNCHANGED keyLock
        /\ \A p \in CreateRequests \ {q} : create'[p] = create[p]
    BY <1>0, <1>1 DEF LookUpKey, GoTo, Create
  <2> QED
    BY <2>1 DEF Nearer, Passes, At, CreateLeft
<1>2. CASE EstimateFare(q)
  <2>1. /\ At(q, "estimate") /\ create'[q].pc = "insert" /\ UNCHANGED keyLock
        /\ \A p \in CreateRequests \ {q} : create'[p] = create[p]
    BY <1>0, <1>2 DEF EstimateFare, GoTo, Create
  <2> QED
    BY <2>1 DEF Nearer, Passes, At, CreateLeft
<1>3. CASE InsertRide(q) /\ HasRide(Key(q))
  <2>1. /\ At(q, "insert") /\ create'[q].pc = "refused" /\ UNCHANGED keyLock
        /\ \A p \in CreateRequests \ {q} : create'[p] = create[p]
    BY <1>0, <1>3 DEF InsertRide, GoTo, Create
  <2> QED
    BY <2>1 DEF Nearer, Passes, At, CreateLeft
<1>4. CASE InsertRide(q) /\ ~HasRide(Key(q))
  <2>1. /\ At(q, "insert") /\ create'[q].pc = "commit" /\ create'[q].key = Key(q)
        /\ keyLock' = [keyLock EXCEPT ![Key(q)] = q]
        /\ \A p \in CreateRequests \ {q} : create'[p] = create[p]
    BY <1>0, <1>4 DEF InsertRide, Insert, Key, Create
  <2> QED
    BY <2>1 DEF Nearer, At, CreateLeft
<1>5. CASE CommitRide(q)
  <2>1. /\ At(q, "commit") /\ create'[q].pc = "answer" /\ Unlock(q)
        /\ \A p \in CreateRequests \ {q} : create'[p] = create[p]
    BY <1>0, <1>5 DEF CommitRide, GoTo, Create
  <2> QED
    BY <2>1 DEF Nearer, At, CreateLeft
<1>6. CASE Answer(q) \/ Refuse(q)
  <2>1. /\ create[q].pc \in {"answer", "refused"} /\ create'[q] = IdleCreate /\ UNCHANGED keyLock
        /\ \A p \in CreateRequests \ {q} : create'[p] = create[p]
    BY <1>0, <1>6 DEF Answer, Refuse, At
  <2> QED
    BY <2>1 DEF Nearer, Passes, At, CreateLeft, IdleCreate
<1>7. CASE CreateFails(q) \/ CommitUnconfirmed(q)
  <2>1. /\ create[q].pc \in {"lookup", "estimate", "insert", "commit"} /\ create'[q] = IdleCreate
        /\ Unlock(q)
        /\ \A p \in CreateRequests \ {q} : create'[p] = create[p]
    BY <1>0, <1>7 DEF CreateFails, CommitUnconfirmed, At
  <2> QED
    BY <2>1 DEF Nearer, CreateLeft, IdleCreate
<1> QED
  BY <1>1, <1>2, <1>3, <1>4, <1>5, <1>6, <1>7 DEF CreateStep

\* A lock changes hands only with the step that makes it true or ends it.
LEMMA LocksStep == TypeOK /\ LocksHeld /\ [Next]_vars => LocksHeld'
<1> SUFFICES ASSUME TypeOK, LocksHeld, [Next]_vars, NEW k \in Keys, keyLock'[k] # None
             PROVE  /\ keyLock'[k] \in CreateRequests
                    /\ create'[keyLock'[k]].pc = "commit" /\ create'[keyLock'[k]].key = k
  BY DEF LocksHeld, At, Key
<1>0. keyLock \in [Keys -> CreateRequests \cup {None}] /\ create \in [CreateRequests -> Create]
  BY DEF TypeOK
<1>1. CASE UNCHANGED <<keyLock, create>>
  BY <1>1 DEF LocksHeld, At, Key
<1>2. ASSUME NEW q \in CreateRequests, CreateStep(q) \/ CreateFails(q) \/ CommitUnconfirmed(q)
      PROVE  /\ keyLock'[k] \in CreateRequests
             /\ create'[keyLock'[k]].pc = "commit" /\ create'[keyLock'[k]].key = k
  <2>1. \A p \in CreateRequests \ {q} : create'[p] = create[p]
    BY <1>2, CreateMoves
  <2>2. CASE Passes(q)
    BY <2>1, <2>2 DEF Passes, LocksHeld, At, Key
  <2>3. CASE Unlock(q)
    <3>1. keyLock'[k] = keyLock[k] /\ keyLock[k] # q
      BY <2>3 DEF Unlock
    <3> QED
      BY <2>1, <3>1 DEF LocksHeld, At, Key
  <2>4. CASE /\ At(q, "insert") /\ create'[q].pc = "commit" /\ create'[q].key = Key(q)
             /\ keyLock' = [keyLock EXCEPT ![Key(q)] = q]
    <3>1. CASE k = Key(q)
      BY <1>0, <2>4, <3>1
    <3>2. CASE k # Key(q)
      <4>1. keyLock'[k] = keyLock[k]
        BY <1>0, <2>4, <3>2
      <4>2. keyLock[k] # q
        BY <2>4, <4>1 DEF LocksHeld, At
      <4> QED
        BY <2>1, <4>1, <4>2 DEF LocksHeld, At, Key
    <3> QED
      BY <3>1, <3>2
  <2> QED
    BY <1>2, <2>2, <2>3, <2>4, CreateMoves
<1>3. ASSUME NEW q \in CreateRequests, NEW j \in Keys, ReceiveCreate(q, j)
      PROVE  /\ keyLock'[k] \in CreateRequests
             /\ create'[keyLock'[k]].pc = "commit" /\ create'[keyLock'[k]].key = k
  <2>1. /\ At(q, "idle") /\ UNCHANGED keyLock
        /\ \A p \in CreateRequests \ {q} : create'[p] = create[p]
    BY <1>0, <1>3 DEF ReceiveCreate
  <2> QED
    BY <2>1 DEF LocksHeld, At, Key
<1>4. ~Crash
  BY DEF Crash
<1> QED
  BY <1>1, <1>2, <1>3, <1>4 DEF Next, vars, StartMatching

\* Nobody waits for a key in vain: whoever holds one is about to commit or to fail, and
\* waits for nothing, whatever has failed or crashed before.  So two creates with one key
\* never block each other for good.  (create, get_db)
THEOREM KeysAreHeldToCommit == Spec => []LocksHeld
<1>1. Init => LocksHeld
  BY DEF Init, LocksHeld
<1>2. TypeOK /\ LocksHeld /\ [Next]_vars => LocksHeld'
  BY LocksStep
<1> QED
  BY <1>1, <1>2, TypeCorrect, PTL DEF Spec

\* Every step of a create brings its request nearer to its answer, and those of other
\* requests and of the tasks leave it where it is.
THEOREM CreatesMoveOn ==
    Spec => [][\A q \in CreateRequests :
                   At(q, "idle") \/ create'[q] = create[q] \/ Nearer(q)]_vars
<1> DEFINE MoveOn == \A q \in CreateRequests :
                         At(q, "idle") \/ create'[q] = create[q] \/ Nearer(q)
<1>1. TypeOK /\ [Next]_vars => [MoveOn]_vars
  <2> SUFFICES ASSUME TypeOK, Next, NEW q \in CreateRequests,
                      ~At(q, "idle"), create'[q] # create[q]
               PROVE  Nearer(q)
    OBVIOUS
  <2>0. create \in [CreateRequests -> Create]
    BY DEF TypeOK
  <2>1. ASSUME NEW p \in CreateRequests, NEW k \in Keys, ReceiveCreate(p, k)
        PROVE  FALSE
    BY <2>0, <2>1 DEF ReceiveCreate, At
  <2>2. ASSUME NEW p \in CreateRequests, CreateStep(p) \/ CreateFails(p) \/ CommitUnconfirmed(p)
        PROVE  Nearer(q)
    BY <2>2, CreateMoves
  <2>3. ASSUME NEW i \in RideIds, StartMatching(i) PROVE FALSE
    BY <2>3 DEF StartMatching
  <2>4. CASE Crash
    <3>1. create'[q] = IdleCreate /\ create[q].pc \in CreatePc \ {"idle"}
      BY <2>0, <2>4 DEF Crash, At, Create
    <3> QED
      BY <3>1 DEF Nearer, CreateLeft, IdleCreate, CreatePc
  <2> QED
    BY <2>1, <2>2, <2>3, <2>4 DEF Next
<1> QED
  BY <1>1, TypeCorrect, PTL DEF Spec

-----------------------------------------------------------------------------
(* The refinement of IdempotentCreate *)

\* While the rows stay, every key keeps its ride.
LEMMA RowsFixRides == rides' = rides => rideOf' = rideOf
  BY DEF rideOf, HasRide, RideOf

\* The row of a key that has one is its ride.
LEMMA RideOfRow ==
    ASSUME IInv, NEW i \in RideIds, NEW k \in Keys, [id |-> i, key |-> k] \in rides
    PROVE  rideOf[k] = i
<1>1. HasRide(k)
  BY DEF HasRide
<1>2. [id |-> RideOf(k), key |-> k] \in rides
  BY <1>1, RideOfKey DEF IInv
<1>3. RideOf(k) = i
  BY <1>2 DEF IInv, Coupling, RowsUnique
<1> QED
  BY <1>1, <1>3 DEF rideOf

\* A commit, acknowledged or not, gives the key a ride that no other key has.
LEMMA CommitCreates ==
    ASSUME IInv, IInv', NEW q \in CreateRequests, CommitRide(q) \/ CommitUnconfirmed(q)
    PROVE  C!Create(Key(q)) /\ Key(q) \in Keys
<1> DEFINE i == create[q].ride
<1>1. At(q, "commit") /\ Inserted(q) /\ Key(q) \in Keys /\ i \in RideIds
  BY DEF CommitRide, CommitUnconfirmed, IInv, Coupling, InsertsUnique, RequestsTrue, Inserted, At
<1>2. rides' = rides \cup {[id |-> i, key |-> Key(q)]} /\ answers' = answers
  BY DEF CommitRide, CommitUnconfirmed
<1>3. ~HasRide(Key(q)) /\ rideOf[Key(q)] = None
  BY <1>1 DEF Inserted, HasRide, rideOf
<1>4. ASSUME NEW k \in Keys PROVE rideOf[k] # i
  <2>1. CASE HasRide(k)
    <3>1. rideOf[k] = RideOf(k) /\ [id |-> RideOf(k), key |-> k] \in rides
      BY <2>1, RideOfKey DEF rideOf, IInv
    <3> QED
      BY <1>1, <3>1 DEF Inserted
  <2>2. CASE ~HasRide(k)
    BY <1>1, <2>2, IntakeAssumption DEF rideOf, RideIds
  <2> QED
    BY <2>1, <2>2
<1>5. rideOf' = [rideOf EXCEPT ![Key(q)] = i]
  <2>1. rideOf'[Key(q)] = i
    <3> SUFFICES ASSUME NEW k \in Keys, k = Key(q) PROVE rideOf'[k] = i
      BY <1>1
    <3>1. \A j \in RideIds : [id |-> j, key |-> k] \in rides' <=> j = i
      BY <1>1, <1>2 DEF Inserted
    <3>2. RideOf(k)' = i
      <4>1. (CHOOSE j \in RideIds : [id |-> j, key |-> k] \in rides') = i
        BY <1>1, <3>1
      <4> QED
        BY <4>1 DEF RideOf
    <3>3. HasRide(k)'
      <4>1. [id |-> i, key |-> k].key = k /\ [id |-> i, key |-> k] \in rides'
        BY <1>2
      <4> QED
        BY <4>1 DEF HasRide
    <3> QED
      BY <3>2, <3>3 DEF rideOf
  <2>2. ASSUME NEW k \in Keys, k # Key(q) PROVE rideOf'[k] = rideOf[k]
    <3>1. \A j \in RideIds : [id |-> j, key |-> k] \in rides' <=> [id |-> j, key |-> k] \in rides
      BY <1>2, <2>2
    <3>2. (\E row \in rides' : row.key = k) <=> (\E row \in rides : row.key = k)
      BY <1>2, <2>2
    <3>3. (CHOOSE j \in RideIds : [id |-> j, key |-> k] \in rides')
              = (CHOOSE j \in RideIds : [id |-> j, key |-> k] \in rides)
      BY <3>1
    <3>4. HasRide(k)' <=> HasRide(k)
      BY <3>2 DEF HasRide
    <3>5. RideOf(k)' = RideOf(k)
      BY <3>3 DEF RideOf
    <3> QED
      BY <3>4, <3>5 DEF rideOf
  <2> QED
    BY <1>1, <2>1, <2>2 DEF rideOf
<1>6. i \in RideIds /\ (\A x \in Keys : rideOf[x] # i)
  BY <1>1, <1>4
<1> QED
  BY <1>1, <1>2, <1>3, <1>5, <1>6 DEF C!Create

\* An answer tells the ride of the key.
LEMMA AnswerTells ==
    ASSUME IInv, NEW q \in CreateRequests, Answer(q)
    PROVE  C!Tell(Key(q)) /\ Key(q) \in Keys
<1> DEFINE i == create[q].ride
<1>1. i \in RideIds /\ Key(q) \in Keys /\ [id |-> i, key |-> Key(q)] \in rides
  BY DEF Answer, IInv, Coupling, RequestsTrue, At
<1>2. rideOf[Key(q)] = i /\ i # None
  BY <1>1, RideOfRow, IntakeAssumption DEF RideIds
<1>3. \A j \in answers[Key(q)] : j = i
  BY <1>1 DEF IInv, Coupling, AnswerIsStored, RowsUnique
<1>4. answers[Key(q)] \cup {i} = {i}
  BY <1>3
<1>5. answers' = [answers EXCEPT ![Key(q)] = {i}] /\ rides' = rides
  BY <1>4 DEF Answer
<1> QED
  BY <1>1, <1>2, <1>5, RowsFixRides DEF C!Tell

\* Every other step leaves rides and answers as they were.
LEMMA RefinementStep == IInv /\ IInv' /\ [Next]_vars => [C!Next]_(C!createVars)
<1> SUFFICES ASSUME IInv, IInv', [Next]_vars PROVE [C!Next]_(C!createVars)
  OBVIOUS
<1>1. ASSUME NEW q \in CreateRequests, CommitRide(q) \/ CommitUnconfirmed(q) PROVE C!Next
  BY <1>1, CommitCreates DEF C!Next
<1>2. ASSUME NEW q \in CreateRequests, Answer(q) PROVE C!Next
  BY <1>2, AnswerTells DEF C!Next
<1>3. \/ \E q \in CreateRequests : CommitRide(q) \/ CommitUnconfirmed(q) \/ Answer(q)
      \/ UNCHANGED <<rides, answers>>
  BY DEF Next, CreateStep, ReceiveCreate, LookUpKey, EstimateFare, InsertRide, Refuse, CreateFails,
         StartMatching, Crash, vars
<1> QED
  BY <1>1, <1>2, <1>3, RowsFixRides DEF C!createVars

\* create_ride implements module IdempotentCreate: one ride per key for ever, and the
\* same answer to everybody, whatever requests overlap, fail, or die with the server.
THEOREM Implements == Spec => ImplementsCreate
<1>1. Init => C!Init
  BY DEF Init, C!Init, rideOf, HasRide
<1> QED
  BY <1>1, Invariance, RefinementStep, PTL DEF Spec, C!Spec, ImplementsCreate
=============================================================================

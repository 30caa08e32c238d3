------------------------- MODULE ConnectionPoolProofs -------------------------
(***************************************************************************)
(* Proofs about module ConnectionPool, for every pool, number of clients   *)
(* and number of retries.                                                  *)
(***************************************************************************)
EXTENDS ConnectionPool, Integers, FiniteSetTheorems, TLAPS

\* A client holds rows only while it works, and no more than its session updates.
ClientTrue(c) ==
    /\ ~At(c, "idle") => client[c].kind \in Kinds
    /\ ~At(c, "work") => client[c].got = 0
    /\ client[c].got <= Len(PlanOf(c))

ClientsTrue == \A c \in Clients : ClientTrue(c)

IInv == TypeOK /\ IsFiniteSet(holders) /\ Accounted /\ ClientsTrue

\* The rows of every session are taken in the order trip, ride, driver.
LEMMA PlansOrdered ==
    ASSUME NEW kind, NEW s
    PROVE  Plan(kind, s) \in {<<>>, <<"ride">>, <<"ride", "driver">>, <<"trip", "ride", "driver">>}
  BY DEF Plan

\* A session of the middleware updates no rows.
LEMMA FirstPlansEmpty ==
    ASSUME NEW kind, kind # "match", NEW s, s # 2 PROVE Plan(kind, s) = <<>>
  BY DEF Plan

\* The length of a plan.
LEMMA PlansShort == ASSUME NEW kind, NEW s PROVE Len(Plan(kind, s)) \in 0 .. 3
<1>1. /\ Len(<<>>) = 0 /\ Len(<<"ride">>) = 1 /\ Len(<<"ride", "driver">>) = 2
      /\ Len(<<"trip", "ride", "driver">>) = 3
  OBVIOUS
<1> QED
  BY <1>1, PlansOrdered

\* At the start there is nothing.
LEMMA InitInv == Init => IInv
<1> SUFFICES ASSUME Init PROVE IInv
  OBVIOUS
<1>1. TypeOK
  BY PoolAssumption DEF Init, TypeOK, Client, IdleClient, ClientPc, Kinds
<1>2. IsFiniteSet(holders) /\ Accounted
  BY FS_EmptySet DEF Init, Accounted, At, IdleClient
<1>3. ClientsTrue
  BY PlansShort DEF Init, ClientsTrue, ClientTrue, At, PlanOf, IdleClient
<1> QED
  BY <1>1, <1>2, <1>3 DEF IInv

\* A client that goes on without a connection changing hands.
LEMMA GoesOn ==
    ASSUME IInv, NEW c \in Clients, NEW n \in Client, client' = [client EXCEPT ![c] = n],
           UNCHANGED <<open, free, holders>>, n.pc = "work" <=> At(c, "work"),
           ClientTrue(c)'
    PROVE  IInv'
<1> USE DEF IInv
<1>1. TypeOK' /\ IsFiniteSet(holders')
  BY DEF TypeOK
<1>2. Accounted'
  BY DEF Accounted, At, TypeOK
<1>3. ClientsTrue'
  BY DEF ClientsTrue, ClientTrue, At, PlanOf, TypeOK
<1> QED
  BY <1>1, <1>2, <1>3

\* The connection of a client comes back, and the client is done with its rows.
LEMMA GivesBack ==
    ASSUME IInv, NEW c \in Clients, At(c, "work"), NEW n \in Client, n.pc # "work",
           client' = [client EXCEPT ![c] = n], PutBack, holders' = holders \ {c},
           ClientTrue(c)'
    PROVE  IInv'
<1> USE PoolAssumption DEF IInv
<1>1. c \in holders /\ Cardinality(holders) \in Nat
  BY FS_CardinalityType DEF Accounted
<1>2. IsFiniteSet(holders') /\ Cardinality(holders') = Cardinality(holders) - 1
      /\ Cardinality(holders') \in Nat
  BY <1>1, FS_RemoveElement, FS_CardinalityType
<1>3. /\ open' \in 0 .. POOL_SIZE + MAX_OVERFLOW /\ free' \in 0 .. POOL_SIZE
      /\ open' = free' + Cardinality(holders')
  BY <1>1, <1>2 DEF PutBack, TypeOK, Accounted
<1>4. TypeOK'
  BY <1>3 DEF TypeOK
<1>5. Accounted'
  BY <1>3 DEF Accounted, At, TypeOK
<1>6. ClientsTrue'
  BY DEF ClientsTrue, ClientTrue, At, PlanOf, TypeOK
<1> QED
  BY <1>2, <1>4, <1>5, <1>6

\* The first query of a session takes a connection from the pool, or opens one.
LEMMA ConnectInv == ASSUME IInv, NEW c \in Clients, Connect(c) PROVE IInv'
<1> USE PoolAssumption DEF IInv
<1> DEFINE n == [client[c] EXCEPT !.pc = "work"]
<1>1. /\ client' = [client EXCEPT ![c] = n] /\ n \in Client /\ n.pc = "work"
      /\ n.kind = client[c].kind /\ n.got = client[c].got
      /\ n.session = client[c].session
  BY DEF Connect, TypeOK, Client, ClientPc
<1> HIDE DEF n
<1>2. At(c, "wait") /\ c \notin holders /\ Cardinality(holders) \in Nat
  BY FS_CardinalityType DEF Connect, Accounted, At
<1>3. IsFiniteSet(holders') /\ Cardinality(holders') = Cardinality(holders) + 1
  BY <1>2, FS_AddElement DEF Connect
<1>4. /\ open' \in 0 .. POOL_SIZE + MAX_OVERFLOW /\ free' \in 0 .. POOL_SIZE
      /\ open' = free' + Cardinality(holders')
  <2>1. CASE free > 0
    BY <1>2, <1>3, <2>1 DEF Connect, TypeOK, Accounted
  <2>2. CASE ~(free > 0)
    BY <1>2, <1>3, <2>2 DEF Connect, Exhausted, TypeOK, Accounted
  <2> QED
    BY <2>1, <2>2
<1>5. TypeOK'
  BY <1>1, <1>4 DEF Connect, TypeOK
<1>6. Accounted'
  BY <1>1, <1>4 DEF Connect, Accounted, At, TypeOK
<1>7. ClientsTrue'
  BY <1>1, <1>2 DEF ClientsTrue, ClientTrue, At, PlanOf, TypeOK
<1> QED
  BY <1>3, <1>5, <1>6, <1>7

\* Every step of a client is one of the above.
LEMMA StartInv == ASSUME IInv, NEW c \in Clients, NEW kind \in Kinds, Start(c, kind) PROVE IInv'
<1>1. PICK s \in 1 .. 2 :
          client' = [client EXCEPT ![c] = [IdleClient EXCEPT !.pc = "wait", !.kind = kind, !.session = s]]
  BY DEF Start
<1> DEFINE n == [IdleClient EXCEPT !.pc = "wait", !.kind = kind, !.session = s]
<1>2. /\ n \in Client /\ n.pc = "wait" /\ n.kind = kind /\ n.got = 0
  <2>1. IdleClient \in Client /\ IdleClient.got = 0
    BY PoolAssumption DEF IdleClient, Client, ClientPc
  <2>2. "wait" \in ClientPc
    BY DEF ClientPc
  <2> QED
    BY <2>1, <2>2 DEF Client
<1>3. client'[c] = n
  BY <1>1 DEF IInv, TypeOK
<1> HIDE DEF n
<1>4. ClientTrue(c)'
  BY <1>2, <1>3, PlansShort DEF ClientTrue, At, PlanOf
<1> QED
  BY <1>1, <1>2, <1>4, GoesOn DEF Start, At, n

\* What a working client does besides updating rows keeps the pool as it is.
LEMMA WorkInv == ASSUME IInv, NEW c \in Clients, UpdateRow(c) \/ CallPsp(c) PROVE IInv'
<1> USE DEF IInv
<1>1. At(c, "work") /\ client[c] \in Client /\ ClientTrue(c) /\ Len(PlanOf(c)) \in 0 .. 3
  BY PlansShort DEF UpdateRow, CallPsp, TypeOK, ClientsTrue, PlanOf
<1>2. CASE UpdateRow(c)
  <2> DEFINE n == [client[c] EXCEPT !.got = @ + 1]
  <2>1. client[c].got + 1 <= Len(PlanOf(c)) /\ client[c].got + 1 \in 0 .. 3
    <3>1. client[c].got \in 0 .. 3 /\ ~(client[c].got >= Len(PlanOf(c)))
      BY <1>1, <1>2 DEF UpdateRow, RowsDone, Client
    <3>2. PICK l \in 0 .. 3 : l = Len(PlanOf(c))
      BY <1>1
    <3>3. PICK g \in 0 .. 3 : g = client[c].got
      BY <3>1
    <3>4. g < l
      BY <3>1, <3>2, <3>3
    <3>5. g + 1 <= l /\ g + 1 \in 0 .. 3
      BY <3>4
    <3> QED
      BY <3>2, <3>3, <3>5
  <2>2. /\ n \in Client /\ n.pc = client[c].pc /\ n.kind = client[c].kind
        /\ n.session = client[c].session /\ n.got = client[c].got + 1
    BY <1>1, <2>1 DEF Client
  <2>3. client' = [client EXCEPT ![c] = n] /\ client'[c] = n
    BY <1>2 DEF UpdateRow, TypeOK
  <2> HIDE DEF n
  <2>4. ClientTrue(c)'
    BY <1>1, <2>1, <2>2, <2>3 DEF ClientTrue, At, PlanOf
  <2> QED
    BY <1>1, <1>2, <2>2, <2>3, <2>4, GoesOn DEF UpdateRow, At
<1>3. CASE CallPsp(c)
  <2> DEFINE n == [client[c] EXCEPT !.attempt = @ + 1]
  <2>1. client[c].attempt + 1 \in 0 .. MAX_RETRIES /\ client[c].session = 2
    BY <1>1, <1>3, PoolAssumption DEF CallPsp, Pays, Client
  <2>2. /\ n \in Client /\ n.pc = client[c].pc /\ n.kind = client[c].kind
        /\ n.session = client[c].session /\ n.got = client[c].got
    BY <1>1, <2>1 DEF Client
  <2>3. client' = [client EXCEPT ![c] = n] /\ client'[c] = n
    BY <1>3 DEF CallPsp, TypeOK
  <2> HIDE DEF n
  <2>4. ClientTrue(c)'
    BY <1>1, <2>1, <2>2, <2>3 DEF ClientTrue, At, PlanOf
  <2> QED
    BY <1>1, <1>3, <2>2, <2>3, <2>4, GoesOn DEF CallPsp, At
<1> QED
  BY <1>2, <1>3

\* An idle client is well typed and true.
LEMMA IdleTrue ==
    ASSUME NEW c \in Clients, client'[c] = IdleClient
    PROVE  IdleClient \in Client /\ IdleClient.pc = "idle" /\ ClientTrue(c)'
<1>1. IdleClient \in Client /\ IdleClient.pc = "idle" /\ IdleClient.got = 0
  BY PoolAssumption DEF IdleClient, Client, ClientPc, Kinds
<1> QED
  BY <1>1, PlansShort DEF ClientTrue, At, PlanOf

\* A session that ends, however it ends.
LEMMA EndInv == ASSUME IInv, NEW c \in Clients, Commit(c) \/ Fail(c) PROVE IInv'
<1> USE DEF IInv
<1>1. /\ At(c, "work") /\ PutBack /\ holders' = holders \ {c} /\ client[c] \in Client
      /\ ClientTrue(c)
  BY DEF Commit, Fail, TypeOK, ClientsTrue
<1>2. CASE client' = [client EXCEPT ![c] = IdleClient]
  <2>1. client'[c] = IdleClient
    BY <1>2 DEF TypeOK
  <2> QED
    BY <1>1, <1>2, <2>1, IdleTrue, GivesBack
<1>3. CASE /\ client[c].session = 1 /\ client[c].kind # "match"
           /\ client' = [client EXCEPT ![c].pc = "wait", ![c].session = 2]
  <2> DEFINE n == [client[c] EXCEPT !.pc = "wait", !.session = 2]
  <2>1. client[c].got = 0
    <3>1. Len(PlanOf(c)) = 0
      BY <1>3, FirstPlansEmpty DEF PlanOf
    <3> QED
      BY <1>1, <1>3, <3>1 DEF ClientTrue, Client
  <2>2. /\ n \in Client /\ n.pc = "wait" /\ n.kind = client[c].kind /\ n.got = 0
    <3>1. "wait" \in ClientPc /\ 2 \in 1 .. 2
      BY DEF ClientPc
    <3> QED
      BY <1>1, <2>1, <3>1 DEF Client
  <2>3. client' = [client EXCEPT ![c] = n] /\ client'[c] = n
    BY <1>3 DEF TypeOK
  <2> HIDE DEF n
  <2>4. ClientTrue(c)'
    BY <1>1, <2>2, <2>3, PlansShort DEF ClientTrue, At, PlanOf
  <2> QED
    BY <1>1, <2>2, <2>3, <2>4, GivesBack
<1>4. CASE /\ client[c].session = 1 /\ client[c].kind = "match"
           /\ client' = [client EXCEPT ![c].pc = "search", ![c].got = 0]
  <2> DEFINE n == [client[c] EXCEPT !.pc = "search", !.got = 0]
  <2>1. /\ n \in Client /\ n.pc = "search" /\ n.kind = "match" /\ n.got = 0
    <3>1. "search" \in ClientPc /\ 0 \in 0 .. 3
      BY DEF ClientPc
    <3> QED
      BY <1>1, <1>4, <3>1 DEF Client
  <2>2. client' = [client EXCEPT ![c] = n] /\ client'[c] = n
    BY <1>4 DEF TypeOK
  <2> HIDE DEF n
  <2>3. ClientTrue(c)'
    BY <2>1, <2>2, PlansShort DEF ClientTrue, At, PlanOf, Kinds
  <2> QED
    BY <1>1, <2>1, <2>2, <2>3, GivesBack
<1> QED
  BY <1>2, <1>3, <1>4 DEF Commit, Fail

\* A search that ends, and the refusal of a client.
LEMMA WaitInv ==
    ASSUME IInv, NEW c \in Clients, EndSearch(c) \/ GiveUp(c) \/ Refuse(c) PROVE IInv'
<1> USE DEF IInv
<1>1. client[c] \in Client /\ ClientTrue(c) /\ UNCHANGED <<open, free, holders>> /\ ~At(c, "work")
      /\ ~At(c, "idle")
  BY DEF EndSearch, GiveUp, Refuse, TypeOK, ClientsTrue, At
<1>2. CASE client' = [client EXCEPT ![c] = IdleClient]
  <2>1. client'[c] = IdleClient
    BY <1>2 DEF TypeOK
  <2> QED
    BY <1>1, <1>2, <2>1, IdleTrue, GoesOn
<1>3. ASSUME NEW pc \in {"wait", "refused"}, NEW s \in 1 .. 2,
             client' = [client EXCEPT ![c] = [client[c] EXCEPT !.pc = pc, !.session = s]]
      PROVE  IInv'
  <2> DEFINE n == [client[c] EXCEPT !.pc = pc, !.session = s]
  <2>1. /\ n \in Client /\ n.pc = pc /\ n.kind = client[c].kind /\ n.got = client[c].got
    BY <1>1 DEF Client, ClientPc
  <2>2. client'[c] = n
    BY <1>3 DEF TypeOK
  <2>3. client' = [client EXCEPT ![c] = n]
    BY <1>3
  <2> HIDE DEF n
  <2>4. ClientTrue(c)'
    BY <1>1, <1>3, <2>1, <2>2, PlansShort DEF ClientTrue, At, PlanOf
  <2> QED
    BY <1>1, <1>3, <2>1, <2>3, <2>4, GoesOn
<1>4. CASE client' = [client EXCEPT ![c].pc = "wait", ![c].session = 2]
  <2>1. client' = [client EXCEPT ![c] = [client[c] EXCEPT !.pc = "wait", !.session = 2]]
    BY <1>4
  <2> QED
    BY <1>3, <2>1
<1>5. CASE client' = [client EXCEPT ![c].pc = "refused"]
  <2>1. client[c].session \in 1 .. 2
        /\ [client[c] EXCEPT !.pc = "refused"]
               = [client[c] EXCEPT !.pc = "refused", !.session = client[c].session]
    BY <1>1 DEF Client
  <2>2. client' = [client EXCEPT ![c] = [client[c] EXCEPT !.pc = "refused", !.session = client[c].session]]
    BY <1>5, <2>1
  <2> QED
    BY <1>3, <2>1, <2>2
<1> QED
  BY <1>2, <1>4, <1>5 DEF EndSearch, GiveUp, Refuse

\* Every step keeps the invariant.
LEMMA NextInv == IInv /\ [Next]_vars => IInv'
<1> SUFFICES ASSUME IInv, [Next]_vars PROVE IInv'
  OBVIOUS
<1>1. CASE UNCHANGED vars
  BY <1>1 DEF vars, IInv, TypeOK, Accounted, ClientsTrue, ClientTrue, At, PlanOf
<1> QED
  BY <1>1, StartInv, ConnectInv, WorkInv, EndInv, WaitInv DEF Next, Step

\* The invariant holds in every reachable state.
THEOREM Invariance == Spec => []IInv
  BY InitInv, NextInv, PTL DEF Spec

\* The state is well typed: the pool never grows beyond its limits.
THEOREM TypeCorrect == Spec => []TypeOK
<1>1. IInv => TypeOK
  BY DEF IInv
<1> QED
  BY <1>1, Invariance, PTL

\* Every connection lies in the pool or belongs to one session.
THEOREM ConnectionsAccounted == Spec => []Accounted
<1>1. IInv => Accounted
  BY DEF IInv
<1> QED
  BY <1>1, Invariance, PTL

\* Nobody holds one connection, or a row, while waiting for another connection.
THEOREM WaitersHoldNothing == Spec => []WaiterHoldsNothing
<1>1. IInv => WaiterHoldsNothing
  BY DEF IInv, Accounted, ClientsTrue, ClientTrue, WaiterHoldsNothing, At
<1> QED
  BY <1>1, Invariance, PTL

-----------------------------------------------------------------------------
(* Why sessions that hold connections cannot all wait for rows: whoever holds the last *)
(* row of the order waits for none, and the others wait for a later row than they hold. *)

\* A client holds and wants only rows of its plan, and wants later ones than it holds.
LEMMA RowsAscend ==
    ASSUME IInv, NEW x \in Clients
    PROVE  /\ Has(x, "driver") => RowsDone(x)
           /\ Has(x, "ride") => RowsDone(x) \/ NextRow(x) = "driver"
           /\ Has(x, "trip") => RowsDone(x) \/ NextRow(x) \in {"ride", "driver"}
           /\ ~RowsDone(x) => NextRow(x) \in {"trip", "ride", "driver"}
           /\ \A row : Has(x, row) => x \in holders
<1> DEFINE p == PlanOf(x)
           g == client[x].got
<1>1. g \in 0 .. 3 /\ g <= Len(p)
  BY DEF IInv, TypeOK, Client, ClientsTrue, ClientTrue
<1>2. p \in {<<>>, <<"ride">>, <<"ride", "driver">>, <<"trip", "ride", "driver">>}
  BY PlansOrdered DEF PlanOf
<1>3. \A row : Has(x, row) => x \in holders
  BY <1>1 DEF Has, IInv, Accounted, ClientsTrue, ClientTrue
<1>4. CASE p = <<>>
  BY <1>1, <1>3, <1>4 DEF Has, RowsDone, NextRow
<1>5. CASE p = <<"ride">>
  <2>1. Len(p) = 1 /\ p[1] = "ride"
    BY <1>5
  <2> HIDE DEF p
  <2> QED
    BY <1>1, <1>3, <2>1 DEF Has, RowsDone, NextRow, p
<1>6. CASE p = <<"ride", "driver">>
  <2>1. Len(p) = 2 /\ p[1] = "ride" /\ p[2] = "driver"
    BY <1>6
  <2> HIDE DEF p
  <2> QED
    BY <1>1, <1>3, <2>1 DEF Has, RowsDone, NextRow, p
<1>7. CASE p = <<"trip", "ride", "driver">>
  <2>1. Len(p) = 3 /\ p[1] = "trip" /\ p[2] = "ride" /\ p[3] = "driver"
    BY <1>7
  <2> HIDE DEF p
  <2> QED
    BY <1>1, <1>3, <2>1 DEF Has, RowsDone, NextRow, p
<1> QED
  BY <1>2, <1>4, <1>5, <1>6, <1>7

\* Sessions that hold connections never stop each other in a circle: an exhausted pool
\* always has a session that goes on, and so has every part of it.
THEOREM WorkGoesOn == Spec => []SomebodyWorks
<1>1. IInv => SomebodyWorks
  <2> SUFFICES ASSUME IInv, NEW S \in SUBSET holders, NEW c \in S, \A x \in S : BlockedBy(x, S)
               PROVE  FALSE
    BY DEF SomebodyWorks
  <2>1. S \subseteq Clients
    BY DEF IInv, TypeOK
  <2>2. \A x \in S : ~Has(x, "driver")
    BY <2>1, RowsAscend DEF BlockedBy
  <2>3. \A x \in S : NextRow(x) # "driver"
    BY <2>2 DEF BlockedBy
  <2>4. \A x \in S : ~Has(x, "ride")
    BY <2>1, <2>3, RowsAscend DEF BlockedBy
  <2>5. \A x \in S : NextRow(x) # "ride"
    BY <2>4 DEF BlockedBy
  <2>6. \A x \in S : ~Has(x, "trip")
    BY <2>1, <2>3, <2>5, RowsAscend DEF BlockedBy
  <2>7. ~RowsDone(c) /\ NextRow(c) \in {"trip", "ride", "driver"}
    BY <2>1, RowsAscend DEF BlockedBy
  <2> QED
    BY <2>2, <2>4, <2>6, <2>7 DEF BlockedBy
<1> QED
  BY <1>1, Invariance, PTL

-----------------------------------------------------------------------------
(* Progress: what EveryoneServed rests on besides fairness *)

\* How far a client is from its answer: the waits and sessions that it has before it,
\* and within a session the rows and calls of the PSP.
Phase(r) ==
    CASE r.pc = "idle" -> 0
      [] r.pc = "refused" -> 1
      [] r.pc = "work" -> IF r.session = 2 THEN 2 ELSE 5
      [] r.pc = "wait" -> IF r.session = 2 THEN 3 ELSE 6
      [] r.pc = "search" -> 4

Budget(r) == (3 - r.got) + (MAX_RETRIES - r.attempt)

\* The client is nearer to its answer than before.
Advances(c) ==
    \/ Phase(client'[c]) < Phase(client[c])
    \/ /\ Phase(client'[c]) = Phase(client[c])
       /\ Budget(client'[c]) < Budget(client[c])

\* Both numbers are bounded, whatever the client does.
LEMMA PhaseType ==
    ASSUME NEW r \in Client
    PROVE  Phase(r) \in 0 .. 6 /\ Budget(r) \in 0 .. 3 + MAX_RETRIES
<1>1. /\ r.pc \in ClientPc /\ r.session \in 1 .. 2 /\ r.got \in 0 .. 3
      /\ r.attempt \in 0 .. MAX_RETRIES /\ MAX_RETRIES \in Nat
  BY PoolAssumption DEF Client
<1> QED
  BY <1>1 DEF Phase, Budget, ClientPc

\* A client that goes on to another place in the code.
LEMMA GoOnAdvances ==
    ASSUME TypeOK, NEW c \in Clients, NEW pc \in ClientPc, NEW s \in 1 .. 2,
           client'[c].pc = pc, client'[c].session = s,
           \/ At(c, "wait") /\ pc = "work" /\ s = client[c].session
           \/ At(c, "wait") /\ pc = "refused"
           \/ At(c, "work") /\ client[c].session = 1 /\ pc = "wait" /\ s = 2
           \/ At(c, "work") /\ client[c].session = 1 /\ pc = "search"
           \/ At(c, "search") /\ pc = "wait" /\ s = 2
           \/ ~At(c, "idle") /\ pc = "idle"
    PROVE  Advances(c)
<1>1. client[c].session \in 1 .. 2 /\ client[c].pc \in ClientPc
  BY DEF TypeOK, Client
<1> QED
  BY <1>1 DEF Advances, Phase, At, ClientPc

\* Every step of a client brings it nearer to its answer, and leaves the others alone.
LEMMA StepAdvances ==
    ASSUME IInv, NEW c \in Clients, Step(c) \/ Fail(c) \/ GiveUp(c)
    PROVE  Advances(c) /\ \A x \in Clients \ {c} : client'[x] = client[x]
<1> USE PoolAssumption DEF IInv
<1>1. client \in [Clients -> Client] /\ client[c] \in Client /\ client[c].session \in 1 .. 2
  BY DEF TypeOK, Client
<1>2. /\ client'[c] = IdleClient => client'[c].pc = "idle" /\ client'[c].session = 1
      /\ {"idle", "wait", "work", "search", "refused"} = ClientPc
  BY DEF IdleClient, ClientPc
<1>3. CASE Connect(c)
  <2>1. /\ client'[c].pc = "work" /\ client'[c].session = client[c].session /\ At(c, "wait")
        /\ \A x \in Clients \ {c} : client'[x] = client[x]
    BY <1>1, <1>3 DEF Connect, Client
  <2> QED
    BY <1>1, <1>2, <2>1, GoOnAdvances
<1>4. CASE UpdateRow(c) \/ CallPsp(c)
  <2>1. /\ client'[c].pc = client[c].pc /\ client'[c].session = client[c].session
        /\ \/ client'[c].got = client[c].got + 1 /\ client'[c].attempt = client[c].attempt
           \/ client'[c].got = client[c].got /\ client'[c].attempt = client[c].attempt + 1
        /\ \A x \in Clients \ {c} : client'[x] = client[x]
    BY <1>1, <1>4 DEF UpdateRow, CallPsp, Client
  <2>2. client[c].got \in Nat /\ client[c].attempt \in Nat /\ MAX_RETRIES \in Nat
    BY <1>1 DEF Client
  <2>3. Phase(client'[c]) = Phase(client[c])
    BY <2>1 DEF Phase
  <2>4. Budget(client'[c]) < Budget(client[c])
    BY <2>1, <2>2 DEF Budget
  <2> QED
    BY <2>1, <2>3, <2>4 DEF Advances
<1>5. ASSUME ~At(c, "idle"), client' = [client EXCEPT ![c] = IdleClient]
      PROVE  Advances(c) /\ \A x \in Clients \ {c} : client'[x] = client[x]
  <2>1. client'[c] = IdleClient /\ \A x \in Clients \ {c} : client'[x] = client[x]
    BY <1>1, <1>5
  <2> QED
    BY <1>1, <1>2, <1>5, <2>1, GoOnAdvances
<1>6. ASSUME \/ At(c, "work") /\ client[c].session = 1
             \/ At(c, "search"),
             client' = [client EXCEPT ![c].pc = "wait", ![c].session = 2]
      PROVE  Advances(c) /\ \A x \in Clients \ {c} : client'[x] = client[x]
  <2>1. /\ client'[c].pc = "wait" /\ client'[c].session = 2
        /\ \A x \in Clients \ {c} : client'[x] = client[x]
    BY <1>1, <1>6 DEF Client
  <2>2. "wait" \in ClientPc /\ 2 \in 1 .. 2
    BY DEF ClientPc
  <2> QED
    BY <1>6, <2>1, <2>2, GoOnAdvances
<1>7. CASE Commit(c) /\ client' = [client EXCEPT ![c].pc = "search", ![c].got = 0]
           /\ client[c].session = 1
  <2>1. /\ client'[c].pc = "search" /\ client'[c].session = 1
        /\ At(c, "work") /\ client[c].session = 1 /\ "search" \in ClientPc /\ 1 \in 1 .. 2
        /\ \A x \in Clients \ {c} : client'[x] = client[x]
    BY <1>1, <1>7 DEF Commit, Client, ClientPc
  <2> QED
    BY <2>1, GoOnAdvances
<1>8. CASE GiveUp(c)
  <2>1. /\ client'[c].pc = "refused" /\ client'[c].session = client[c].session /\ At(c, "wait")
        /\ \A x \in Clients \ {c} : client'[x] = client[x]
    BY <1>1, <1>8 DEF GiveUp, Client
  <2> QED
    BY <1>1, <1>2, <2>1, GoOnAdvances
<1>9. CASE Commit(c)
  BY <1>5, <1>6, <1>7, <1>9 DEF Commit, At
<1>10. CASE Fail(c) \/ Refuse(c)
  BY <1>5, <1>10 DEF Fail, Refuse, At
<1>11. CASE EndSearch(c)
  BY <1>5, <1>6, <1>11 DEF EndSearch, At
<1> QED
  BY <1>3, <1>4, <1>8, <1>9, <1>10, <1>11 DEF Step

\* Every step of a session that is under way brings it nearer to its end, by a pair of
\* numbers that are bounded whatever the pool does: no session keeps its connection or
\* its rows for ever by what it does itself, and nobody moves another.
THEOREM SessionsMoveOn ==
    Spec => [][\A c \in Clients :
                   At(c, "idle") \/ client'[c] = client[c] \/ Advances(c)]_vars
<1> DEFINE MoveOn == \A c \in Clients : At(c, "idle") \/ client'[c] = client[c] \/ Advances(c)
<1>1. IInv /\ [Next]_vars => [MoveOn]_vars
  <2> SUFFICES ASSUME IInv, Next, NEW c \in Clients, ~At(c, "idle"), client'[c] # client[c]
               PROVE  Advances(c)
    OBVIOUS
  <2>1. ASSUME NEW x \in Clients, NEW kind \in Kinds, Start(x, kind) PROVE FALSE
    BY <2>1 DEF Start, IInv, TypeOK, At
  <2> QED
    BY <2>1, StepAdvances DEF Next
<1> QED
  BY <1>1, Invariance, PTL DEF Spec
=============================================================================

--------------------------- MODULE ConnectionPool ----------------------------
(***************************************************************************)
(* The connection pool of core/database.py and everything that waits for   *)
(* it.  A session checks a connection out at its first query and keeps it  *)
(* until it is committed or rolled back.  A request has two sessions: the  *)
(* one of AuthMiddleware (skipped when Redis knows the API key), closed    *)
(* before the handler runs, and the one of get_db.  A payment keeps its    *)
(* connection over its calls of the PSP.  A matching task has two short    *)
(* sessions with the whole search, without a connection, between them.     *)
(*                                                                         *)
(* The pool is SQLAlchemy's QueuePool: POOL_SIZE connections are kept,     *)
(* MAX_OVERFLOW more are opened under load and closed when they come back; *)
(* who finds none waits, in no guaranteed order, and may give up after     *)
(* 30 s.  All clients meet in the rows of one trip, ride and driver, and   *)
(* keep a row that they have updated until their session ends.             *)
(*                                                                         *)
(* Redis is not part of this module: neither what the middlewares write    *)
(* between the two sessions of a request, the actor and its entry in the   *)
(* rate limiter's set, nor what the handlers write.                        *)
(***************************************************************************)
EXTENDS Naturals, Sequences, FiniteSets

CONSTANTS
    Clients,            \* slots for concurrent requests and matching tasks
    POOL_SIZE,
    MAX_OVERFLOW,
    MAX_RETRIES,        \* calls of the PSP per payment
    None

ASSUME PoolAssumption ==
    /\ POOL_SIZE \in Nat /\ MAX_OVERFLOW \in Nat /\ POOL_SIZE + MAX_OVERFLOW > 0
    /\ MAX_RETRIES \in Nat \ {0}

VARIABLES
    open,       \* connections that exist
    free,       \* those of them that lie in the pool
    holders,    \* the clients whose session has one
    client      \* what each client is doing

vars == <<open, free, holders, client>>

Kinds == {"accept", "end", "pay", "match"}
ClientPc == {"idle", "wait", "work", "search", "refused"}
Client == [pc : ClientPc, kind : Kinds \cup {None}, session : 1 .. 2, got : 0 .. 3,
           attempt : 0 .. MAX_RETRIES]
IdleClient == [pc |-> "idle", kind |-> None, session |-> 1, got |-> 0, attempt |-> 0]

TypeOK ==
    /\ open \in 0 .. POOL_SIZE + MAX_OVERFLOW
    /\ free \in 0 .. POOL_SIZE
    /\ holders \subseteq Clients
    /\ client \in [Clients -> Client]

Init ==
    /\ open = 0 /\ free = 0 /\ holders = {}
    /\ client = [c \in Clients |-> IdleClient]

At(c, pc) == client[c].pc = pc

\* A plan that starts with the driver.
DriverFirst(kind, session) ==
    CASE kind = "match" -> <<"ride">>
      [] kind = "accept" /\ session = 2 -> <<"driver", "ride">>
      [] kind = "end" /\ session = 2 -> <<"trip", "ride", "driver">>
      [] OTHER -> <<>>

\* The rows that a session updates, in this order.
Plan(kind, session) ==
    CASE kind = "match" -> <<"ride">>
      [] kind = "accept" /\ session = 2 -> <<"ride", "driver">>
      [] kind = "end" /\ session = 2 -> <<"trip", "ride", "driver">>
      [] OTHER -> <<>>

PlanOf(c) == Plan(client[c].kind, client[c].session)
Has(c, row) == \E i \in 1 .. client[c].got : i <= Len(PlanOf(c)) /\ PlanOf(c)[i] = row
RowsDone(c) == client[c].got >= Len(PlanOf(c))
NextRow(c) == PlanOf(c)[client[c].got + 1]
Pays(c) == client[c].kind = "pay" /\ client[c].session = 2

\* The request is stopped in the database by one of S.
BlockedBy(c, S) == ~RowsDone(c) /\ \E x \in S : Has(x, NextRow(c))
Blocked(c) == BlockedBy(c, Clients)

Exhausted == free = 0 /\ open = POOL_SIZE + MAX_OVERFLOW

\* An overflow connection that is never closed.
KeepAll == free' = free + 1 /\ UNCHANGED open

\* A connection that comes back to a full pool is closed.
PutBack ==
    IF free < POOL_SIZE
    THEN free' = free + 1 /\ UNCHANGED open
    ELSE open' = open - 1 /\ UNCHANGED free

\* A request or a task begins with the session that it needs first.
Start(c, kind) ==
    /\ At(c, "idle")
    /\ \E s \in 1 .. 2 :
           /\ kind = "match" => s = 1
           /\ client' = [client EXCEPT ![c] = [IdleClient EXCEPT
                             !.pc = "wait", !.kind = kind, !.session = s]]
    /\ UNCHANGED <<open, free, holders>>

\* The first query of the session.
Connect(c) ==
    /\ At(c, "wait") /\ ~Exhausted
    /\ IF free > 0 THEN free' = free - 1 /\ UNCHANGED open
                   ELSE open' = open + 1 /\ UNCHANGED free
    /\ holders' = holders \cup {c}
    /\ client' = [client EXCEPT ![c].pc = "work"]

\* An UPDATE, once nobody else holds the row.
UpdateRow(c) ==
    /\ At(c, "work") /\ ~RowsDone(c) /\ ~Blocked(c)
    /\ client' = [client EXCEPT ![c].got = @ + 1]
    /\ UNCHANGED <<open, free, holders>>

\* A retry loop that starts over.
CallForever(c) ==
    /\ At(c, "work") /\ Pays(c)
    /\ client' = [client EXCEPT ![c].attempt = IF @ < MAX_RETRIES THEN @ + 1 ELSE 1]
    /\ UNCHANGED <<open, free, holders>>

\* One call of the PSP and the pause after it.
CallPsp(c) ==
    /\ At(c, "work") /\ Pays(c)
    /\ client[c].attempt < MAX_RETRIES
    /\ client' = [client EXCEPT ![c].attempt = @ + 1]
    /\ UNCHANGED <<open, free, holders>>

\* The middleware keeps its session open around call_next.
NestedSessions(c) ==
    /\ At(c, "work") /\ RowsDone(c)
    /\ IF client[c].session = 1
       THEN /\ client' = [client EXCEPT ![c].pc = "wait", ![c].session = 2, ![c].got = 0]
            /\ UNCHANGED <<open, free, holders>>
       ELSE /\ PutBack /\ holders' = holders \ {c}
            /\ client' = [client EXCEPT ![c] = IdleClient]

\* The session ends with a commit.  AuthMiddleware has found the actor and goes on,
\* or answers 401; a matching task searches; any other session was the last.
Commit(c) ==
    /\ At(c, "work") /\ RowsDone(c)
    /\ PutBack /\ holders' = holders \ {c}
    /\ \/ /\ client[c].session = 1 /\ client[c].kind # "match"
          /\ client' = [client EXCEPT ![c].pc = "wait", ![c].session = 2]
       \/ /\ client[c].session = 1 /\ client[c].kind = "match"
          /\ client' = [client EXCEPT ![c].pc = "search", ![c].got = 0]
       \/ /\ client[c].session = 2 \/ client[c].kind # "match"
          /\ client' = [client EXCEPT ![c] = IdleClient]

\* The search ends with an acceptance, or all radii are exhausted.
EndSearch(c) ==
    /\ At(c, "search")
    /\ \/ client' = [client EXCEPT ![c] = IdleClient]
       \/ client' = [client EXCEPT ![c].pc = "wait", ![c].session = 2]
    /\ UNCHANGED <<open, free, holders>>

\* A session that is dropped with its connection when the handler raises.
LeakOnFailure(c) ==
    /\ At(c, "work")
    /\ holders' = holders \ {c}
    /\ client' = [client EXCEPT ![c] = IdleClient]
    /\ UNCHANGED <<open, free>>

\* 404, 409, an error of a store or of the PSP: rolled back.
Fail(c) ==
    /\ At(c, "work")
    /\ PutBack /\ holders' = holders \ {c}
    /\ client' = [client EXCEPT ![c] = IdleClient]

\* pool_timeout: nothing came back in 30 s.  A request is answered 500; a matching
\* task logs it and ends.
GiveUp(c) ==
    /\ At(c, "wait") /\ Exhausted
    /\ client' = [client EXCEPT ![c].pc = "refused"]
    /\ UNCHANGED <<open, free, holders>>

Refuse(c) ==
    /\ At(c, "refused")
    /\ client' = [client EXCEPT ![c] = IdleClient]
    /\ UNCHANGED <<open, free, holders>>

Step(c) ==
    \/ Connect(c) \/ UpdateRow(c) \/ CallPsp(c) \/ Commit(c) \/ EndSearch(c) \/ Refuse(c)

Next ==
    \E c \in Clients :
        Step(c) \/ Fail(c) \/ GiveUp(c) \/ \E kind \in Kinds : Start(c, kind)

Spec == Init /\ [][Next]_vars

\* Whoever comes back leaves a connection to some waiter, and nobody is passed over
\* forever; PostgreSQL queues for rows in the same way.  Nobody has to give up.
FairSpec == Spec /\ \A c \in Clients : SF_vars(Step(c))

-----------------------------------------------------------------------------
\* No connection is lost or counted twice, whatever fails: those that exist lie in the
\* pool or belong to a session under way, one each.  (session_context, get_db)
Accounted ==
    /\ open = free + Cardinality(holders)
    /\ \A c \in Clients : c \in holders <=> At(c, "work")

\* Who waits for a connection holds none, nor a row that others wait for: the
\* middleware's session is over when the handler's begins.  (AuthMiddleware)
WaiterHoldsNothing ==
    \A c \in Clients : At(c, "wait") => c \notin holders /\ client[c].got = 0

\* When the pool is exhausted it is because of work that goes on: no sessions that hold
\* connections stop each other in a circle, of any of them one waits for no row of the
\* others.  (accept_ride, end_trip and run_matching take the rows in one order)
SomebodyWorks == \A S \in (SUBSET holders) \ {{}} : \E c \in S : ~BlockedBy(c, S)

\* A slow PSP delays the others and does not starve them: payments give up after
\* MAX_RETRIES calls, and everyone who can wait long enough gets a connection.
EveryoneServed == \A c \in Clients : At(c, "wait") ~> ~At(c, "wait")
=============================================================================

----------------------------- MODULE RateLimiter -----------------------------
(***************************************************************************)
(* RateLimiterMiddleware for the requests of one actor: a sliding window   *)
(* kept in a Redis sorted set.  A request reads the clock of its worker,   *)
(* and at most MaxDelay later its pipeline runs in Redis as one            *)
(* transaction: evict, add, count, expire.  Pipelines of concurrent        *)
(* requests may run in another order than the one in which the clock was   *)
(* read.                                                                   *)
(*                                                                         *)
(* The clock is discrete and every worker reads the same one.  Requests    *)
(* may read the same time: the members of the sorted set are               *)
(* str(time.time()), so these are recorded once and counted once.          *)
(***************************************************************************)
EXTENDS Integers, FiniteSets

CONSTANTS
    Workers,            \* requests of the actor that are under way at a time
    WINDOW_SEC,
    MAX_REQUESTS,
    MaxDelay,           \* between reading the clock and Redis's transaction
    MaxTime,            \* bound on the clock
    MaxTwins,           \* bound on the requests that read the same time
    None

ASSUME LimiterAssumption ==
    /\ WINDOW_SEC \in Nat \ {0} /\ MAX_REQUESTS \in Nat \ {0}
    /\ MaxDelay \in Nat /\ MaxTime \in Nat /\ MaxTwins \in Nat

Time == 0 .. MaxTime

\* A request is known by the time it reads, and by which of those that read it it is.
Request == [at : Time, nth : 1 .. MaxTwins]

ASSUME NoneAssumption == None \notin Request

VARIABLES
    clock,
    log,            \* rate:{actor}: the times in the sorted set
    touched,        \* when EXPIRE was last set on it
    pending,        \* the request each worker is handling, once it has read the clock
    accepted,       \* the requests that were let through ...
    refused         \* ... and those that got 429

vars == <<clock, log, touched, pending, accepted, refused>>

\* The variables have their types; a request under way is never older than
\* the delay allows.
TypeOK ==
    /\ clock \in Time /\ touched \in Time
    /\ log \subseteq Time
    /\ pending \in [Workers -> Request \cup {None}]
    /\ \A w \in Workers : pending[w] # None =>
           pending[w].at \in clock - MaxDelay .. clock
    /\ accepted \subseteq Request /\ refused \subseteq Request

Init ==
    /\ clock = 0 /\ touched = 0
    /\ log = {} /\ accepted = {} /\ refused = {}
    /\ pending = [w \in Workers |-> None]

UnderWay == {pending[w] : w \in Workers} \ {None}
Issued == accepted \cup refused \cup UnderWay

Tick ==
    /\ clock < MaxTime
    /\ \A r \in UnderWay : clock < r.at + MaxDelay
    /\ clock' = clock + 1
    /\ UNCHANGED <<log, touched, pending, accepted, refused>>

\* The next of the requests that read the time t.
Twin(t) == [at |-> t, nth |-> Cardinality({r \in Issued : r.at = t}) + 1]

\* A clock read as a whole second, rounded up.
ReadClockRoundedUp(w) ==
    /\ pending[w] = None
    /\ Twin(clock + 1) \in Request
    /\ pending' = [pending EXCEPT ![w] = Twin(clock + 1)]
    /\ UNCHANGED <<clock, log, touched, accepted, refused>>

ReadClock(w) ==
    /\ pending[w] = None
    /\ Twin(clock) \in Request
    /\ pending' = [pending EXCEPT ![w] = Twin(clock)]
    /\ UNCHANGED <<clock, log, touched, accepted, refused>>

\* The boundary kept: an exclusive range.
EvictExclusive(times, start) == {t \in times : t >= start}

\* ZREMRANGEBYSCORE key -inf window_start evicts the boundary too.
Evict(times, start) == {t \in times : t > start}

\* What is left of the sorted set: the key expires WINDOW_SEC after EXPIRE.
Live == IF clock >= touched + WINDOW_SEC THEN {} ELSE log

\* The refused request is recorded as well: ZADD comes before the count.  A time that is
\* there already is overwritten.
Recorded(now) == Evict(Live, now - WINDOW_SEC) \cup {now}

\* A comparison that lets one request too many through.
AllowedOneMore(count) == count <= MAX_REQUESTS + 1

Allowed(count) == count <= MAX_REQUESTS

CheckRate(w) ==
    LET r == pending[w] IN
    /\ r # None
    /\ log' = Recorded(r.at)
    /\ touched' = clock
    /\ IF Allowed(Cardinality(log'))
       THEN accepted' = accepted \cup {r} /\ UNCHANGED refused
       ELSE refused' = refused \cup {r} /\ UNCHANGED accepted
    /\ pending' = [pending EXCEPT ![w] = None]
    /\ UNCHANGED clock

Next == Tick \/ \E w \in Workers : ReadClock(w) \/ CheckRate(w)

Spec == Init /\ [][Next]_vars

----------------------------------------------------------------------------
Between(requests, after, upto) == {r \in requests : after < r.at /\ r.at <= upto}

\* Those of the requests that have read the time of an earlier one.
Repeated(requests) == {r \in requests : \E x \in requests : x.at = r.at /\ x.nth < r.nth}

\* The limit holds in every window, shortened by the delay: the requests let
\* through in any WINDOW_SEC - MaxDelay are at most MAX_REQUESTS, and one more
\* for each that has read the same time as another, however their transactions
\* interleave with late ones and with the key's expiry.  (_check_rate)
AtMostLimit ==
    \A t \in Time :
        LET window == Between(accepted, t - (WINDOW_SEC - MaxDelay), t)
        IN  Cardinality(window) <= MAX_REQUESTS + Cardinality(Repeated(window))

\* Nobody is refused without cause: a request gets 429 only when it and the
\* others the actor issued in the WINDOW_SEC before it (or while it was under
\* way) are more than MAX_REQUESTS.  (_check_rate)
RefusedOnlyOverLimit ==
    \A r \in refused :
        Cardinality(Between(Issued, r.at - WINDOW_SEC, r.at + MaxDelay))
            > MAX_REQUESTS
=============================================================================

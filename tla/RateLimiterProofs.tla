-------------------------- MODULE RateLimiterProofs ---------------------------
(***************************************************************************)
(* Proofs about module RateLimiter, for every window, limit, delay and     *)
(* number of requests under way.                                           *)
(***************************************************************************)
EXTENDS RateLimiter, FiniteSetTheorems, FunctionTheorems, TLAPS

\* The sorted set keeps every accepted request as long as it can matter, records only
\* requests that were issued, and was touched when it last got one.
LogExact ==
    /\ touched <= clock
    /\ \A t \in log : t <= touched
    /\ \A r \in accepted : r.at > clock - WINDOW_SEC => r.at \in log
    /\ \A t \in log : \E r \in accepted \cup refused : r.at = t

IInv == TypeOK /\ LogExact /\ AtMostLimit /\ RefusedOnlyOverLimit

\* Sets of requests are finite, and a part of one is no larger than the whole.
LEMMA RequestsCounted ==
    ASSUME NEW S \in SUBSET Request, NEW P \in SUBSET S
    PROVE  /\ IsFiniteSet(S) /\ IsFiniteSet(P)
           /\ Cardinality(P) \in Nat /\ Cardinality(S) \in Nat
           /\ Cardinality(P) <= Cardinality(S)
<1> DEFINE Pair == Time \X (1 .. MaxTwins)
           f == [r \in Request |-> <<r.at, r.nth>>]
<1>1. IsFiniteSet(Pair)
  <2>1. IsFiniteSet(Time) /\ IsFiniteSet(1 .. MaxTwins)
    BY LimiterAssumption, FS_Interval DEF Time
  <2> QED
    BY <2>1, FS_Product
<1>2. f \in Injection(Request, Pair)
  <2>1. ASSUME NEW a \in Request, NEW b \in Request, f[a] = f[b] PROVE a = b
    <3>1. a.at = b.at /\ a.nth = b.nth
      BY <2>1
    <3> QED
      BY <3>1 DEF Request
  <2>2. f \in [Request -> Pair]
    BY DEF Request
  <2> HIDE DEF f, Pair
  <2> QED
    BY <2>1, <2>2, Fun_IsInj
<1>3. IsFiniteSet(Request)
  BY <1>1, <1>2, FS_Injection
<1> QED
  BY <1>3, FS_Subset, FS_CardinalityType

\* Times that requests have read are no more than the requests.
LEMMA TimesOfRequests ==
    ASSUME NEW S \in SUBSET Request, NEW T \in SUBSET Time, \A t \in T : \E r \in S : r.at = t
    PROVE  /\ Cardinality(T) \in Nat /\ Cardinality(S) \in Nat
           /\ Cardinality(T) <= Cardinality(S)
<1> DEFINE f == [t \in T |-> CHOOSE r \in S : r.at = t]
<1>1. IsFiniteSet(S) /\ Cardinality(S) \in Nat
  BY RequestsCounted
<1>2. \A t \in T : f[t] \in S /\ f[t].at = t
  OBVIOUS
<1>3. f \in Injection(T, S)
  <2>1. f \in [T -> S] /\ \A a, b \in T : f[a] = f[b] => a = b
    BY <1>2
  <2> QED
    BY <2>1, Fun_IsInj
<1>4. IsFiniteSet(T) /\ Cardinality(T) <= Cardinality(S)
  BY <1>1, <1>3, FS_Injection
<1> QED
  BY <1>1, <1>4, FS_CardinalityType

\* Requests are no more than the times they have read and those of them that repeat one.
LEMMA RequestsOfTimes ==
    ASSUME NEW S \in SUBSET Request, NEW T \in SUBSET Time, \A r \in S : r.at \in T
    PROVE  /\ Cardinality(T) \in Nat /\ Cardinality(S) \in Nat /\ Cardinality(Repeated(S)) \in Nat
           /\ Cardinality(S) <= Cardinality(T) + Cardinality(Repeated(S))
<1> DEFINE First == S \ Repeated(S)
           f == [r \in First |-> r.at]
<1>1. IsFiniteSet(T) /\ Cardinality(T) \in Nat
  <2>1. IsFiniteSet(Time)
    BY LimiterAssumption, FS_Interval DEF Time
  <2> QED
    BY <2>1, FS_Subset, FS_CardinalityType
<1>2. f \in Injection(First, T)
  <2>1. ASSUME NEW a \in First, NEW b \in First, a.at = b.at PROVE a = b
    <3>1. a.nth = b.nth
      BY <2>1 DEF Repeated, Request
    <3> QED
      BY <2>1, <3>1 DEF Request
  <2>2. f \in [First -> T]
    OBVIOUS
  <2> QED
    BY <2>1, <2>2, Fun_IsInj
<1>3. Cardinality(First) <= Cardinality(T)
  BY <1>1, <1>2, FS_Injection
<1>4. Repeated(S) \in SUBSET S
  BY DEF Repeated
<1>5. /\ IsFiniteSet(S) /\ Cardinality(S) \in Nat /\ Cardinality(Repeated(S)) \in Nat
  BY <1>4, RequestsCounted
<1>6. Cardinality(First) = Cardinality(S) - Cardinality(Repeated(S))
  <2>1. S \cap Repeated(S) = Repeated(S)
    BY <1>4
  <2> QED
    BY <1>5, <2>1, FS_Difference
<1> QED
  BY <1>1, <1>3, <1>5, <1>6

\* Everything issued is a request.
LEMMA IssuedRequests ==
    ASSUME TypeOK PROVE Issued \subseteq Request /\ UnderWay \subseteq Request
  BY DEF TypeOK, Issued, UnderWay

\* At the start nothing has been issued or recorded.
LEMMA InitInv == Init => IInv
<1> SUFFICES ASSUME Init PROVE IInv
  OBVIOUS
<1>1. TypeOK /\ LogExact /\ RefusedOnlyOverLimit
  BY LimiterAssumption DEF Init, TypeOK, LogExact, RefusedOnlyOverLimit, Time
<1>2. AtMostLimit
  <2>1. ASSUME NEW t \in Time
        PROVE  /\ Between(accepted, t - (WINDOW_SEC - MaxDelay), t) = {}
               /\ Repeated(Between(accepted, t - (WINDOW_SEC - MaxDelay), t)) = {}
    BY DEF Init, Between, Repeated
  <2> QED
    BY <2>1, FS_EmptySet, LimiterAssumption DEF AtMostLimit
<1> QED
  BY <1>1, <1>2 DEF IInv

\* Time that passes only makes accepted requests older.
LEMMA TickInv == IInv /\ Tick => IInv'
<1> SUFFICES ASSUME IInv, Tick PROVE IInv'
  OBVIOUS
<1> USE LimiterAssumption DEF IInv, Tick
<1>1. TypeOK'
  <2>1. \A w \in Workers : pending[w] # None => pending[w] \in UnderWay
    BY DEF UnderWay
  <2> QED
    BY <2>1 DEF TypeOK, Time
<1>2. LogExact'
  BY DEF LogExact, TypeOK, Time, Request
<1>3. AtMostLimit' /\ RefusedOnlyOverLimit'
  BY DEF AtMostLimit, RefusedOnlyOverLimit, Between, Repeated, Issued, UnderWay
<1> QED
  BY <1>1, <1>2, <1>3

\* A cause for a refusal does not go away while more requests are issued.
LEMMA CauseStays ==
    ASSUME TypeOK, TypeOK', Issued \subseteq Issued', NEW t \in Int,
           Cardinality(Between(Issued, t - WINDOW_SEC, t + MaxDelay)) > MAX_REQUESTS
    PROVE  Cardinality(Between(Issued', t - WINDOW_SEC, t + MaxDelay)) > MAX_REQUESTS
<1> DEFINE S == Between(Issued', t - WINDOW_SEC, t + MaxDelay)
           P == Between(Issued, t - WINDOW_SEC, t + MaxDelay)
<1>1. S \in SUBSET Request /\ P \in SUBSET S
  BY IssuedRequests DEF Between, TypeOK, Issued, UnderWay
<1>2. Cardinality(P) \in Nat /\ Cardinality(S) \in Nat /\ Cardinality(P) <= Cardinality(S)
  BY <1>1, RequestsCounted
<1> QED
  BY <1>2, LimiterAssumption

\* A request that reads the clock is issued, and nothing else happens.
LEMMA ReadInv == ASSUME IInv, NEW w \in Workers, ReadClock(w) PROVE IInv'
<1> USE LimiterAssumption, NoneAssumption DEF IInv
<1> DEFINE new == Twin(clock)
<1>1. /\ new \in Request /\ new.at = clock /\ pending[w] = None
      /\ pending' = [pending EXCEPT ![w] = new]
      /\ UNCHANGED <<clock, log, touched, accepted, refused>>
  BY DEF ReadClock, Twin
<1> HIDE DEF new
<1>2. TypeOK'
  BY <1>1 DEF TypeOK, Time
<1>3. LogExact' /\ AtMostLimit'
  BY <1>1 DEF LogExact, AtMostLimit, Between, Repeated
<1>4. Issued \subseteq Issued'
  BY <1>1 DEF Issued, UnderWay, TypeOK
<1>5. RefusedOnlyOverLimit'
  BY <1>1, <1>2, <1>4, CauseStays DEF RefusedOnlyOverLimit, TypeOK, Request, Time
<1> QED
  BY <1>2, <1>3, <1>5

\* Within the transaction of a request: what it records are times that requests of its own
\* window have read, and no accepted one that could share a shortened window with it is
\* missing.
LEMMA RecordedExact ==
    ASSUME IInv, NEW w \in Workers, pending[w] # None
    PROVE  LET now == pending[w].at IN
           /\ now \in Time /\ now <= clock /\ clock <= now + MaxDelay
           /\ \A t \in Recorded(now) :
                  \E r \in Between(Issued, now - WINDOW_SEC, now + MaxDelay) : r.at = t
           /\ \A r \in accepted : r.at > clock - WINDOW_SEC => r.at \in Recorded(now)
           /\ \A t \in Recorded(now) :
                  t <= clock /\ \E r \in accepted \cup refused \cup {pending[w]} : r.at = t
<1> USE LimiterAssumption DEF IInv
<1> DEFINE now == pending[w].at
<1>0. pending[w] \in Request /\ pending[w] \in Issued
  BY DEF TypeOK, Issued, UnderWay
<1>1. now \in Time /\ now <= clock /\ clock <= now + MaxDelay
  BY <1>0 DEF TypeOK, Time, Request
<1>2. Live \subseteq log
  BY DEF Live
<1>3. ASSUME NEW t \in Live, t > now - WINDOW_SEC
      PROVE  /\ t \in Time /\ t <= clock
             /\ \E r \in accepted \cup refused : r.at = t
  BY <1>2, <1>3 DEF LogExact, TypeOK, Time
<1>4. ASSUME NEW t \in Recorded(now)
      PROVE  /\ t <= clock
             /\ \E r \in accepted \cup refused \cup {pending[w]} : r.at = t
             /\ \E r \in Between(Issued, now - WINDOW_SEC, now + MaxDelay) : r.at = t
  <2>1. CASE t = now
    <3>1. pending[w] \in Between(Issued, now - WINDOW_SEC, now + MaxDelay)
      BY <1>0, <1>1 DEF Between, Time
    <3> QED
      BY <1>1, <2>1, <3>1
  <2>2. CASE t \in Live /\ t > now - WINDOW_SEC
    <3>1. PICK r \in accepted \cup refused : r.at = t
      BY <1>3, <2>2
    <3>2. t \in Time /\ t <= clock /\ r \in Issued
      BY <1>3, <2>2, <3>1 DEF Issued
    <3>3. now - WINDOW_SEC < t /\ t <= now + MaxDelay
      BY <1>1, <2>2, <3>2 DEF TypeOK, Time
    <3>4. r \in Between(Issued, now - WINDOW_SEC, now + MaxDelay)
      BY <3>1, <3>2, <3>3 DEF Between
    <3> QED
      BY <3>1, <3>2, <3>4
  <2> QED
    BY <1>4, <2>1, <2>2 DEF Recorded, Evict
<1>5. ASSUME NEW r \in accepted, r.at > clock - WINDOW_SEC PROVE r.at \in Recorded(now)
  <2>1. r.at \in log /\ r.at \in Time /\ r.at <= touched
    BY <1>5 DEF LogExact, TypeOK
  <2>2. clock < touched + WINDOW_SEC
    BY <1>5, <2>1 DEF TypeOK, Time
  <2>3. r.at > now - WINDOW_SEC
    BY <1>1, <1>5, <2>1 DEF TypeOK, Time
  <2> QED
    BY <2>1, <2>2, <2>3 DEF Recorded, Evict, Live, TypeOK, Time
<1> QED
  BY <1>1, <1>4, <1>5

\* The request is counted: accepted, it fits into every window it is in; refused, the
\* recorded times are the cause.
LEMMA CheckInv == ASSUME IInv, NEW w \in Workers, CheckRate(w) PROVE IInv'
<1> USE LimiterAssumption DEF IInv
<1> DEFINE req == pending[w]
           now == req.at
<1>0. req # None /\ req \in Request
  BY DEF CheckRate, TypeOK
<1>1. /\ now \in Time /\ now <= clock /\ clock <= now + MaxDelay
      /\ \A t \in log' : \E r \in Between(Issued, now - WINDOW_SEC, now + MaxDelay) : r.at = t
      /\ \A r \in accepted : r.at > clock - WINDOW_SEC => r.at \in log'
      /\ \A t \in log' : t <= clock /\ \E r \in accepted \cup refused \cup {req} : r.at = t
  BY <1>0, RecordedExact DEF CheckRate
<1>2. now \in log'
  BY DEF CheckRate, Recorded
<1>3. /\ clock' = clock /\ touched' = clock
      /\ pending' = [pending EXCEPT ![w] = None]
      /\ \/ Cardinality(log') <= MAX_REQUESTS /\ accepted' = accepted \cup {req} /\ refused' = refused
         \/ ~(Cardinality(log') <= MAX_REQUESTS) /\ refused' = refused \cup {req} /\ accepted' = accepted
  BY DEF CheckRate, Allowed
<1>4. TypeOK'
  <2>1. log' \subseteq Time
    <3> SUFFICES ASSUME NEW t \in log' PROVE t \in Time
      OBVIOUS
    <3>1. PICK r \in accepted \cup refused \cup {req} : r.at = t
      BY <1>1
    <3> QED
      BY <1>0, <3>1 DEF TypeOK, Request
  <2> QED
    BY <1>0, <1>3, <2>1 DEF TypeOK, Time
<1>5. LogExact'
  <2>1. touched' <= clock' /\ \A t \in log' : t <= touched'
    BY <1>1, <1>3 DEF TypeOK, Time
  <2>2. \A r \in accepted' : r.at > clock' - WINDOW_SEC => r.at \in log'
    BY <1>1, <1>2, <1>3
  <2>3. \A t \in log' : \E r \in accepted' \cup refused' : r.at = t
    BY <1>1, <1>3
  <2> QED
    BY <2>1, <2>2, <2>3 DEF LogExact
<1>6. AtMostLimit'
  <2> SUFFICES ASSUME NEW t \in Time
               PROVE  Cardinality(Between(accepted', t - (WINDOW_SEC - MaxDelay), t))
                          <= MAX_REQUESTS
                             + Cardinality(Repeated(Between(accepted', t - (WINDOW_SEC - MaxDelay), t)))
    BY DEF AtMostLimit, Repeated
  <2> DEFINE P == Between(accepted', t - (WINDOW_SEC - MaxDelay), t)
  <2> SUFFICES Cardinality(P) <= MAX_REQUESTS + Cardinality(Repeated(P))
    OBVIOUS
  <2>1. CASE req \in P /\ Cardinality(log') <= MAX_REQUESTS
    <3>1. ASSUME NEW x \in P PROVE x.at \in log'
      <4>1. x \in accepted \/ x = req
        BY <1>3 DEF Between
      <4>2. x.at \in Time /\ x.at > t - (WINDOW_SEC - MaxDelay) /\ now <= t
        BY <1>0, <2>1, <4>1 DEF Between, TypeOK, Request
      <4>3. x.at > clock - WINDOW_SEC
        BY <1>1, <4>2 DEF TypeOK, Time
      <4> QED
        BY <1>1, <1>2, <4>1, <4>3
    <3>2. log' \in SUBSET Time /\ P \in SUBSET Request
      BY <1>4 DEF TypeOK, Between
    <3>3. /\ Cardinality(P) \in Nat /\ Cardinality(log') \in Nat /\ Cardinality(Repeated(P)) \in Nat
          /\ Cardinality(P) <= Cardinality(log') + Cardinality(Repeated(P))
      BY <3>1, <3>2, RequestsOfTimes
    <3> HIDE DEF P
    <3> QED
      BY <2>1, <3>3
  <2>2. CASE ~(req \in P /\ Cardinality(log') <= MAX_REQUESTS)
    <3>1. P = Between(accepted, t - (WINDOW_SEC - MaxDelay), t)
      BY <1>3, <2>2 DEF Between
    <3> HIDE DEF P
    <3> QED
      BY <3>1 DEF AtMostLimit
  <2> QED
    BY <2>1, <2>2
<1>7. Issued \subseteq Issued'
  BY <1>3 DEF Issued, UnderWay, TypeOK
<1>8. RefusedOnlyOverLimit'
  <2> SUFFICES ASSUME NEW r \in refused'
               PROVE  Cardinality(Between(Issued', r.at - WINDOW_SEC, r.at + MaxDelay)) > MAX_REQUESTS
    BY DEF RefusedOnlyOverLimit
  <2>0. r.at \in Int
    BY <1>4 DEF TypeOK, Request, Time
  <2>1. CASE r \in refused
    BY <1>4, <1>7, <2>0, <2>1, CauseStays DEF RefusedOnlyOverLimit
  <2>2. CASE r = req /\ ~(Cardinality(log') <= MAX_REQUESTS)
    <3> DEFINE S == Between(Issued, now - WINDOW_SEC, now + MaxDelay)
    <3>1. S \in SUBSET Request /\ log' \in SUBSET Time
      BY <1>4, IssuedRequests DEF Between, TypeOK
    <3>2. Cardinality(log') \in Nat /\ Cardinality(S) \in Nat /\ Cardinality(log') <= Cardinality(S)
      BY <1>1, <3>1, TimesOfRequests
    <3>3. Cardinality(S) > MAX_REQUESTS
      BY <2>2, <3>2
    <3> QED
      BY <1>4, <1>7, <2>0, <2>2, <3>3, CauseStays
  <2> QED
    BY <1>3, <2>1, <2>2
<1> QED
  BY <1>4, <1>5, <1>6, <1>8

\* Every step keeps the invariant.
LEMMA NextInv == IInv /\ [Next]_vars => IInv'
<1> SUFFICES ASSUME IInv, [Next]_vars PROVE IInv'
  OBVIOUS
<1>1. CASE UNCHANGED vars
  BY <1>1
  DEF vars, IInv, TypeOK, LogExact, AtMostLimit, RefusedOnlyOverLimit, Issued, UnderWay, Between,
      Repeated
<1> QED
  BY <1>1, TickInv, ReadInv, CheckInv DEF Next

\* The invariant holds in every reachable state.
THEOREM Invariance == Spec => []IInv
  BY InitInv, NextInv, PTL DEF Spec

\* No request under way is older than the delay allows, whatever else it races with.
THEOREM TypeCorrect == Spec => []TypeOK
<1>1. IInv => TypeOK
  BY DEF IInv
<1> QED
  BY <1>1, Invariance, PTL

\* No window, shortened by the delay, lets more than MAX_REQUESTS through, and one more for
\* each request that reads a time another one has read: the sorted set keeps these as one.
\* (_check_rate)
THEOREM LimitHolds == Spec => []AtMostLimit
<1>1. IInv => AtMostLimit
  BY DEF IInv
<1> QED
  BY <1>1, Invariance, PTL

\* Every 429 has its cause: more than MAX_REQUESTS requests of the actor around it.
THEOREM RefusalsHaveCause == Spec => []RefusedOnlyOverLimit
<1>1. IInv => RefusedOnlyOverLimit
  BY DEF IInv
<1> QED
  BY <1>1, Invariance, PTL
=============================================================================

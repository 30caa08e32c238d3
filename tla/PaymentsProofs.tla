---------------------------- MODULE PaymentsProofs ----------------------------
(***************************************************************************)
(* Proofs about module Payments, for every set of methods and requests,    *)
(* any number of retries, and every tier, distance, duration and surge.    *)
(***************************************************************************)
EXTENDS Payments, FaresProofs, FiniteSetTheorems

\* What a request that calls the PSP has read is a fare of the trip, and its method is
\* not an offline one.
RequestTrue(r) ==
    /\ r.pc # "idle" => r.method \in Methods
    /\ r.pc \in {"attempt", "record"} => fare # None
    /\ r.pc = "attempt" => r.method \notin Offline /\ ~r.success /\ r.amount \in fares

RequestsTrue == \A q \in PaymentRequests : RequestTrue(request[q])

\* A fare is one that calculate_fare returned.
FaresComputed ==
    /\ fare # None => fare \in fares
    /\ \A f \in fares : \E t \in Durations :
           f \in CalculateFare(Tier, Distance, t, GetSurgeMultiplier(SurgeKey))

Ledger == ChargedAfterTrip /\ ChargedTheFare /\ SuccessWasCharged

IInv == TypeOK /\ RequestsTrue /\ FaresComputed /\ Ledger

\* Sets of requests are finite; one more or less changes the number by one.
LEMMA RequestsCounted ==
    ASSUME NEW S \in SUBSET PaymentRequests, NEW q \in PaymentRequests
    PROVE  /\ Cardinality(S) \in Nat
           /\ q \in S => Cardinality(S \ {q}) = Cardinality(S) - 1
           /\ q \notin S => Cardinality(S \cup {q}) = Cardinality(S) + 1
           /\ Cardinality(S \ {q}) \in Nat /\ Cardinality(S \ {q}) <= Cardinality(S)
<1>1. IsFiniteSet(S) /\ IsFiniteSet(S \ {q})
  BY PaymentsAssumption, FS_Subset
<1>2. q \in S => Cardinality(S \ {q}) = Cardinality(S) - 1
  BY <1>1, FS_RemoveElement
<1>3. q \notin S => Cardinality(S \cup {q}) = Cardinality(S) + 1
  BY <1>1, FS_AddElement
<1>4. Cardinality(S) \in Nat /\ Cardinality(S \ {q}) \in Nat
  BY <1>1, FS_CardinalityType
<1>5. Cardinality(S \ {q}) <= Cardinality(S)
  BY <1>1, FS_Subset
<1> QED
  BY <1>2, <1>3, <1>4, <1>5

\* At the start nobody has paid anything.
LEMMA InitInv == Init => IInv
<1> SUFFICES ASSUME Init PROVE IInv
  OBVIOUS
<1>1. TypeOK /\ RequestsTrue /\ FaresComputed
  BY PaymentsAssumption
  DEF Init, TypeOK, RequestsTrue, RequestTrue, FaresComputed, PaymentRequest, PaymentPc, IdleRequest
<1>2. ChargedAfterTrip /\ ChargedTheFare
  BY DEF Init, ChargedAfterTrip, ChargedTheFare
<1>3. \A m \in Methods : Succeeded(m) = {}
  BY DEF Init, Succeeded, At, IdleRequest
<1>4. SuccessWasCharged
  BY <1>3, FS_EmptySet DEF Init, SuccessWasCharged
<1> QED
  BY <1>1, <1>2, <1>4 DEF IInv, Ledger

\* A fare that end_trip commits is a number, whatever it replaces.
LEMMA EndTripInv == IInv /\ EndTrip => IInv'
<1> SUFFICES ASSUME IInv, EndTrip PROVE IInv'
  OBVIOUS
<1> USE DEF IInv
<1>1. PICK t \in Durations :
          fare' \in CalculateFare(Tier, Distance, t, GetSurgeMultiplier(SurgeKey))
  BY DEF EndTrip
<1>2. fare' \in Int
  <2>1. t \in Nat /\ GetSurgeMultiplier(SurgeKey) \in Int
    BY PaymentsAssumption, SurgeCapped
  <2> QED
    BY <1>1, <2>1, FareIsInt, PaymentsAssumption
<1>3. fare' # None /\ fares' = fares \cup {fare'} /\ UNCHANGED <<payments, paymentKey, request, ledger>>
  BY <1>2, PaymentsAssumption DEF EndTrip
<1>4. TypeOK'
  BY <1>2, <1>3 DEF TypeOK, ledger
<1>5. RequestsTrue'
  BY <1>3 DEF RequestsTrue, RequestTrue
<1>6. FaresComputed'
  BY <1>1, <1>3 DEF FaresComputed
<1>7. ChargedAfterTrip' /\ ChargedTheFare'
  BY <1>3 DEF Ledger, ChargedAfterTrip, ChargedTheFare, ledger
<1>8. SuccessWasCharged'
  BY <1>3 DEF Ledger, SuccessWasCharged, Succeeded, At, Method, ledger
<1> QED
  BY <1>4, <1>5, <1>6, <1>7, <1>8 DEF Ledger

\* A request that moves on its own, to another well-formed state.
Moves(q) ==
    /\ request' \in [PaymentRequests -> PaymentRequest]
    /\ \A p \in PaymentRequests \ {q} : request'[p] = request[p]
    /\ RequestTrue(request'[q])
    /\ UNCHANGED <<fare, fares>>

\* The other requests stay as they should be.
LEMMA MovesTrue ==
    ASSUME RequestsTrue, NEW q \in PaymentRequests, Moves(q)
    PROVE  RequestsTrue'
  BY DEF RequestsTrue, RequestTrue, Moves

\* Who is about to record a success, after the move of one request.
LEMMA MovesSucceeded ==
    ASSUME NEW q \in PaymentRequests, Moves(q), NEW m
    PROVE  /\ q \in Succeeded(m) /\ q \notin Succeeded(m)' => Succeeded(m)' = Succeeded(m) \ {q}
           /\ q \notin Succeeded(m) /\ q \in Succeeded(m)' => Succeeded(m)' = Succeeded(m) \cup {q}
           /\ (q \in Succeeded(m) <=> q \in Succeeded(m)') => Succeeded(m)' = Succeeded(m)
  BY DEF Moves, Succeeded, At, Method

\* A move that neither charges nor records anything, and does not make a success.
LEMMA MoveInv ==
    ASSUME IInv, NEW q \in PaymentRequests, Moves(q), UNCHANGED <<payments, paymentKey, ledger>>,
           \A m \in Methods \ Offline : q \in Succeeded(m)' => q \in Succeeded(m)
    PROVE  IInv'
<1> USE DEF IInv, ledger
<1>1. TypeOK'
  BY DEF TypeOK, Moves
<1>2. RequestsTrue'
  BY MovesTrue
<1>3. FaresComputed' /\ ChargedAfterTrip' /\ ChargedTheFare'
  BY DEF FaresComputed, Ledger, ChargedAfterTrip, ChargedTheFare, Moves
<1>4. SuccessWasCharged'
  <2> SUFFICES ASSUME NEW m \in Methods, m \notin Offline
               PROVE  confirmed[m] + Cardinality(Succeeded(m)') <= charges[m]
    BY DEF Ledger, SuccessWasCharged
  <2>1. Succeeded(m)' = Succeeded(m) \/ Succeeded(m)' = Succeeded(m) \ {q}
    BY MovesSucceeded
  <2>2. /\ Cardinality(Succeeded(m)) \in Nat /\ Cardinality(Succeeded(m)') \in Nat
        /\ Cardinality(Succeeded(m)') <= Cardinality(Succeeded(m))
    <3>1. Succeeded(m) \in SUBSET PaymentRequests
      BY DEF Succeeded
    <3>2. /\ Cardinality(Succeeded(m)) \in Nat /\ Cardinality(Succeeded(m) \ {q}) \in Nat
          /\ Cardinality(Succeeded(m) \ {q}) <= Cardinality(Succeeded(m))
      BY <3>1, RequestsCounted
    <3>3. CASE Succeeded(m)' = Succeeded(m)
      BY <3>2, <3>3
    <3>4. CASE Succeeded(m)' = Succeeded(m) \ {q}
      BY <3>2, <3>4
    <3> QED
      BY <2>1, <3>3, <3>4
  <2>3. confirmed[m] + Cardinality(Succeeded(m)) <= charges[m]
    BY DEF Ledger, SuccessWasCharged
  <2>4. confirmed[m] \in Nat /\ charges[m] \in Nat
    BY DEF TypeOK
  <2> QED
    BY <2>2, <2>3, <2>4
<1> QED
  BY <1>1, <1>2, <1>3, <1>4 DEF Ledger

\* A request that leaves disturbs nothing.
LEMMA ReturnInv ==
    ASSUME IInv, NEW q \in PaymentRequests, Returns(q), UNCHANGED <<stored, ledger>>
    PROVE  IInv'
<1>1. Moves(q) /\ request'[q].pc = "idle" /\ UNCHANGED <<payments, paymentKey, ledger>>
  BY PaymentsAssumption
  DEF IInv, PaymentRequest, PaymentPc, Returns, Moves, RequestTrue, IdleRequest, TypeOK, stored
<1> QED
  BY <1>1, MoveInv DEF Succeeded, At

\* Receiving a request, looking for an earlier payment, and going away.
LEMMA LookInv ==
    ASSUME IInv, NEW q \in PaymentRequests,
           \/ \E m \in Methods : ReceivePayment(q, m)
           \/ CheckCache(q) \/ LookUpRow(q) \/ Respond(q) \/ Abort(q)
    PROVE  IInv'
<1> USE DEF IInv, PaymentRequest, PaymentPc
<1>1. ASSUME NEW m \in Methods, ReceivePayment(q, m) PROVE IInv'
  <2>1. Moves(q) /\ request'[q].pc = "cache" /\ UNCHANGED <<payments, paymentKey, ledger>>
    BY <1>1, PaymentsAssumption DEF ReceivePayment, Moves, RequestTrue, TypeOK, stored
  <2> QED
    BY <2>1, MoveInv DEF Succeeded, At
<1>2. ASSUME NEW pc \in {"lookup", "respond", "trip"}, GoTo(q, pc), ~At(q, "idle"),
             UNCHANGED <<stored, ledger>>
      PROVE  IInv'
  <2>1. Moves(q) /\ request'[q].pc = pc /\ UNCHANGED <<payments, paymentKey, ledger>>
    BY <1>2 DEF GoTo, At, Moves, RequestsTrue, RequestTrue, TypeOK, stored
  <2> QED
    BY <2>1, MoveInv DEF Succeeded, At
<1>3. CASE CheckCache(q)
  BY <1>2, <1>3, ReturnInv DEF CheckCache, At
<1>4. CASE LookUpRow(q)
  BY <1>2, <1>4 DEF LookUpRow, At
<1>5. CASE Respond(q) \/ Abort(q)
  BY <1>5, ReturnInv DEF Respond, Abort, PayloadSerializable, stored
<1> QED
  BY <1>1, <1>3, <1>4, <1>5

\* A request that has read the fare pays it; an offline one succeeds without a charge.
LEMMA CheckTripInv == ASSUME IInv, NEW q \in PaymentRequests, CheckTrip(q) PROVE IInv'
<1> USE DEF IInv, PaymentRequest, PaymentPc
<1>1. At(q, "trip") /\ UNCHANGED <<stored, ledger>> /\ Method(q) \in Methods
  BY DEF CheckTrip, RequestsTrue, RequestTrue, At, Method
<1>2. CASE fare = None
  BY <1>1, <1>2, ReturnInv DEF CheckTrip
<1>3. CASE fare # None
  <2> DEFINE offline == Method(q) \in Offline
             pc == IF offline THEN "record" ELSE "attempt"
             r == [request[q] EXCEPT !.amount = fare, !.success = offline, !.pc = pc]
  <2>1. request' = [request EXCEPT ![q] = r] /\ fare \in Int /\ fare \in fares
    BY <1>3 DEF CheckTrip, Pay, TypeOK, FaresComputed
  <2>2. /\ r \in PaymentRequest /\ r.method = Method(q) /\ r.amount = fare
        /\ r.success = offline /\ r.pc = pc
    <3>1. pc \in PaymentPc /\ offline \in BOOLEAN /\ request[q] \in PaymentRequest
      BY DEF TypeOK
    <3> HIDE DEF pc, offline
    <3> QED
      BY <2>1, <3>1 DEF Method
  <2> HIDE DEF r
  <2>3. /\ request' \in [PaymentRequests -> PaymentRequest] /\ request'[q] = r
        /\ \A p \in PaymentRequests \ {q} : request'[p] = request[p]
    BY <2>1, <2>2 DEF TypeOK
  <2>4. RequestTrue(r)
    BY <1>1, <1>3, <2>1, <2>2 DEF RequestTrue
  <2>5. Moves(q)
    BY <1>1, <2>3, <2>4 DEF Moves, stored
  <2>6. \A m \in Methods \ Offline : q \notin Succeeded(m)'
    BY <2>2, <2>3 DEF Succeeded, Method
  <2> QED
    BY <1>1, <2>5, <2>6, MoveInv DEF stored
<1> QED
  BY <1>2, <1>3

\* After a failed call a request calls again, or is about to record the failure.
LEMMA TryAgainMoves ==
    ASSUME IInv, NEW q \in PaymentRequests, At(q, "attempt"), TryAgain(q), UNCHANGED stored
    PROVE  /\ Moves(q) /\ UNCHANGED <<payments, paymentKey>>
           /\ \A m : q \notin Succeeded(m)'
<1> USE DEF IInv, PaymentRequest, PaymentPc
<1>1. /\ request[q].method \in Methods \ Offline /\ request[q].success = FALSE
      /\ request[q].amount \in fares /\ fare # None
  BY DEF RequestsTrue, RequestTrue, At, TypeOK
<1>2. CASE request[q].attempt < MAX_RETRIES
  <2>1. request[q].attempt + 1 \in 1 .. MAX_RETRIES
    BY <1>2, PaymentsAssumption DEF TypeOK
  <2>2. Moves(q) /\ request'[q].pc = "attempt"
    BY <1>1, <1>2, <2>1 DEF TryAgain, Moves, RequestTrue, At, TypeOK, stored
  <2> QED
    BY <2>2 DEF Succeeded, At, stored
<1>3. CASE ~(request[q].attempt < MAX_RETRIES)
  <2>1. Moves(q) /\ request'[q].success = FALSE
    BY <1>1, <1>3 DEF TryAgain, GoTo, Moves, RequestTrue, At, TypeOK, stored
  <2> QED
    BY <2>1 DEF Succeeded, stored
<1> QED
  BY <1>2, <1>3

\* A charge is one of the trip's fares, after the trip.
LEMMA ChargeInv ==
    ASSUME IInv, NEW q \in PaymentRequests, At(q, "attempt"), Charge(q), UNCHANGED <<stored, confirmed>>
    PROVE  /\ charges' \in [Methods -> Nat] /\ charged' \subseteq Int
           /\ ChargedAfterTrip' /\ ChargedTheFare'
           /\ Method(q) \in Methods \ Offline
           /\ charges'[Method(q)] = charges[Method(q)] + 1
           /\ \A m \in Methods \ {Method(q)} : charges'[m] = charges[m]
<1> USE DEF IInv
<1>1. Method(q) \in Methods \ Offline /\ request[q].amount \in fares /\ fare # None
  BY DEF RequestsTrue, RequestTrue, At, Method
<1>2. PICK p \in Paise(request[q].amount) : charged' = charged \cup {p}
  BY DEF Charge
<1>3. p \in Int
  BY <1>1 DEF Paise, TypeOK
<1>4. charges' = [charges EXCEPT ![Method(q)] = @ + 1]
  BY DEF Charge
<1>5. charges' \in [Methods -> Nat] /\ charged' \subseteq Int
  BY <1>1, <1>2, <1>3, <1>4 DEF TypeOK
<1>6. ChargedAfterTrip'
  BY <1>1 DEF ChargedAfterTrip, stored
<1>7. ChargedTheFare'
  BY <1>1, <1>2 DEF Ledger, ChargedTheFare, stored
<1> QED
  BY <1>1, <1>4, <1>5, <1>6, <1>7 DEF TypeOK

\* Calls of the PSP: only a charge that is answered makes a success.
LEMMA PspInv ==
    ASSUME IInv, NEW q \in PaymentRequests, PspFails(q) \/ PspAnswerLost(q) \/ PspCharges(q)
    PROVE  IInv'
<1> USE DEF IInv
<1>1. CASE PspFails(q)
  BY <1>1, TryAgainMoves, MoveInv DEF PspFails, stored
<1>2. ASSUME Moves(q), At(q, "attempt"), Charge(q), UNCHANGED <<stored, confirmed>>,
             \A m : q \notin Succeeded(m) /\ (m # Method(q) => q \notin Succeeded(m)')
      PROVE  IInv'
  <2>1. /\ charges' \in [Methods -> Nat] /\ charged' \subseteq Int
        /\ ChargedAfterTrip' /\ ChargedTheFare' /\ Method(q) \in Methods \ Offline
        /\ charges'[Method(q)] = charges[Method(q)] + 1
        /\ \A m \in Methods \ {Method(q)} : charges'[m] = charges[m]
    BY <1>2, ChargeInv
  <2>2. TypeOK'
    BY <1>2, <2>1 DEF TypeOK, Moves, stored
  <2>3. RequestsTrue' /\ FaresComputed'
    BY <1>2, MovesTrue DEF FaresComputed, stored
  <2>4. SuccessWasCharged'
    <3> SUFFICES ASSUME NEW m \in Methods
                 PROVE  IF m \in Offline THEN charges'[m] = 0
                        ELSE confirmed[m] + Cardinality(Succeeded(m)') <= charges'[m]
      BY <1>2 DEF SuccessWasCharged
    <3>1. IF m \in Offline THEN charges[m] = 0
          ELSE confirmed[m] + Cardinality(Succeeded(m)) <= charges[m]
      BY DEF Ledger, SuccessWasCharged
    <3>2. confirmed[m] \in Nat /\ charges[m] \in Nat /\ Cardinality(Succeeded(m)) \in Nat
      BY RequestsCounted DEF TypeOK, Succeeded
    <3>3. CASE m # Method(q)
      <4>1. Succeeded(m)' = Succeeded(m) /\ charges'[m] = charges[m]
        BY <1>2, <2>1, <3>3, MovesSucceeded
      <4> QED
        BY <3>1, <4>1
    <3>4. CASE m = Method(q)
      <4>1. Succeeded(m)' = Succeeded(m) \/ Succeeded(m)' = Succeeded(m) \cup {q}
        BY <1>2, MovesSucceeded
      <4>2. Cardinality(Succeeded(m) \cup {q}) = Cardinality(Succeeded(m)) + 1
        BY <1>2, RequestsCounted DEF Succeeded
      <4>3. charges'[m] = charges[m] + 1 /\ m \notin Offline
        BY <2>1, <3>4
      <4>4. /\ Cardinality(Succeeded(m)') \in Nat
            /\ Cardinality(Succeeded(m)') <= Cardinality(Succeeded(m)) + 1
        <5>1. CASE Succeeded(m)' = Succeeded(m)
          BY <3>2, <5>1
        <5>2. CASE Succeeded(m)' = Succeeded(m) \cup {q}
          BY <3>2, <4>2, <5>2
        <5> QED
          BY <4>1, <5>1, <5>2
      <4>5. confirmed[m] + Cardinality(Succeeded(m)) <= charges[m]
        BY <3>1, <4>3
      <4>6. confirmed[m] + Cardinality(Succeeded(m)') <= charges'[m]
        BY <3>2, <4>3, <4>4, <4>5
      <4> QED
        BY <4>3, <4>6
    <3> QED
      BY <3>3, <3>4
  <2> QED
    BY <2>1, <2>2, <2>3, <2>4 DEF Ledger
<1>3. At(q, "attempt") => \A m : q \notin Succeeded(m)
  BY DEF Succeeded, At
<1>4. CASE PspAnswerLost(q)
  BY <1>2, <1>3, <1>4, TryAgainMoves DEF PspAnswerLost
<1>5. CASE PspCharges(q)
  <2>1. Moves(q) /\ request'[q].method = Method(q)
    BY <1>5 DEF PspCharges, Succeeds, Moves, RequestsTrue, RequestTrue, At, Method, TypeOK,
           PaymentRequest, PaymentPc, stored
  <2> QED
    BY <1>2, <1>3, <1>5, <2>1 DEF PspCharges, Succeeded, Method
<1> QED
  BY <1>1, <1>4, <1>5

\* Recording a success confirms one that was charged, unless the method is offline.
LEMMA RecordInv == ASSUME IInv, NEW q \in PaymentRequests, RecordResult(q) PROVE IInv'
<1> USE DEF IInv, PaymentRequest, PaymentPc
<1>1. /\ At(q, "record") /\ Method(q) \in Methods /\ fare # None
      /\ UNCHANGED <<stored, charges, charged>>
  BY DEF RecordResult, RequestsTrue, RequestTrue, At, Method
<1>2. CASE ~request[q].success
  BY <1>1, <1>2, ReturnInv DEF RecordResult, ledger
<1>3. CASE request[q].success
  <2>1. /\ Moves(q) /\ request'[q].pc = "respond"
        /\ confirmed' = [confirmed EXCEPT ![Method(q)] = @ + 1]
    BY <1>1, <1>3 DEF RecordResult, GoTo, Moves, RequestTrue, TypeOK, Method, stored
  <2>2. TypeOK'
    BY <1>1, <2>1 DEF TypeOK, Moves, stored
  <2>3. RequestsTrue' /\ FaresComputed' /\ ChargedAfterTrip' /\ ChargedTheFare'
    BY <1>1, <2>1, MovesTrue DEF FaresComputed, Ledger, ChargedAfterTrip, ChargedTheFare, stored
  <2>4. SuccessWasCharged'
    <3> SUFFICES ASSUME NEW m \in Methods, m \notin Offline
                 PROVE  confirmed'[m] + Cardinality(Succeeded(m)') <= charges[m]
      BY <1>1 DEF SuccessWasCharged, Ledger
    <3>1. confirmed[m] + Cardinality(Succeeded(m)) <= charges[m]
      BY DEF Ledger, SuccessWasCharged
    <3>2. confirmed[m] \in Nat /\ charges[m] \in Nat /\ Cardinality(Succeeded(m)) \in Nat
      BY RequestsCounted DEF TypeOK, Succeeded
    <3>3. q \notin Succeeded(m)' /\ (q \in Succeeded(m) <=> m = Method(q))
      BY <1>1, <1>3, <2>1 DEF Succeeded, At
    <3>4. CASE m = Method(q)
      <4>1. Succeeded(m)' = Succeeded(m) \ {q} /\ confirmed'[m] = confirmed[m] + 1
        BY <2>1, <3>3, <3>4, MovesSucceeded DEF TypeOK
      <4>2. Cardinality(Succeeded(m) \ {q}) = Cardinality(Succeeded(m)) - 1
        BY <3>3, <3>4, RequestsCounted DEF Succeeded
      <4> QED
        BY <3>1, <3>2, <4>1, <4>2
    <3>5. CASE m # Method(q)
      <4>1. Succeeded(m)' = Succeeded(m) /\ confirmed'[m] = confirmed[m]
        BY <2>1, <3>3, <3>5, MovesSucceeded DEF TypeOK
      <4> QED
        BY <3>1, <4>1
    <3> QED
      BY <3>4, <3>5
  <2> QED
    BY <2>2, <2>3, <2>4 DEF Ledger
<1> QED
  BY <1>2, <1>3

\* Every step keeps the invariant.
LEMMA NextInv == IInv /\ [Next]_vars => IInv'
<1> SUFFICES ASSUME IInv, [Next]_vars PROVE IInv'
  OBVIOUS
<1>1. CASE UNCHANGED vars
  BY <1>1
  DEF vars, stored, ledger, IInv, TypeOK, RequestsTrue, RequestTrue, FaresComputed, Ledger,
      ChargedAfterTrip, ChargedTheFare, SuccessWasCharged, Succeeded, At, Method
<1> QED
  BY <1>1, EndTripInv, LookInv, CheckTripInv, PspInv, RecordInv DEF Next, PaymentStep

\* The invariant holds in every reachable state.
THEOREM Invariance == Spec => []IInv
  BY InitInv, NextInv, PTL DEF Spec

\* The state is well typed: no request calls the PSP more than MAX_RETRIES times.
THEOREM TypeCorrect == Spec => []TypeOK
<1>1. IInv => TypeOK
  BY DEF IInv
<1> QED
  BY <1>1, Invariance, PTL

\* Nobody pays before the trip has ended.
THEOREM NoEarlyCharge == Spec => []ChargedAfterTrip
<1>1. IInv => ChargedAfterTrip
  BY DEF IInv, Ledger
<1> QED
  BY <1>1, Invariance, PTL

\* Every amount that is charged is a fare of the trip, but for a paisa.
THEOREM ChargesAreFares == Spec => []ChargedTheFare
<1>1. IInv => ChargedTheFare
  BY DEF IInv, Ledger
<1> QED
  BY <1>1, Invariance, PTL

\* Every success has a charge of its own.
THEOREM SuccessesCharged == Spec => []SuccessWasCharged
<1>1. IInv => SuccessWasCharged
  BY DEF IInv, Ledger
<1> QED
  BY <1>1, Invariance, PTL

\* From the pricing down to the PSP: with a surge of 1 or more, nobody is charged less
\* than the minimum fare of the tier, but for a paisa.
THEOREM ChargesAreMinimum == Spec => []MinimumCharged
<1>1. IInv => MinimumCharged
  <2> SUFFICES ASSUME IInv, GetSurgeMultiplier(SurgeKey) >= 10, NEW p \in charged
               PROVE  p >= TIER_RATES[Tier].min_fare - 1
    BY DEF MinimumCharged
  <2>1. PICK f \in fares : p \in Paise(f)
    BY DEF IInv, Ledger, ChargedTheFare
  <2>2. PICK t \in Durations : f \in CalculateFare(Tier, Distance, t, GetSurgeMultiplier(SurgeKey))
    BY DEF IInv, FaresComputed
  <2>3. /\ Tier \in Tiers /\ Distance \in Nat /\ t \in Nat
        /\ GetSurgeMultiplier(SurgeKey) \in Nat
    BY PaymentsAssumption, SurgeCapped
  <2> QED
    BY <2>1, <2>2, <2>3, MinimumKept
<1> QED
  BY <1>1, Invariance, PTL

-----------------------------------------------------------------------------
(* Progress: what RequestAnswered rests on besides fairness *)

\* The steps that a request has left at most, each call of the PSP counted as one.
StepsLeft(r) ==
    CASE r.pc = "idle" -> 0
      [] r.pc = "respond" -> 1
      [] r.pc = "record" -> 2
      [] r.pc = "attempt" -> 3 + (MAX_RETRIES - r.attempt)
      [] r.pc = "trip" -> 3 + MAX_RETRIES
      [] r.pc = "lookup" -> 4 + MAX_RETRIES
      [] r.pc = "cache" -> 5 + MAX_RETRIES

\* The request has fewer steps left than before.
Advances(q) ==
    /\ StepsLeft(request'[q]) \in Nat
    /\ StepsLeft(request'[q]) < StepsLeft(request[q])

\* What the steps left are at each point, as facts to cite.
LEMMA StepsRanked ==
    ASSUME NEW r \in PaymentRequest
    PROVE  /\ r.pc = "idle" => StepsLeft(r) = 0
           /\ r.pc = "respond" => StepsLeft(r) = 1
           /\ r.pc = "record" => StepsLeft(r) = 2
           /\ r.pc = "attempt" => /\ StepsLeft(r) = 3 + (MAX_RETRIES - r.attempt)
                                  /\ StepsLeft(r) \in 3 .. 2 + MAX_RETRIES
           /\ r.pc = "trip" => StepsLeft(r) = 3 + MAX_RETRIES
           /\ r.pc = "lookup" => StepsLeft(r) = 4 + MAX_RETRIES
           /\ r.pc = "cache" => StepsLeft(r) = 5 + MAX_RETRIES
           /\ r.pc \in PaymentPc
<1>1. r.attempt \in 1 .. MAX_RETRIES /\ MAX_RETRIES \in Nat /\ r.pc \in PaymentPc
  BY PaymentsAssumption DEF PaymentRequest
<1> QED
  BY <1>1 DEF StepsLeft

\* A request that leaves has no step left.
LEMMA ReturnAdvances ==
    ASSUME TypeOK, NEW q \in PaymentRequests, ~At(q, "idle"), Returns(q)
    PROVE  Advances(q) /\ \A p \in PaymentRequests \ {q} : request'[p] = request[p]
<1>1. /\ request'[q] = IdleRequest /\ request[q] \in PaymentRequest /\ IdleRequest \in PaymentRequest
      /\ \A p \in PaymentRequests \ {q} : request'[p] = request[p]
  BY PaymentsAssumption DEF TypeOK, Returns, IdleRequest, PaymentRequest, PaymentPc
<1>2. StepsLeft(IdleRequest) = 0
  BY DEF StepsLeft, IdleRequest
<1>3. StepsLeft(request[q]) \in Nat \ {0}
  BY <1>1, StepsRanked, PaymentsAssumption DEF At, PaymentPc
<1> QED
  BY <1>1, <1>2, <1>3 DEF Advances

\* Going on to a later point of the handler.
LEMMA GoToAdvances ==
    ASSUME TypeOK, NEW q \in PaymentRequests, NEW pc \in PaymentPc,
           \/ At(q, "cache") /\ pc = "lookup"
           \/ At(q, "lookup") /\ pc \in {"respond", "trip"}
           \/ At(q, "attempt") /\ pc = "record"
           \/ At(q, "record") /\ pc = "respond",
           GoTo(q, pc) \/ (Succeeds(q) /\ pc = "record"),
           request' \in [PaymentRequests -> PaymentRequest]
    PROVE  Advances(q) /\ \A p \in PaymentRequests \ {q} : request'[p] = request[p]
<1>1. request[q] \in PaymentRequest /\ request'[q] \in PaymentRequest
  BY DEF TypeOK
<1>2. MAX_RETRIES \in Nat \ {0}
  BY PaymentsAssumption
<1>3. request'[q].pc = pc /\ \A p \in PaymentRequests \ {q} : request'[p] = request[p]
  BY DEF TypeOK, PaymentRequest, GoTo, Succeeds
<1> QED
  BY <1>1, <1>2, <1>3, StepsRanked DEF Advances, At

\* Each step of a request brings it nearer to its answer, whatever the PSP does.
LEMMA StepAdvances ==
    ASSUME IInv, IInv', NEW q \in PaymentRequests, PaymentStep(q) \/ Abort(q)
    PROVE  Advances(q) /\ \A p \in PaymentRequests \ {q} : request'[p] = request[p]
<1>0. /\ TypeOK /\ request \in [PaymentRequests -> PaymentRequest]
      /\ request' \in [PaymentRequests -> PaymentRequest] /\ MAX_RETRIES \in Nat \ {0}
  BY PaymentsAssumption DEF IInv, TypeOK
<1>1. CASE CheckCache(q)
  <2>1. CASE paymentKey # None
    BY <1>0, <1>1, <2>1, ReturnAdvances DEF CheckCache, At
  <2>2. CASE paymentKey = None
    <3>1. At(q, "cache") /\ GoTo(q, "lookup")
      BY <1>1, <2>2 DEF CheckCache
    <3> QED
      BY <1>0, <3>1, GoToAdvances DEF PaymentPc
  <2> QED
    BY <2>1, <2>2
<1>2. CASE LookUpRow(q)
  <2>1. At(q, "lookup") /\ \E pc \in {"respond", "trip"} : GoTo(q, pc)
    BY <1>2 DEF LookUpRow
  <2> QED
    BY <1>0, <2>1, GoToAdvances DEF PaymentPc
<1>3. CASE CheckTrip(q)
  <2>1. CASE fare = None
    BY <1>0, <1>3, <2>1, ReturnAdvances DEF CheckTrip, At
  <2>2. CASE fare # None
    <3>1. /\ request'[q].pc \in {"record", "attempt"}
          /\ \A p \in PaymentRequests \ {q} : request'[p] = request[p]
      BY <1>0, <1>3, <2>2 DEF CheckTrip, Pay, PaymentRequest
    <3>2. StepsLeft(request[q]) = 3 + MAX_RETRIES
      BY <1>0, <1>3, StepsRanked DEF CheckTrip, At
    <3>3. StepsLeft(request'[q]) \in 2 .. 2 + MAX_RETRIES
      BY <1>0, <3>1, StepsRanked
    <3> QED
      BY <1>0, <3>1, <3>2, <3>3 DEF Advances
  <2> QED
    BY <2>1, <2>2
<1>4. ASSUME At(q, "attempt"), TryAgain(q)
      PROVE  Advances(q) /\ \A p \in PaymentRequests \ {q} : request'[p] = request[p]
  <2>1. CASE request[q].attempt < MAX_RETRIES
    <3>1. /\ request'[q].pc = "attempt" /\ request'[q].attempt = request[q].attempt + 1
          /\ \A p \in PaymentRequests \ {q} : request'[p] = request[p]
      BY <1>0, <1>4, <2>1 DEF TryAgain, At, PaymentRequest
    <3>2. request[q].attempt \in Nat
      BY <1>0 DEF PaymentRequest
    <3>3. /\ StepsLeft(request[q]) = 3 + (MAX_RETRIES - request[q].attempt)
          /\ StepsLeft(request'[q]) = 3 + (MAX_RETRIES - request'[q].attempt)
          /\ StepsLeft(request'[q]) \in 3 .. 2 + MAX_RETRIES
      BY <1>0, <1>4, <3>1, StepsRanked DEF At
    <3> QED
      BY <1>0, <3>1, <3>2, <3>3 DEF Advances
  <2>2. CASE ~(request[q].attempt < MAX_RETRIES)
    BY <1>0, <1>4, <2>2, GoToAdvances DEF TryAgain, PaymentPc
  <2> QED
    BY <2>1, <2>2
<1>5. CASE PspFails(q) \/ PspAnswerLost(q)
  BY <1>4, <1>5 DEF PspFails, PspAnswerLost
<1>6. CASE PspCharges(q)
  BY <1>0, <1>6, GoToAdvances DEF PspCharges, PaymentPc
<1>7. CASE RecordResult(q)
  <2>1. CASE request[q].success
    <3>1. At(q, "record") /\ GoTo(q, "respond")
      BY <1>7, <2>1 DEF RecordResult
    <3> QED
      BY <1>0, <3>1, GoToAdvances DEF PaymentPc
  <2>2. CASE ~request[q].success
    BY <1>0, <1>7, <2>2, ReturnAdvances DEF RecordResult, At
  <2> QED
    BY <2>1, <2>2
<1>8. CASE Respond(q) \/ Abort(q)
  BY <1>0, <1>8, ReturnAdvances DEF Respond, Abort, At
<1> QED
  BY <1>1, <1>2, <1>3, <1>5, <1>6, <1>7, <1>8 DEF PaymentStep

\* Whatever the PSP answers, a request has fewer steps left after each of its own steps,
\* and those of others leave it alone: the retry loop ends.  (PaymentRegistry.process)
THEOREM RequestsMoveOn ==
    Spec => [][\A q \in PaymentRequests :
                   At(q, "idle") \/ request'[q] = request[q] \/ Advances(q)]_vars
<1> DEFINE MoveOn == \A q \in PaymentRequests :
                         At(q, "idle") \/ request'[q] = request[q] \/ Advances(q)
<1>1. IInv /\ IInv' /\ [Next]_vars => [MoveOn]_vars
  <2> SUFFICES ASSUME IInv, IInv', Next, NEW q \in PaymentRequests,
                      ~At(q, "idle"), request'[q] # request[q]
               PROVE  Advances(q)
    OBVIOUS
  <2>1. ASSUME NEW p \in PaymentRequests, NEW m \in Methods, ReceivePayment(p, m)
        PROVE  FALSE
    BY <2>1 DEF ReceivePayment, At, IInv, TypeOK
  <2>2. ASSUME NEW p \in PaymentRequests, PaymentStep(p) \/ Abort(p)
        PROVE  Advances(q)
    BY <2>2, StepAdvances
  <2>3. ~EndTrip
    BY DEF EndTrip
  <2> QED
    BY <2>1, <2>2, <2>3 DEF Next
<1> QED
  BY <1>1, Invariance, PTL DEF Spec

\* A request that advances has no more calls left than before, and fewer after an attempt.
LEMMA FewerCallsLeft ==
    ASSUME NEW old \in PaymentRequest, NEW new \in PaymentRequest,
           StepsLeft(new) < StepsLeft(old)
    PROVE  /\ CallsLeft(new) <= CallsLeft(old)
           /\ old.pc = "attempt" => CallsLeft(new) < CallsLeft(old)
<1>1. MAX_RETRIES \in Nat \ {0}
  BY PaymentsAssumption
<1>2. ASSUME NEW r \in PaymentRequest
      PROVE  /\ r.pc \in {"cache", "lookup", "trip"} => CallsLeft(r) = MAX_RETRIES
             /\ r.pc = "attempt" => /\ CallsLeft(r) = StepsLeft(r) - 2
                                    /\ StepsLeft(r) \in 3 .. 2 + MAX_RETRIES
             /\ r.pc \in {"idle", "record", "respond"} => CallsLeft(r) = 0
             /\ r.pc \in PaymentPc
  <2>1. r.attempt \in 1 .. MAX_RETRIES
    BY DEF PaymentRequest
  <2> QED
    BY <1>1, <2>1, StepsRanked DEF CallsLeft
<1>3. CASE old.pc \in {"cache", "lookup", "trip"}
  BY <1>1, <1>2, <1>3 DEF PaymentPc
<1>4. CASE old.pc = "attempt"
  <2>1. StepsLeft(old) \in 3 .. 2 + MAX_RETRIES /\ CallsLeft(old) = StepsLeft(old) - 2
    BY <1>2, <1>4
  <2>2. new.pc \notin {"cache", "lookup", "trip"}
    BY <1>1, <2>1, StepsRanked
  <2> QED
    BY <1>1, <1>2, <2>1, <2>2 DEF PaymentPc
<1>5. CASE old.pc \in {"idle", "record", "respond"}
  <2>1. StepsLeft(old) \in 0 .. 2
    BY <1>5, StepsRanked
  <2>2. new.pc \in {"idle", "record", "respond"}
    BY <1>1, <1>2, <2>1, StepsRanked DEF PaymentPc
  <2> QED
    BY <1>2, <1>5, <2>2
<1> QED
  BY <1>2, <1>3, <1>4, <1>5 DEF PaymentPc

\* Every charge costs its request one of its MAX_RETRIES calls, and no request gets one
\* back, whatever the PSP does.  (PaymentRegistry.process)
THEOREM ChargesCounted == Spec => ChargesCostCalls
<1> DEFINE Kept == \A q \in PaymentRequests :
                       At(q, "idle") \/ CallsLeft(request'[q]) <= CallsLeft(request[q])
           Spent == \A m \in Methods : charges'[m] # charges[m] =>
                        /\ charges'[m] = charges[m] + 1
                        /\ \E q \in PaymentRequests :
                               Method(q) = m /\ CallsLeft(request'[q]) < CallsLeft(request[q])
<1>1. ASSUME IInv, IInv' PROVE \A q \in PaymentRequests :
                                   request[q] \in PaymentRequest /\ request'[q] \in PaymentRequest
  BY <1>1 DEF IInv, TypeOK
<1>2. ASSUME IInv, IInv', Next PROVE Kept
  <2> SUFFICES ASSUME NEW q \in PaymentRequests, ~At(q, "idle")
               PROVE  CallsLeft(request'[q]) <= CallsLeft(request[q])
    OBVIOUS
  <2>1. CASE request'[q] = request[q]
    <3>1. CallsLeft(request[q]) \in Int
      <4>1. request[q].attempt \in Int /\ MAX_RETRIES \in Int
        BY <1>1, <1>2, PaymentsAssumption DEF PaymentRequest
      <4> QED
        BY <4>1 DEF CallsLeft
    <3> QED
      BY <2>1, <3>1
  <2>2. ASSUME NEW p \in PaymentRequests, NEW m \in Methods, ReceivePayment(p, m)
        PROVE  request'[q] = request[q]
    BY <1>2, <2>2 DEF ReceivePayment, At, IInv, TypeOK
  <2>3. ASSUME NEW p \in PaymentRequests, PaymentStep(p) \/ Abort(p)
        PROVE  CallsLeft(request'[q]) <= CallsLeft(request[q]) \/ request'[q] = request[q]
    <3>1. Advances(p) /\ \A x \in PaymentRequests \ {p} : request'[x] = request[x]
      BY <1>2, <2>3, StepAdvances
    <3> QED
      BY <1>1, <1>2, <3>1, FewerCallsLeft DEF Advances
  <2>4. CASE EndTrip
    BY <2>1, <2>4 DEF EndTrip
  <2> QED
    BY <1>2, <2>1, <2>2, <2>3, <2>4 DEF Next
<1>3. ASSUME IInv, IInv', Next PROVE Spent
  <2> SUFFICES ASSUME NEW m \in Methods, charges'[m] # charges[m]
               PROVE  /\ charges'[m] = charges[m] + 1
                      /\ \E q \in PaymentRequests :
                             Method(q) = m /\ CallsLeft(request'[q]) < CallsLeft(request[q])
    OBVIOUS
  <2>1. PICK q \in PaymentRequests : PspCharges(q) \/ PspAnswerLost(q)
    BY <1>3 DEF Next, PaymentStep, EndTrip, ReceivePayment, CheckCache, LookUpRow, CheckTrip,
       PspFails, RecordResult, Respond, Abort, ledger
  <2>2. At(q, "attempt") /\ Charge(q) /\ UNCHANGED <<stored, confirmed>>
    BY <2>1 DEF PspCharges, PspAnswerLost
  <2>3. /\ charges'[Method(q)] = charges[Method(q)] + 1
        /\ \A o \in Methods \ {Method(q)} : charges'[o] = charges[o]
    BY <1>3, <2>2, ChargeInv
  <2>4. Advances(q)
    BY <1>3, <2>1, StepAdvances DEF PaymentStep
  <2>5. CallsLeft(request'[q]) < CallsLeft(request[q])
    BY <1>1, <1>3, <2>2, <2>4, FewerCallsLeft DEF Advances, At
  <2> QED
    BY <2>3, <2>5
<1> DEFINE Costs == /\ Kept
                    /\ Spent
<1>4. IInv /\ IInv' /\ [Next]_vars => [Costs]_vars
  BY <1>2, <1>3
<1> HIDE DEF Costs
<1>5. Spec => [][Costs]_vars
  BY <1>4, Invariance, PTL DEF Spec
<1> QED
  BY <1>5 DEF Costs, Kept, Spent, ChargesCostCalls
=============================================================================

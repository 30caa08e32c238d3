------------------------------ MODULE Payments -------------------------------
(***************************************************************************)
(* trigger_payment: POST /v1/payments for one trip and one paying rider,   *)
(* and PaymentRegistry.process, which calls the payment provider (PSP).    *)
(*                                                                         *)
(* One transaction spans the whole request, the calls of the PSP and the   *)
(* pauses between them included; get_db commits when the handler returns   *)
(* and rolls back when it raises.  A step ends at an await.  Time is left  *)
(* out: a retry pause is the boundary between two attempts.                *)
(*                                                                         *)
(* The PSP is external.  What matters of a call is whether the rider was   *)
(* charged and whether the handler learns of it: an answer may be lost     *)
(* after the charge (a timeout, an unreadable body), and any other failure *)
(* charges nothing.                                                        *)
(***************************************************************************)
EXTENDS Fares, FiniteSets

CONSTANTS
    PaymentRequests,    \* slots for concurrent POST /v1/payments
    Methods,            \* supported payment methods
    Offline,            \* those whose handler is_offline: CASH
    MAX_RETRIES,        \* calls of the PSP per request
    MaxPaid,            \* bound: no new request by a method once it has paid this often
    Tier, Distance,     \* of the ride
    Durations,          \* of the trip, as end_trip may measure it
    SurgeKey,           \* what surge:zone held when the ride was created
    None

ASSUME PaymentsAssumption ==
    /\ Offline \subseteq Methods
    /\ MAX_RETRIES \in Nat \ {0} /\ MaxPaid \in Nat /\ IsFiniteSet(PaymentRequests)
    /\ None \notin Methods /\ None \notin Int
    /\ Tier \in Tiers /\ Distance \in Nat /\ Durations \subseteq Nat

VARIABLES
    fare,               \* trips.actual_fare, None until the trip is COMPLETED
    payments,           \* the methods with a committed payments row
    paymentKey,         \* the method cached in payment:{trip_id}, or None
    request,            \* what each request is doing
    charges,            \* how often the PSP has charged the rider, by method
    confirmed,          \* how often a handler has recorded a success, by method
    fares, charged      \* history: the fares committed, the paise charged by the PSP

stored == <<fare, fares, payments, paymentKey>>
ledger == <<charges, confirmed, charged>>
vars == <<stored, request, ledger>>

PaymentPc == {"idle", "cache", "lookup", "trip", "attempt", "record", "respond"}
PaymentRequest == [pc : PaymentPc, method : Methods \cup {None},
                   attempt : 1 .. MAX_RETRIES, success : BOOLEAN, amount : Int \cup {None}]
IdleRequest == [pc |-> "idle", method |-> None, attempt |-> 1, success |-> FALSE,
                amount |-> None]

TypeOK ==
    /\ fare \in Int \cup {None}
    /\ payments \subseteq Methods
    /\ paymentKey \in Methods \cup {None}
    /\ request \in [PaymentRequests -> PaymentRequest]
    /\ charges \in [Methods -> Nat]
    /\ confirmed \in [Methods -> Nat]
    /\ fares \subseteq Int /\ charged \subseteq Int

Init ==
    /\ fare = None /\ fares = {} /\ charged = {}
    /\ payments = {} /\ paymentKey = None
    /\ request = [q \in PaymentRequests |-> IdleRequest]
    /\ charges = [m \in Methods |-> 0]
    /\ confirmed = [m \in Methods |-> 0]

At(q, pc) == request[q].pc = pc
GoTo(q, pc) == request' = [request EXCEPT ![q].pc = pc]
Returns(q) == request' = [request EXCEPT ![q] = IdleRequest]
Method(q) == request[q].method
Succeeds(q) == request' = [request EXCEPT ![q].pc = "record", ![q].success = TRUE]

\* end_trip commits; two that overlap may both do so, each with its own duration.
EndTrip ==
    /\ \E t \in Durations :
           fare' \in CalculateFare(Tier, Distance, t, GetSurgeMultiplier(SurgeKey))
    /\ fares' = fares \cup {fare'}
    /\ UNCHANGED <<payments, paymentKey, request, ledger>>

ReceivePayment(q, m) ==
    /\ At(q, "idle")
    /\ charges[m] < MaxPaid /\ confirmed[m] < MaxPaid
    /\ request' = [request EXCEPT ![q].pc = "cache", ![q].method = m]
    /\ UNCHANGED <<stored, ledger>>

\* The cached payment of the trip answers the request, whatever its method.
CheckCache(q) ==
    /\ At(q, "cache")
    /\ IF paymentKey # None THEN Returns(q) ELSE GoTo(q, "lookup")
    /\ UNCHANGED <<stored, ledger>>

\* A committed row of this trip, rider and method answers it too, once cached.
LookUpRow(q) ==
    /\ At(q, "lookup")
    /\ GoTo(q, IF Method(q) \in payments THEN "respond" ELSE "trip")
    /\ UNCHANGED <<stored, ledger>>

\* Where a payment goes that has read the amount a.
Pay(q, a) ==
    request' = [request EXCEPT ![q].amount = a, ![q].success = (Method(q) \in Offline),
                    ![q].pc = IF Method(q) \in Offline THEN "record" ELSE "attempt"]

\* The status of the trip is not looked at.
CheckNoTrip(q) ==
    /\ At(q, "trip")
    /\ Pay(q, IF fare = None THEN TIER_RATES[Tier].min_fare ELSE fare)
    /\ UNCHANGED <<stored, ledger>>

\* The estimate of the ride is paid, at the speed that estimate_fare assumes.
PayEstimate(q) ==
    /\ At(q, "trip")
    /\ IF fare = None THEN Returns(q)
       ELSE \E a \in CalculateFare(Tier, Distance, Distance, GetSurgeMultiplier(SurgeKey)) :
                Pay(q, a)
    /\ UNCHANGED <<stored, ledger>>

\* 409 unless the trip is COMPLETED.  The new row, PENDING and then PROCESSING, is
\* seen by nobody before the commit.  An offline method succeeds with no PSP call.
CheckTrip(q) ==
    /\ At(q, "trip")
    /\ IF fare = None THEN Returns(q) ELSE Pay(q, fare)
    /\ UNCHANGED <<stored, ledger>>

Charge(q) ==
    /\ charges' = [charges EXCEPT ![Method(q)] = @ + 1]
    /\ \E p \in Paise(request[q].amount) : charged' = charged \cup {p}

\* One attempt too many.
TryOnceMore(q) ==
    IF request[q].attempt <= MAX_RETRIES
    THEN request' = [request EXCEPT ![q].attempt = @ + 1]
    ELSE GoTo(q, "record")

\* A retry loop that starts over.
TryForever(q) ==
    request' = [request EXCEPT ![q].attempt = IF @ < MAX_RETRIES THEN @ + 1 ELSE 1]

\* A refusal, an error or a lost answer: pause and try again, MAX_RETRIES times in all.
TryAgain(q) ==
    IF request[q].attempt < MAX_RETRIES
    THEN request' = [request EXCEPT ![q].attempt = @ + 1]
    ELSE GoTo(q, "record")

PspCharges(q) ==
    /\ At(q, "attempt")
    /\ Charge(q)
    /\ Succeeds(q)
    /\ UNCHANGED <<stored, confirmed>>

\* A lost answer is asked for again at once, and not counted.
AskAgain(q) ==
    /\ At(q, "attempt")
    /\ Charge(q)
    /\ UNCHANGED <<request, stored, confirmed>>

PspAnswerLost(q) ==
    /\ At(q, "attempt")
    /\ Charge(q)
    /\ TryAgain(q)
    /\ UNCHANGED <<stored, confirmed>>

\* Any answer of the PSP is taken for a success.
AnyAnswerSucceeds(q) ==
    /\ At(q, "attempt")
    /\ Succeeds(q)
    /\ UNCHANGED <<stored, ledger>>

PspFails(q) ==
    /\ At(q, "attempt")
    /\ TryAgain(q)
    /\ UNCHANGED <<stored, ledger>>

\* The row is updated to COMPLETED, or to FAILED: then the handler raises 502 and
\* get_db rolls the row back.
RecordResult(q) ==
    /\ At(q, "record")
    /\ IF request[q].success
       THEN /\ GoTo(q, "respond")
            /\ confirmed' = [confirmed EXCEPT ![Method(q)] = @ + 1]
       ELSE Returns(q) /\ UNCHANGED confirmed
    /\ UNCHANGED <<stored, charges, charged>>

\* cache_payment passes response.model_dump() to json.dumps: the ids in it are
\* uuid.UUID objects, which json.dumps does not take.
PayloadSerializable == FALSE

\* Cache the response, return it and commit; a handler that raises is rolled back.
Respond(q) ==
    /\ At(q, "respond")
    /\ IF PayloadSerializable
       THEN /\ paymentKey' = Method(q)
            /\ payments' = payments \cup {Method(q)}
       ELSE UNCHANGED <<payments, paymentKey>>
    /\ Returns(q)
    /\ UNCHANGED <<fare, fares, ledger>>

\* A store fails or the server dies: PostgreSQL rolls back, a charge remains.
Abort(q) ==
    /\ ~At(q, "idle")
    /\ Returns(q)
    /\ UNCHANGED <<stored, ledger>>

PaymentStep(q) ==
    \/ CheckCache(q) \/ LookUpRow(q) \/ CheckTrip(q)
    \/ PspCharges(q) \/ PspFails(q) \/ PspAnswerLost(q)
    \/ RecordResult(q) \/ Respond(q)

Next ==
    \/ EndTrip
    \/ \E q \in PaymentRequests :
           PaymentStep(q) \/ Abort(q) \/ \E m \in Methods : ReceivePayment(q, m)

Spec == Init /\ [][Next]_vars

\* The event loop runs every handler, and httpx gives up on a silent PSP after 8 s.
FairSpec == Spec /\ \A q \in PaymentRequests : WF_vars(PaymentStep(q))

-----------------------------------------------------------------------------
\* The PSP charges nobody, and no success is recorded, for a trip that has not been
\* committed as COMPLETED, however requests and end_trip interleave.  (trigger_payment)
ChargedAfterTrip ==
    \A m \in Methods : charges[m] + confirmed[m] > 0 => fare # None

\* Every charge is a fare that end_trip has committed, short of it by at most one paisa:
\* a fare replaced between the read and the charge is still one of the trip's, and what
\* rounding and truncation lose does not add up over retries.  (end_trip, process)
ChargedTheFare == \A p \in charged : \E f \in fares : p \in Paise(f)

\* Nobody pays less than the minimum fare of the tier, but for that paisa, unless the
\* surge of the zone is below 1, which get_surge_multiplier does not exclude.
MinimumCharged ==
    GetSurgeMultiplier(SurgeKey) >= 10 =>
        \A p \in charged : p >= TIER_RATES[Tier].min_fare - 1

\* The requests about to record a success of a method.
Succeeded(m) == {q \in PaymentRequests :
                     At(q, "record") /\ Method(q) = m /\ request[q].success}

\* A success that is recorded, or about to be, stands for a charge of its own: retries
\* after lost answers may charge more than is reported, never less.  Offline methods
\* charge nothing.  (PaymentRegistry.process)
SuccessWasCharged ==
    \A m \in Methods :
        IF m \in Offline THEN charges[m] = 0
        ELSE confirmed[m] + Cardinality(Succeeded(m)) <= charges[m]

\* The calls of the PSP that a request may still make.
CallsLeft(r) ==
    CASE r.pc \in {"cache", "lookup", "trip"} -> MAX_RETRIES
      [] r.pc = "attempt" -> MAX_RETRIES - r.attempt + 1
      [] OTHER -> 0

\* Every charge costs its request one of the MAX_RETRIES calls it came with, and no request
\* gets a call back: however many answers of the PSP are lost after the charge, a request
\* charges the rider MAX_RETRIES times at most.  (PaymentRegistry.process)
ChargesCostCalls ==
    [][/\ \A q \in PaymentRequests :
              At(q, "idle") \/ CallsLeft(request'[q]) <= CallsLeft(request[q])
       /\ \A m \in Methods : charges'[m] # charges[m] =>
              /\ charges'[m] = charges[m] + 1
              /\ \E q \in PaymentRequests :
                     Method(q) = m /\ CallsLeft(request'[q]) < CallsLeft(request[q])]_vars

\* Every request is answered, however often the PSP fails.
RequestAnswered ==
    \A q \in PaymentRequests : ~At(q, "idle") ~> At(q, "idle")

\* README, payment idempotency: once a payment of the trip has succeeded, it is cached
\* (and stored), and nobody pays for the trip again.
PaidOnce == \A m \in Methods : confirmed[m] <= 1
=============================================================================

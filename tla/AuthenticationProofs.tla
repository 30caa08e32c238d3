------------------------- MODULE AuthenticationProofs -------------------------
(***************************************************************************)
(* Proofs about modules Schema and Authentication, for every set of keys,  *)
(* requests and bootstraps, every time to live and delay.                  *)
(***************************************************************************)
EXTENDS Authentication, TLAPS

\* A request about to cache an actor found it in the tables after it came: if the key
\* is gone, it went later.
StoresRecent ==
    \A q \in AuthRequests : At(q, "store") =>
        \/ auth[q].key \in Valid
        \/ goneAt[auth[q].key] # None /\ auth[q].since <= goneAt[auth[q].key]

\* An entry was written in the past; that of a key that is gone not long after it went.
EntriesRecent ==
    \A k \in Keys : cache[k] # None =>
        /\ cache[k] <= clock + CACHE_TTL
        /\ k \in Valid \/ /\ goneAt[k] # None
                          /\ cache[k] <= goneAt[k] + CACHE_TTL + MaxDelay

\* A key in the tables all along is in them, and in drivers once riders was read in vain.
PresentFound ==
    \A q \in AuthRequests : ~At(q, "idle") /\ ~auth[q].absent =>
        /\ auth[q].key \in Valid
        /\ At(q, "drivers") => auth[q].key \in drivers
        /\ ~At(q, "refused")

IInv == TypeOK /\ VersionTellsSchema /\ StoresRecent /\ EntriesRecent /\ PresentFound

\* At the start there are no tables and no requests.
LEMMA InitInv == Init => IInv
  BY AuthAssumption
  DEF Init, SchemaInit, IInv, TypeOK, SchemaTypeOK, VersionTellsSchema, StoresRecent, EntriesRecent,
      PresentFound, Schemas, Boot, Valid, Time, Auth, IdleAuth, At

\* Time goes on while nobody is later than MaxDelay.
LEMMA TickInv == IInv /\ Tick => IInv'
<1> SUFFICES ASSUME IInv, Tick PROVE IInv'
  OBVIOUS
<1> USE AuthAssumption DEF IInv, Tick, schemaVars
<1>1. TypeOK'
  <2>1. SchemaTypeOK' /\ clock' \in Time
    BY DEF TypeOK, SchemaTypeOK, Time
  <2>2. ASSUME NEW q \in AuthRequests, auth[q].pc # "idle"
        PROVE  auth[q].key \in Keys /\ auth[q].since \in clock' - MaxDelay .. clock'
    BY <2>2 DEF TypeOK, Time, At
  <2> QED
    BY <2>1, <2>2 DEF TypeOK
<1>2. VersionTellsSchema' /\ StoresRecent' /\ PresentFound'
  BY DEF VersionTellsSchema, StoresRecent, PresentFound, Valid, At
<1>3. EntriesRecent'
  BY DEF EntriesRecent, Valid, TypeOK, Time
<1> QED
  BY <1>1, <1>2, <1>3

\* A request takes one step, and neither tables nor cache change.
LEMMA RequestMoves ==
    ASSUME IInv, NEW q \in AuthRequests, UNCHANGED <<schemaVars, clock, cache, goneAt>>,
           auth' \in [AuthRequests -> Auth], \A p \in AuthRequests \ {q} : auth'[p] = auth[p],
           auth'[q].pc # "idle" =>
               /\ auth'[q].key \in Keys /\ auth'[q].since \in clock - MaxDelay .. clock
               /\ ~auth'[q].absent => auth'[q].key \in Valid
               /\ auth'[q].pc = "store" => auth'[q].key \in Valid
               /\ auth'[q].pc = "drivers" /\ ~auth'[q].absent => auth'[q].key \in drivers
               /\ auth'[q].pc = "refused" => auth'[q].absent
    PROVE  IInv'
<1> USE DEF IInv, schemaVars
<1>1. TypeOK'
  BY DEF TypeOK, SchemaTypeOK
<1>2. VersionTellsSchema' /\ EntriesRecent'
  BY DEF VersionTellsSchema, EntriesRecent, Valid
<1>3. StoresRecent'
  BY DEF StoresRecent, Valid, At
<1>4. PresentFound'
  BY DEF PresentFound, Valid, At
<1> QED
  BY <1>1, <1>2, <1>3, <1>4

\* Coming in, looking up and leaving.
LEMMA LookUpInv ==
    ASSUME IInv, NEW q \in AuthRequests,
           \/ \E k \in Keys : MissCache(q, k)
           \/ LookUpRider(q) \/ LookUpDriver(q) \/ Refuse(q) \/ AuthFails(q)
    PROVE  IInv'
<1> USE AuthAssumption
<1>1. ASSUME NEW k \in Keys, MissCache(q, k) PROVE IInv'
  <2> DEFINE a == [pc |-> "riders", key |-> k, since |-> clock, absent |-> k \notin Valid]
  <2>1. auth' = [auth EXCEPT ![q] = a] /\ UNCHANGED <<schemaVars, clock, cache, goneAt>>
    BY <1>1 DEF MissCache
  <2>2. a \in Auth /\ clock \in clock - MaxDelay .. clock
    BY DEF Auth, IInv, TypeOK, Time
  <2>3. auth' \in [AuthRequests -> Auth] /\ auth'[q] = a
        /\ \A p \in AuthRequests \ {q} : auth'[p] = auth[p]
    BY <2>1, <2>2 DEF IInv, TypeOK
  <2> QED
    BY <2>1, <2>2, <2>3, RequestMoves
<1>2. ASSUME NEW pc \in {"store", "drivers", "refused"}, GoTo(q, pc), auth[q].pc # "idle",
             UNCHANGED <<schemaVars, clock, cache, goneAt>>,
             pc = "store" => auth[q].key \in Valid,
             pc = "drivers" /\ ~auth[q].absent => auth[q].key \in drivers,
             pc = "refused" => auth[q].absent
      PROVE  IInv'
  <2>1. /\ auth' \in [AuthRequests -> Auth]
        /\ \A p \in AuthRequests \ {q} : auth'[p] = auth[p]
        /\ auth'[q].pc = pc /\ auth'[q].key = auth[q].key
        /\ auth'[q].since = auth[q].since /\ auth'[q].absent = auth[q].absent
    BY <1>2 DEF GoTo, IInv, TypeOK, Auth
  <2>2. /\ auth[q].key \in Keys /\ auth[q].since \in clock - MaxDelay .. clock
        /\ ~auth[q].absent => auth[q].key \in Valid
    BY <1>2 DEF IInv, TypeOK, PresentFound, At
  <2> QED
    BY <1>2, <2>1, <2>2, RequestMoves
<1>3. CASE LookUpRider(q)
  <2>1. At(q, "riders") /\ UNCHANGED <<schemaVars, clock, cache, goneAt>>
    BY <1>3 DEF LookUpRider
  <2>2. CASE auth[q].key \in riders
    BY <1>2, <1>3, <2>1, <2>2 DEF LookUpRider, At, Valid
  <2>3. CASE auth[q].key \notin riders
    <3>1. ~auth[q].absent => auth[q].key \in drivers
      BY <2>1, <2>3 DEF IInv, PresentFound, Valid, At
    <3> QED
      BY <1>2, <1>3, <2>1, <2>3, <3>1 DEF LookUpRider, At
  <2> QED
    BY <2>2, <2>3
<1>4. CASE LookUpDriver(q)
  <2>1. At(q, "drivers") /\ UNCHANGED <<schemaVars, clock, cache, goneAt>>
    BY <1>4 DEF LookUpDriver
  <2>2. CASE auth[q].key \in drivers
    BY <1>2, <1>4, <2>1, <2>2 DEF LookUpDriver, At, Valid
  <2>3. CASE auth[q].key \notin drivers
    <3>1. auth[q].absent
      BY <2>1, <2>3 DEF IInv, PresentFound, At
    <3> QED
      BY <1>2, <1>4, <2>1, <2>3, <3>1 DEF LookUpDriver, At
  <2> QED
    BY <2>2, <2>3
<1>5. CASE Refuse(q) \/ AuthFails(q)
  <2>1. auth' = [auth EXCEPT ![q] = IdleAuth] /\ UNCHANGED <<schemaVars, clock, cache, goneAt>>
    BY <1>5 DEF Refuse, AuthFails, Done
  <2>2. IdleAuth \in Auth /\ IdleAuth.pc = "idle"
    BY DEF IdleAuth, Auth
  <2>3. auth' \in [AuthRequests -> Auth] /\ auth'[q].pc = "idle"
        /\ \A p \in AuthRequests \ {q} : auth'[p] = auth[p]
    BY <2>1, <2>2 DEF IInv, TypeOK
  <2> QED
    BY <2>1, <2>3, RequestMoves
<1> QED
  BY <1>1, <1>3, <1>4, <1>5

\* An entry that is written is no younger than the last sight of the key in the tables,
\* but for the delay of the request.
LEMMA StoreInv == ASSUME IInv, NEW q \in AuthRequests, StoreActor(q) PROVE IInv'
<1> USE AuthAssumption DEF IInv
<1> DEFINE k == auth[q].key
<1>1. /\ At(q, "store") /\ UNCHANGED <<schemaVars, clock, goneAt>>
      /\ auth' = [auth EXCEPT ![q] = IdleAuth]
      /\ cache' = [cache EXCEPT ![k] = clock + CACHE_TTL]
  BY DEF StoreActor, Done
<1>2. k \in Keys /\ auth[q].since \in clock - MaxDelay .. clock
  BY <1>1 DEF TypeOK, At
<1>3. IdleAuth \in Auth /\ IdleAuth.pc = "idle"
  BY DEF IdleAuth, Auth
<1>4. auth' \in [AuthRequests -> Auth] /\ auth'[q].pc = "idle"
      /\ \A p \in AuthRequests \ {q} : auth'[p] = auth[p]
  BY <1>1, <1>3 DEF TypeOK
<1>5. TypeOK'
  BY <1>1, <1>2, <1>4 DEF TypeOK, SchemaTypeOK, schemaVars, Time
<1>6. EntriesRecent'
  <2>1. k \in Valid \/ (goneAt[k] # None /\ auth[q].since <= goneAt[k])
    BY <1>1 DEF StoresRecent
  <2>2. goneAt[k] \in Time \cup {None} /\ clock \in Time /\ auth[q].since \in Int
    BY <1>2 DEF TypeOK, Time
  <2>3. k \in Valid \/ (goneAt[k] # None /\ clock + CACHE_TTL <= goneAt[k] + CACHE_TTL + MaxDelay)
    BY <1>2, <2>1, <2>2 DEF Time
  <2>4. clock + CACHE_TTL <= clock + CACHE_TTL
    BY <2>2 DEF Time
  <2>5. cache'[k] = clock + CACHE_TTL /\ \A x \in Keys \ {k} : cache'[x] = cache[x]
    BY <1>1, <1>2 DEF TypeOK
  <2>6. clock' = clock /\ goneAt' = goneAt /\ Valid' = Valid
    BY <1>1 DEF schemaVars, Valid
  <2> QED
    BY <2>3, <2>4, <2>5, <2>6 DEF EntriesRecent
<1>7. StoresRecent' /\ PresentFound' /\ VersionTellsSchema'
  BY <1>1, <1>4 DEF StoresRecent, PresentFound, VersionTellsSchema, schemaVars, Valid, At
<1> QED
  BY <1>5, <1>6, <1>7

-----------------------------------------------------------------------------
(* Migrations, bootstraps and revocations *)

\* A change of the tables keeps their types and what the version says of them.  A key
\* that was in drivers alone leaves the tables when it leaves drivers.
LEMMA SchemaInv ==
    ASSUME SchemaTypeOK, VersionTellsSchema, None \notin Schemas,
           SchemaNext \/ \E k \in Keys : Revoke(k)
    PROVE  /\ SchemaTypeOK' /\ VersionTellsSchema'
           /\ \A k \in drivers : k \in Valid' => k \in drivers'
<1> USE DEF SchemaTypeOK, VersionTellsSchema, Valid, Schemas, Boot
<1>1. ASSUME NEW b \in Bootstraps, CheckTables(b) \/ CreateAll(b) \/ InsertSamples(b) \/ EndBoot(b)
      PROVE  /\ SchemaTypeOK' /\ VersionTellsSchema'
             /\ \A k \in drivers : k \in Valid' => k \in drivers'
  <2>1. CASE CheckTables(b)
    BY <2>1 DEF CheckTables, Booting
  <2>2. CASE CreateAll(b)
    BY <2>2 DEF CreateAll, Booting
  <2>3. CASE InsertSamples(b)
    BY <2>3 DEF InsertSamples, Booting
  <2>4. CASE EndBoot(b)
    BY <2>4 DEF EndBoot, Booting
  <2> QED
    BY <1>1, <2>1, <2>2, <2>3, <2>4
<1>2. ASSUME NEW w \in 1 .. 2, Upgrade(w)
      PROVE  /\ SchemaTypeOK' /\ VersionTellsSchema'
             /\ \A k \in drivers : k \in Valid' => k \in drivers'
  <2>1. /\ version < w /\ version' = w /\ schema' = Upgraded(version, w) /\ schema' # None
        /\ UNCHANGED <<riders, drivers, issued, boot>>
    BY <1>2 DEF Upgrade
  <2>2. CASE w = 1
    BY <2>1, <2>2 DEF Upgraded
  <2>3. CASE w = 2
    BY <2>1, <2>3 DEF Upgraded
  <2> QED
    BY <2>2, <2>3
<1>3. CASE Downgrade \/ DowngradeToBase
  BY <1>3 DEF Downgrade, DowngradeToBase
<1>4. ASSUME NEW k \in Keys, Revoke(k)
      PROVE  /\ SchemaTypeOK' /\ VersionTellsSchema'
             /\ \A x \in drivers : x \in Valid' => x \in drivers'
  BY <1>4 DEF Revoke
<1> QED
  BY <1>1, <1>2, <1>3, <1>4 DEF SchemaNext

\* When tables change, the keys that leave are noted at the present time.
LEMMA TablesInv == IInv /\ TablesChange => IInv'
<1> SUFFICES ASSUME IInv, TablesChange PROVE IInv'
  OBVIOUS
<1> USE AuthAssumption DEF IInv
<1>1. /\ SchemaTypeOK' /\ VersionTellsSchema'
      /\ \A k \in drivers : k \in Valid' => k \in drivers'
  BY SchemaInv DEF TablesChange, TypeOK
<1>2. /\ goneAt' = [k \in Keys |-> IF k \in Valid /\ k \notin Valid' THEN clock ELSE goneAt[k]]
      /\ clock' = clock /\ cache' = cache
  BY DEF TablesChange
<1>3. ASSUME NEW q \in AuthRequests
      PROVE  /\ auth'[q] \in Auth /\ auth'[q].pc = auth[q].pc /\ auth'[q].key = auth[q].key
             /\ auth'[q].since = auth[q].since
             /\ auth'[q].absent = (auth[q].absent \/ (auth[q].key # None /\ auth[q].key \notin Valid'))
  BY DEF TablesChange, TypeOK, Auth
<1>4. TypeOK'
  <2>1. auth' \in [AuthRequests -> Auth]
    BY <1>3 DEF TablesChange
  <2>2. goneAt' \in [Keys -> Time \cup {None}]
    BY <1>2 DEF TypeOK
  <2> QED
    BY <1>1, <1>2, <1>3, <2>1, <2>2 DEF TypeOK
<1>5. StoresRecent'
  <2> SUFFICES ASSUME NEW q \in AuthRequests, At(q, "store")'
               PROVE  \/ auth[q].key \in Valid'
                      \/ goneAt'[auth[q].key] # None /\ auth[q].since <= goneAt'[auth[q].key]
    BY <1>3 DEF StoresRecent
  <2>1. At(q, "store") /\ auth[q].key \in Keys /\ auth[q].since \in clock - MaxDelay .. clock
    BY <1>3 DEF At, TypeOK
  <2> QED
    BY <1>2, <2>1 DEF StoresRecent, TypeOK, Time
<1>6. EntriesRecent'
  <2> SUFFICES ASSUME NEW k \in Keys, cache[k] # None
               PROVE  /\ cache[k] <= clock + CACHE_TTL
                      /\ k \in Valid' \/ /\ goneAt'[k] # None
                                         /\ cache[k] <= goneAt'[k] + CACHE_TTL + MaxDelay
    BY <1>2 DEF EntriesRecent
  <2>1. cache[k] <= clock + CACHE_TTL /\ cache[k] \in Nat /\ clock \in Time
    BY DEF EntriesRecent, TypeOK
  <2>2. CASE k \in Valid /\ k \notin Valid'
    BY <1>2, <2>1, <2>2 DEF Time
  <2>3. CASE ~(k \in Valid /\ k \notin Valid')
    BY <1>2, <2>1, <2>3 DEF EntriesRecent
  <2> QED
    BY <2>2, <2>3
<1>7. PresentFound'
  <2> SUFFICES ASSUME NEW q \in AuthRequests, ~At(q, "idle")', ~auth'[q].absent
               PROVE  /\ auth[q].key \in Valid' /\ ~At(q, "refused")
                      /\ At(q, "drivers") => auth[q].key \in drivers'
    BY <1>3 DEF PresentFound, At
  <2>1. ~At(q, "idle") /\ ~auth[q].absent /\ auth[q].key \in Keys /\ auth[q].key \in Valid'
    BY <1>3 DEF At, TypeOK
  <2> QED
    BY <1>1, <2>1 DEF PresentFound
<1> QED
  BY <1>1, <1>4, <1>5, <1>6, <1>7

\* Every step keeps the invariant.
LEMMA NextInv == IInv /\ [Next]_vars => IInv'
<1> SUFFICES ASSUME IInv, [Next]_vars PROVE IInv'
  OBVIOUS
<1>1. CASE UNCHANGED vars
  BY <1>1
  DEF vars, schemaVars, authVars, IInv, TypeOK, SchemaTypeOK, VersionTellsSchema, StoresRecent,
      EntriesRecent, PresentFound, Valid, At
<1> QED
  BY <1>1, TickInv, LookUpInv, StoreInv, TablesInv DEF Next

\* The invariant holds in every reachable state.
THEOREM Invariance == Spec => []IInv
  BY InitInv, NextInv, PTL DEF Spec

\* The state is well typed, and no request is older than the delay allows.
THEOREM TypeCorrect == Spec => []TypeOK
<1>1. IInv => TypeOK
  BY DEF IInv
<1> QED
  BY <1>1, Invariance, PTL

\* Whatever migrations, servers and seeds race, the version tells what the tables are.
THEOREM VersionTrue == Spec => []VersionTellsSchema
<1>1. IInv => VersionTellsSchema
  BY DEF IInv
<1> QED
  BY <1>1, Invariance, PTL

\* A deleted rider or driver is shut out after the TTL and the delay of one request.
THEOREM RevocationHolds == Spec => []RevokedKeyExpires
<1>1. IInv => RevokedKeyExpires
  <2> SUFFICES ASSUME IInv, NEW k \in Keys, Live(k), k \notin Valid
               PROVE  goneAt[k] # None /\ clock < goneAt[k] + CACHE_TTL + MaxDelay
    BY DEF RevokedKeyExpires
  <2>1. cache[k] \in Nat /\ clock \in Nat /\ clock < cache[k] /\ goneAt[k] \in Nat \cup {None}
    BY AuthAssumption DEF IInv, TypeOK, Live, Time
  <2>2. goneAt[k] # None /\ cache[k] <= goneAt[k] + CACHE_TTL + MaxDelay
    BY <2>1, AuthAssumption DEF IInv, EntriesRecent, Live
  <2> QED
    BY <2>1, <2>2, AuthAssumption
<1> QED
  BY <1>1, Invariance, PTL

\* A 401 for an existing key is impossible: the two look-ups cannot miss a key between them.
THEOREM RefusalsAbsent == Spec => []RefusedWasAbsent
<1>1. IInv => RefusedWasAbsent
  BY DEF IInv, PresentFound, RefusedWasAbsent, At
<1> QED
  BY <1>1, Invariance, PTL
=============================================================================

------------------------ MODULE RideDetailCacheProofs ------------------------
(***************************************************************************)
(* Proofs about module RideDetailCache, for every time to live, delay and  *)
(* set of readers.                                                         *)
(***************************************************************************)
EXTENDS RideDetailCache, TLAPS

\* A get_ride about to fill the cache has loaded a committed version, no longer ago
\* than MaxDelay and before that version was replaced.
FillsRecent ==
    \A q \in Readers : reader[q].pc = "fill" =>
        /\ reader[q].version \in Version /\ reader[q].loaded \in Time
        /\ reader[q].version <= row
        /\ reader[q].loaded <= clock /\ clock <= reader[q].loaded + MaxDelay
        /\ reader[q].version < row => reader[q].loaded <= endedAt[reader[q].version]

\* The entry in the cache has a committed version; it was filled in the past, and
\* soon after its version was replaced, if it was.
EntryRecent ==
    cache # None =>
        /\ cache.version <= row
        /\ cache.expires <= clock + RIDE_CACHE_TTL
        /\ cache.version < row =>
               cache.expires <= endedAt[cache.version] + RIDE_CACHE_TTL + MaxDelay

\* An open transaction has a version to commit.
WriterHasNext == writer # "none" => row < LastVersion

IInv == TypeOK /\ FillsRecent /\ EntryRecent /\ WriterHasNext

\* At the start nothing has been loaded or cached.
LEMMA InitInv == Init => IInv
  BY CacheAssumption
  DEF Init, IInv, TypeOK, FillsRecent, EntryRecent, WriterHasNext, Version, Time, Reader, IdleReader

\* As time passes, a loaded version grows older, but never beyond MaxDelay.
LEMMA TickInv == IInv /\ Tick => IInv'
  BY CacheAssumption
  DEF Tick, IInv, TypeOK, FillsRecent, EntryRecent, WriterHasNext, Version, Time, Entry, Reader

\* A reader that starts or loads the row leaves the cache alone.
LEMMA LoadInv ==
    ASSUME IInv, NEW q \in Readers, MissCache(q) \/ LoadRow(q)
    PROVE  IInv'
<1>1. CASE MissCache(q)
  BY <1>1, CacheAssumption DEF MissCache, IInv, TypeOK, FillsRecent, EntryRecent, WriterHasNext, Reader
<1>2. CASE LoadRow(q)
  BY <1>2, CacheAssumption
  DEF LoadRow, IInv, TypeOK, FillsRecent, EntryRecent, WriterHasNext, Version, Time, Reader
<1> QED
  BY <1>1, <1>2

\* An entry inherits its age from the reader that fills the cache.
LEMMA FillInv ==
    ASSUME IInv, NEW q \in Readers, FillCache(q)
    PROVE  IInv'
<1> USE CacheAssumption DEF IInv, FillCache, Version, Time
<1>1. TypeOK'
  <2>1. cache' \in Entry
    BY DEF TypeOK, FillsRecent, Entry
  <2>2. reader' \in [Readers -> Reader]
    BY DEF TypeOK, Reader, IdleReader
  <2> QED
    BY <2>1, <2>2 DEF TypeOK
<1>2. FillsRecent'
  BY DEF TypeOK, FillsRecent, Reader, IdleReader
<1>3. EntryRecent'
  <2>1. endedAt[reader[q].version] \in Time \cup {None}
    BY DEF TypeOK, FillsRecent
  <2>2. reader[q].version < row => endedAt[reader[q].version] \in Time
    BY <2>1 DEF TypeOK, FillsRecent
  <2> QED
    BY <2>2 DEF TypeOK, FillsRecent, EntryRecent, WriterHasNext
<1>4. WriterHasNext'
  BY DEF WriterHasNext
<1> QED
  BY <1>1, <1>2, <1>3, <1>4

\* When a version is replaced, whoever holds it got it before that moment.
LEMMA ReplaceInv ==
    ASSUME IInv, row < LastVersion, Replace, writer' = "none",
           UNCHANGED <<clock, cache, reader>>
    PROVE  IInv'
<1> USE CacheAssumption DEF IInv, Replace, Version, Time
<1>1. TypeOK'
  BY DEF TypeOK
<1>2. FillsRecent'
  BY DEF TypeOK, FillsRecent, Reader
<1>3. EntryRecent'
  BY DEF TypeOK, EntryRecent, Entry
<1>4. WriterHasNext'
  BY DEF WriterHasNext
<1> QED
  BY <1>1, <1>2, <1>3, <1>4

\* Every step keeps the invariant.
LEMMA NextInv == IInv /\ [Next]_vars => IInv'
<1> SUFFICES ASSUME IInv, [Next]_vars PROVE IInv'
  OBVIOUS
<1>1. CASE Tick
  BY <1>1, TickInv
<1>2. CASE \E q \in Readers : MissCache(q) \/ LoadRow(q) \/ FillCache(q)
  BY <1>2, LoadInv, FillInv
<1>3. CASE CommitTransition
  BY <1>3, ReplaceInv DEF CommitTransition
<1>4. CASE CommitUpdate
  BY <1>4, ReplaceInv DEF CommitUpdate, IInv, WriterHasNext
<1>5. CASE UpdateRow \/ RollbackUpdate
  BY <1>5 DEF UpdateRow, RollbackUpdate, IInv, TypeOK, FillsRecent, EntryRecent, WriterHasNext
<1>6. CASE DeleteCache
  BY <1>6 DEF DeleteCache, IInv, TypeOK, FillsRecent, EntryRecent, WriterHasNext
<1>7. CASE UNCHANGED vars
  BY <1>7 DEF vars, IInv, TypeOK, FillsRecent, EntryRecent, WriterHasNext
<1> QED
  BY <1>1, <1>2, <1>3, <1>4, <1>5, <1>6, <1>7 DEF Next

\* The invariant holds in every reachable state.
THEOREM Invariance == Spec => []IInv
  BY InitInv, NextInv, PTL DEF Spec

\* The variables keep their types, and the history its meaning: exactly the versions
\* that were replaced have an end.
THEOREM TypeCorrect == Spec => []TypeOK
<1>1. IInv => TypeOK
  BY DEF IInv
<1> QED
  BY <1>1, Invariance, PTL

\* get_ride never answers what was not committed, whatever is rolled back.
THEOREM CachedWasCommitted == Spec => []OnlyCommitted
<1>1. IInv => OnlyCommitted
  BY DEF IInv, EntryRecent, OnlyCommitted
<1> QED
  BY <1>1, Invariance, PTL

\* An answer from the cache is late by less than the TTL and the delay of a request.
THEOREM CachedIsRecent == Spec => []BoundedStaleness
<1>1. IInv => BoundedStaleness
  <2> SUFFICES ASSUME IInv, Live, cache.version < row
               PROVE  clock < endedAt[cache.version] + RIDE_CACHE_TTL + MaxDelay
    BY DEF BoundedStaleness
  <2>1. cache \in Entry /\ endedAt[cache.version] \in Time
    BY DEF IInv, TypeOK, Live, Entry
  <2> QED
    BY <2>1, CacheAssumption DEF IInv, TypeOK, EntryRecent, Live, Entry, Time
<1> QED
  BY <1>1, Invariance, PTL
=============================================================================

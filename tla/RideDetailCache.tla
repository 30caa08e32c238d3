--------------------------- MODULE RideDetailCache ---------------------------
(***************************************************************************)
(* The cache of GET /v1/rides/{id} beside the row of one ride.  get_ride   *)
(* loads the committed row and fills ride:detail:{id}, which lives         *)
(* RIDE_CACHE_TTL; accept_ride and end_trip delete the key and commit      *)
(* afterwards; run_matching's transitions commit and leave the key alone.  *)
(*                                                                         *)
(* The row is the number of transitions committed so far: no status of a   *)
(* ride comes back.  Time is discrete; a get_ride that has loaded the row  *)
(* fills the cache at most MaxDelay later.                                 *)
(***************************************************************************)
EXTENDS Integers

CONSTANTS
    Readers,            \* slots for concurrent get_ride
    RIDE_CACHE_TTL,
    MaxDelay,           \* between loading the row and filling the cache
    LastVersion,        \* bound on the ride's transitions
    MaxTime,            \* bound on the clock
    None

ASSUME CacheAssumption ==
    /\ RIDE_CACHE_TTL \in Nat \ {0} /\ MaxDelay \in Nat
    /\ LastVersion \in Nat /\ MaxTime \in Nat /\ None \notin Int

Version == 0 .. LastVersion
Time == 0 .. MaxTime

VARIABLES
    clock,
    row,            \* the committed version of the ride
    endedAt,        \* when each older version was replaced (history)
    cache,          \* ride:detail:{id}: a version and the time it expires
    reader,         \* what each get_ride is doing
    writer          \* the transaction of accept_ride or end_trip on the ride

vars == <<clock, row, endedAt, cache, reader, writer>>

Entry == [version : Version, expires : Nat]
Reader == [pc : {"idle", "load", "fill"}, version : Version \cup {None},
           loaded : Time \cup {None}]
IdleReader == [pc |-> "idle", version |-> None, loaded |-> None]

\* The variables have their types, and exactly the replaced versions have ended.
TypeOK ==
    /\ clock \in Time /\ row \in Version
    /\ endedAt \in [Version -> Time \cup {None}]
    /\ \A v \in Version : endedAt[v] # None <=> v < row
    /\ cache \in Entry \cup {None}
    /\ reader \in [Readers -> Reader]
    /\ writer \in {"none", "updated", "deleted"}

Init ==
    /\ clock = 0 /\ row = 0
    /\ endedAt = [v \in Version |-> None]
    /\ cache = None
    /\ reader = [q \in Readers |-> IdleReader]
    /\ writer = "none"

Live == cache # None /\ clock < cache.expires

Tick ==
    /\ clock < MaxTime
    /\ \A q \in Readers : reader[q].pc = "fill" => clock < reader[q].loaded + MaxDelay
    /\ clock' = clock + 1
    /\ UNCHANGED <<row, endedAt, cache, reader, writer>>

-----------------------------------------------------------------------------
\* GET of the key: a hit answers at once and changes nothing.
MissCache(q) ==
    /\ reader[q].pc = "idle"
    /\ ~Live
    /\ reader' = [reader EXCEPT ![q].pc = "load"]
    /\ UNCHANGED <<clock, row, endedAt, cache, writer>>

\* No row is found, and nobody raises the 404.
LoadNothing(q) ==
    /\ reader[q].pc = "load"
    /\ reader' = [reader EXCEPT ![q] = [pc |-> "fill", version |-> None, loaded |-> clock]]
    /\ UNCHANGED <<clock, row, endedAt, cache, writer>>

LoadRow(q) ==
    /\ reader[q].pc = "load"
    /\ reader' = [reader EXCEPT ![q] = [pc |-> "fill", version |-> row, loaded |-> clock]]
    /\ UNCHANGED <<clock, row, endedAt, cache, writer>>

\* An entry that lives on from the one it replaces.
FillTwiceAsLong(q) ==
    /\ reader[q].pc = "fill"
    /\ cache' = [version |-> reader[q].version, expires |-> clock + 2 * RIDE_CACHE_TTL]
    /\ reader' = [reader EXCEPT ![q] = IdleReader]
    /\ UNCHANGED <<clock, row, endedAt, writer>>

\* SETEX, whatever has happened to the row and to the key meanwhile.
FillCache(q) ==
    /\ reader[q].pc = "fill"
    /\ cache' = [version |-> reader[q].version, expires |-> clock + RIDE_CACHE_TTL]
    /\ reader' = [reader EXCEPT ![q] = IdleReader]
    /\ UNCHANGED <<clock, row, endedAt, writer>>

-----------------------------------------------------------------------------
Replace == row' = row + 1 /\ endedAt' = [endedAt EXCEPT ![row] = clock]

\* A transition of run_matching: one UPDATE and its commit.
CommitTransition ==
    /\ writer = "none" /\ row < LastVersion
    /\ Replace
    /\ UNCHANGED <<clock, cache, reader, writer>>

\* accept_ride or end_trip updates the ride, and holds its row from then on.
UpdateRow ==
    /\ writer = "none" /\ row < LastVersion
    /\ writer' = "updated"
    /\ UNCHANGED <<clock, row, endedAt, cache, reader>>

\* The handler puts the new ride into the cache instead.
CacheUncommitted ==
    /\ writer = "updated"
    /\ cache' = [version |-> row + 1, expires |-> clock + RIDE_CACHE_TTL]
    /\ writer' = "deleted"
    /\ UNCHANGED <<clock, row, endedAt, reader>>

DeleteCache ==
    /\ writer = "updated"
    /\ cache' = None
    /\ writer' = "deleted"
    /\ UNCHANGED <<clock, row, endedAt, reader>>

CommitUpdate ==
    /\ writer = "deleted"
    /\ Replace
    /\ writer' = "none"
    /\ UNCHANGED <<clock, cache, reader>>

\* The handler raises or the commit fails; the key stays deleted.
RollbackUpdate ==
    /\ writer # "none"
    /\ writer' = "none"
    /\ UNCHANGED <<clock, row, endedAt, cache, reader>>

Next ==
    \/ Tick
    \/ \E q \in Readers : MissCache(q) \/ LoadRow(q) \/ FillCache(q)
    \/ CommitTransition
    \/ UpdateRow \/ DeleteCache \/ CommitUpdate \/ RollbackUpdate

Spec == Init /\ [][Next]_vars

-----------------------------------------------------------------------------
\* get_ride answers only what has been committed: a transaction that is rolled
\* back leaves no trace of its status in the cache.
OnlyCommitted == cache # None => cache.version <= row

\* An answer out of the cache is late by less than the TTL and the delay of one
\* request, whichever loads, fills, deletes and commits it raced with, and although
\* the deletion precedes the commit and matching deletes nothing.
BoundedStaleness ==
    Live /\ cache.version < row =>
        clock < endedAt[cache.version] + RIDE_CACHE_TTL + MaxDelay
=============================================================================

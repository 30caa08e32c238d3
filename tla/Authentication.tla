--------------------------- MODULE Authentication ----------------------------
(***************************************************************************)
(* AuthMiddleware: an API key is looked up in Redis, then in riders, then  *)
(* in drivers, and an actor that was found is cached for CACHE_TTL.  The   *)
(* rows come from seed.py and go with a downgrade, or an operator deletes  *)
(* them; nothing deletes a cached actor.                                   *)
(*                                                                         *)
(* The clock is discrete; a request goes from its first query to its last  *)
(* write of the cache in at most MaxDelay.                                 *)
(***************************************************************************)
EXTENDS Schema

CONSTANTS
    AuthRequests,       \* slots for requests in the middleware
    CACHE_TTL,
    MaxDelay,
    MaxTime             \* bound on the clock

ASSUME AuthAssumption ==
    /\ CACHE_TTL \in Nat \ {0} /\ MaxDelay \in Nat /\ MaxTime \in Nat
    /\ None \notin Int /\ None \notin Keys /\ None \notin Schemas

Time == 0 .. MaxTime

VARIABLES
    clock,
    cache,      \* auth:actor:{api_key}: when the entry expires, or None
    goneAt,     \* when each key was last seen in the tables, if it is gone (history)
    auth        \* what each request is doing

authVars == <<clock, cache, goneAt, auth>>
vars == <<schemaVars, authVars>>

\* absent: the key has not been in the tables all the time since the request came
Auth == [pc : {"idle", "riders", "drivers", "store", "refused"},
         key : Keys \cup {None}, since : Time \cup {None}, absent : BOOLEAN]
IdleAuth == [pc |-> "idle", key |-> None, since |-> None, absent |-> FALSE]

TypeOK ==
    /\ SchemaTypeOK
    /\ clock \in Time
    /\ cache \in [Keys -> Nat \cup {None}]
    /\ goneAt \in [Keys -> Time \cup {None}]
    /\ auth \in [AuthRequests -> Auth]
    /\ \A q \in AuthRequests : auth[q].pc # "idle" =>
           auth[q].key \in Keys /\ auth[q].since \in clock - MaxDelay .. clock

Init ==
    /\ SchemaInit
    /\ clock = 0
    /\ cache = [k \in Keys |-> None]
    /\ goneAt = [k \in Keys |-> None]
    /\ auth = [q \in AuthRequests |-> IdleAuth]

At(q, pc) == auth[q].pc = pc
GoTo(q, pc) == auth' = [auth EXCEPT ![q].pc = pc]
Done(q) == auth' = [auth EXCEPT ![q] = IdleAuth]
Live(k) == cache[k] # None /\ clock < cache[k]

Tick ==
    /\ clock < MaxTime
    /\ \A q \in AuthRequests : ~At(q, "idle") => clock < auth[q].since + MaxDelay
    /\ clock' = clock + 1
    /\ UNCHANGED <<schemaVars, cache, goneAt, auth>>

\* A request without the header is not refused at once.
MissCacheNoHeader(q, k) ==
    /\ At(q, "idle") /\ ~Live(k)
    /\ auth' = [auth EXCEPT ![q] = [pc |-> "riders", key |-> None, since |-> clock,
                                    absent |-> TRUE]]
    /\ UNCHANGED <<schemaVars, clock, cache, goneAt>>

\* A hit admits the request at once and changes nothing.
MissCache(q, k) ==
    /\ At(q, "idle") /\ ~Live(k)
    /\ auth' = [auth EXCEPT ![q] = [pc |-> "riders", key |-> k, since |-> clock,
                                    absent |-> k \notin Valid]]
    /\ UNCHANGED <<schemaVars, clock, cache, goneAt>>

\* Riders alone are looked up.
LookUpRiderOnly(q) ==
    /\ At(q, "riders") /\ schema # "none"
    /\ GoTo(q, IF auth[q].key \in riders THEN "store" ELSE "refused")
    /\ UNCHANGED <<schemaVars, clock, cache, goneAt>>

LookUpRider(q) ==
    /\ At(q, "riders") /\ schema # "none"
    /\ GoTo(q, IF auth[q].key \in riders THEN "store" ELSE "drivers")
    /\ UNCHANGED <<schemaVars, clock, cache, goneAt>>

\* A key that is not found is refused with 401, and that is not cached.
LookUpDriver(q) ==
    /\ At(q, "drivers") /\ schema # "none"
    /\ GoTo(q, IF auth[q].key \in drivers THEN "store" ELSE "refused")
    /\ UNCHANGED <<schemaVars, clock, cache, goneAt>>

\* An entry that does not expire before the second hit.
StoreTwiceAsLong(q) ==
    /\ At(q, "store")
    /\ cache' = [cache EXCEPT ![auth[q].key] = clock + 2 * CACHE_TTL]
    /\ Done(q)
    /\ UNCHANGED <<schemaVars, clock, goneAt>>

\* SETEX, whatever has become of the row; then the request is admitted.
StoreActor(q) ==
    /\ At(q, "store")
    /\ cache' = [cache EXCEPT ![auth[q].key] = clock + CACHE_TTL]
    /\ Done(q)
    /\ UNCHANGED <<schemaVars, clock, goneAt>>

Refuse(q) ==
    /\ At(q, "refused")
    /\ Done(q)
    /\ UNCHANGED <<schemaVars, clock, cache, goneAt>>

\* A store fails, or there are no tables: 500.
AuthFails(q) ==
    /\ auth[q].pc \in {"riders", "drivers", "store"}
    /\ Done(q)
    /\ UNCHANGED <<schemaVars, clock, cache, goneAt>>

\* An operator deletes a rider or a driver.
Revoke(k) ==
    /\ k \in Valid
    /\ riders' = riders \ {k} /\ drivers' = drivers \ {k}
    /\ UNCHANGED <<schema, version, issued, boot>>

\* The keys that leave the tables are noted, and so are the requests that use them.
TablesChange ==
    /\ SchemaNext \/ \E k \in Keys : Revoke(k)
    /\ goneAt' = [k \in Keys |-> IF k \in Valid /\ k \notin Valid' THEN clock ELSE goneAt[k]]
    /\ auth' = [q \in AuthRequests |->
                   [auth[q] EXCEPT !.absent = @ \/ (auth[q].key # None /\ auth[q].key \notin Valid')]]
    /\ UNCHANGED <<clock, cache>>

Next ==
    \/ Tick
    \/ \E q \in AuthRequests :
           \/ \E k \in Keys : MissCache(q, k)
           \/ LookUpRider(q) \/ LookUpDriver(q) \/ StoreActor(q) \/ Refuse(q) \/ AuthFails(q)
    \/ TablesChange

Spec == Init /\ [][Next]_vars

-----------------------------------------------------------------------------
\* A key that has left the tables is admitted for less than CACHE_TTL and one request
\* longer, whichever look-ups, deletions and downgrades it raced with: no request
\* renews it out of the cache.  (AuthMiddleware, TTL: 5 min)
RevokedKeyExpires ==
    \A k \in Keys : Live(k) /\ k \notin Valid =>
        goneAt[k] # None /\ clock < goneAt[k] + CACHE_TTL + MaxDelay

\* Nobody is refused with 401 whose key was in the tables all along, although the two
\* tables are read one after the other, and a refusal is not remembered.
RefusedWasAbsent == \A q \in AuthRequests : At(q, "refused") => auth[q].absent
=============================================================================

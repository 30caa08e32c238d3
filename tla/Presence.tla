------------------------------ MODULE Presence -------------------------------
(***************************************************************************)
(* update_location: POST /v1/drivers/{id}/location.  Reads the driver,     *)
(* adds it to the geo index and, when Redis holds no status for it, copies *)
(* the status that was read from the database.  The position itself is     *)
(* left out: a search may find any driver of the index.                    *)
(***************************************************************************)
EXTENDS RideStore

CONSTANT PingRequests   \* slots for concurrent location updates

VARIABLE ping           \* what each location update is doing

Ping == [pc : {"idle", "geo", "check", "seed"}, driver : Drivers \cup {None},
         seen : DriverStatus \cup {None}]
IdlePing == [pc |-> "idle", driver |-> None, seen |-> None]

PingTypeOK ==
    /\ ping \in [PingRequests -> Ping]
    /\ \A p \in PingRequests : ping[p].pc # "idle" => ping[p].driver \in Drivers

\* Of the first locations of a driver in the index one may still be about to write.
PingInit ==
    ping \in [PingRequests -> {IdlePing} \cup
                  {[pc |-> "seed", driver |-> d, seen |-> driverStatus[d]] : d \in geo}]

PingAt(p, pc) == ping[p].pc = pc
PingReturns(p) == ping' = [ping EXCEPT ![p] = IdlePing]

ReceivePing(p, d) ==
    /\ PingAt(p, "idle")
    /\ ping' = [ping EXCEPT ![p] = [pc |-> "geo", driver |-> d,
                                    seen |-> driverStatus[d]]]
    /\ UNCHANGED storeVars

AddToGeo(p) ==
    /\ PingAt(p, "geo")
    /\ geo' = geo \cup {ping[p].driver}
    /\ ping' = [ping EXCEPT ![p].pc = "check"]
    /\ UNCHANGED <<dbVars, rowVars, offerKey, rideKey, driverKey, assignLock>>

\* The status is not looked for.
SeedAlways(p) ==
    /\ PingAt(p, "check")
    /\ ping' = [ping EXCEPT ![p].pc = "seed"]
    /\ UNCHANGED storeVars

CheckDriverKey(p) ==
    /\ PingAt(p, "check")
    /\ \/ driverKey[ping[p].driver] = None /\ ping' = [ping EXCEPT ![p].pc = "seed"]
       \/ driverKey[ping[p].driver] # None /\ PingReturns(p)
    /\ UNCHANGED storeVars

SeedDriverKey(p) ==
    /\ PingAt(p, "seed")
    /\ driverKey' = [driverKey EXCEPT ![ping[p].driver] = ping[p].seen]
    /\ PingReturns(p)
    /\ UNCHANGED <<dbVars, rowVars, offerKey, rideKey, assignLock, geo>>

PingStep(p) == AddToGeo(p) \/ CheckDriverKey(p) \/ SeedDriverKey(p)

\* An error ends the request; the geo entry may stay without a status.
PingFails(p) ==
    /\ ~PingAt(p, "idle")
    /\ PingReturns(p)
    /\ UNCHANGED storeVars
=============================================================================

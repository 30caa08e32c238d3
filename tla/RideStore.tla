------------------------------ MODULE RideStore ------------------------------
(***************************************************************************)
(* The state that the ride handlers share: the committed rows of the       *)
(* PostgreSQL tables rides, trips and drivers, the row locks of open       *)
(* transactions, and the Redis keys.                                       *)
(*                                                                         *)
(* PostgreSQL runs at its default isolation, READ COMMITTED: a SELECT      *)
(* sees the committed row, an UPDATE waits until no open transaction holds *)
(* the row and then keeps it until its transaction ends.  What an open     *)
(* transaction has written is a function of the request and of how far it  *)
(* got, so only its locks are state; the commit applies the writes.        *)
(*                                                                         *)
(* A trip is named by its ride: trips.ride_id is UNIQUE.  All the rides    *)
(* and drivers of an instance are of one tier (tiers share no key).        *)
(***************************************************************************)
EXTENDS Naturals, FiniteSets

CONSTANTS
    Rides,
    Drivers,
    AcceptRequests,     \* slots for concurrent POST /drivers/{id}/accept
    EndRequests,        \* slots for concurrent POST /trips/{id}/end
    None                \* SQL NULL, an absent row, an absent Redis key

RideStatus == {"PENDING", "MATCHING", "DRIVER_ASSIGNED", "IN_PROGRESS",
               "COMPLETED", "CANCELLED"}
TripStatus == {"IN_PROGRESS", "COMPLETED"}
DriverStatus == {"ONLINE", "OFFLINE", "ON_TRIP"}

Requests == AcceptRequests \cup EndRequests

ASSUME StoreAssumption ==
    /\ None \notin Rides \cup Drivers \cup Requests
    /\ None \notin RideStatus \cup TripStatus \cup DriverStatus
    /\ AcceptRequests \cap EndRequests = {}
    /\ IsFiniteSet(Rides)

VARIABLES
    rideStatus, rideDriver,     \* rides.status, rides.driver_id
    tripStatus,                 \* trips.status, None while there is no row
    driverStatus, totalTrips,   \* drivers.status, drivers.total_trips
    rideRow, tripRow, driverRow,    \* the request whose transaction holds the row
    offerKey,                   \* ride:offer:{ride_id}
    rideKey,                    \* ride:status:{ride_id}
    driverKey,                  \* driver:status:{driver_id}
    assignLock,                 \* ride:assign:lock:{ride_id} exists
    geo                         \* members of geo:drivers:{tier}

dbVars == <<rideStatus, rideDriver, tripStatus, driverStatus, totalTrips>>
rowVars == <<rideRow, tripRow, driverRow>>
redisVars == <<offerKey, rideKey, driverKey, assignLock, geo>>
storeVars == <<dbVars, rowVars, redisVars>>

RIDE_STATE_TRANSITIONS ==
    [PENDING         |-> {"MATCHING", "CANCELLED"},
     MATCHING        |-> {"DRIVER_ASSIGNED", "CANCELLED"},
     DRIVER_ASSIGNED |-> {"IN_PROGRESS", "MATCHING", "CANCELLED", "COMPLETED"},
     IN_PROGRESS     |-> {"COMPLETED", "CANCELLED"},
     COMPLETED       |-> {},
     CANCELLED       |-> {}]

CanTransition(from, to) == to \in RIDE_STATE_TRANSITIONS[from]

\* A schema without the unique index on trips.ride_id.
NoUniqueIndex(r) == FALSE

\* INSERT INTO trips fails: ride_id is unique and r already has a trip.
TripInsertFails(r) == tripStatus[r] # None

\* The rows that q's transaction holds are free again when it ends.
Unlock(rows, q) == [x \in DOMAIN rows |-> IF rows[x] = q THEN None ELSE rows[x]]

ReleaseRows(q) ==
    /\ rideRow' = Unlock(rideRow, q)
    /\ tripRow' = Unlock(tripRow, q)
    /\ driverRow' = Unlock(driverRow, q)

\* matching has put the ride's outcome into Redis, or a handler has
Decided(r) == rideKey[r] \notin {None, "MATCHING"}

StoreTypeOK ==
    /\ rideStatus \in [Rides -> RideStatus]
    /\ rideDriver \in [Rides -> Drivers \cup {None}]
    /\ tripStatus \in [Rides -> TripStatus \cup {None}]
    /\ driverStatus \in [Drivers -> DriverStatus]
    /\ totalTrips \in [Drivers -> Nat]
    /\ rideRow \in [Rides -> Requests \cup {None}]
    /\ tripRow \in [Rides -> Requests \cup {None}]
    /\ driverRow \in [Drivers -> Requests \cup {None}]
    /\ offerKey \in [Rides -> Drivers \cup {None}]
    /\ rideKey \in [Rides -> RideStatus \cup {None}]
    /\ driverKey \in [Drivers -> DriverStatus \cup {None}]
    /\ assignLock \in [Rides -> BOOLEAN]
    /\ geo \subseteq Drivers

StoreInit ==
    /\ rideStatus = [r \in Rides |-> "PENDING"]
    /\ rideDriver = [r \in Rides |-> None]
    /\ tripStatus = [r \in Rides |-> None]
    /\ driverStatus \in [Drivers -> {"ONLINE", "OFFLINE"}]
    /\ totalTrips = [d \in Drivers |-> 0]
    /\ rideRow = [r \in Rides |-> None]
    /\ tripRow = [r \in Rides |-> None]
    /\ driverRow = [d \in Drivers |-> None]
    /\ offerKey = [r \in Rides |-> None]
    /\ rideKey = [r \in Rides |-> None]
    /\ assignLock = [r \in Rides |-> FALSE]
    /\ geo \in SUBSET Drivers       \* the drivers that have pinged before
    /\ driverKey = [d \in Drivers |-> IF d \in geo THEN driverStatus[d] ELSE None]
=============================================================================

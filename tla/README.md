# A verification project for Chaliye

TLA+ models of the Chaliye ride-hailing service (`src/`), TLC configurations that
check them on small instances, and proofs of their safety properties for TLAPS.
`PROJECT.json` is the index: components, runs, mutants, the map from definitions
to source lines, findings, hazards and theorems.

## 1. The system

Chaliye is one FastAPI process (`src/main.py`) over PostgreSQL and Redis. Every
request passes the middlewares (logger, authentication, rate limiter, CORS) and runs as
a coroutine; the matching of a ride runs as a background task of the same event
loop. Several processes may share the two stores. All state that matters is in
the stores; what makes the code hard is that

* coroutines interleave at **every `await`**, that is at every call of a store;
* PostgreSQL runs at READ COMMITTED, and the handlers read a row, decide, and
  later update it *by id*, without looking at it again;
* one session per request is committed by `get_db` **after** the handler has
  returned (`core/dependencies.py:21-32`), that is after every Redis write and
  after `accept_ride` has given up its Redis lock (`drivers/router.py:102-103`);
* Redis and the database are written without a common transaction, Redis keys
  expire, and background tasks are lost when the process dies.

| Component | State | Operations | What makes it correct |
|---|---|---|---|
| Matching task (`rides/service.py`) | `rides.status`, `ride:status`, `ride:offer`, `offered:*` | `run_matching`, `_try_radius`, `_poll_for_acceptance`, `transition_status` | every ride is decided; only offered drivers get it; an assigned ride is not cancelled |
| Accepting (`drivers/router.py:58-103`) | `rides`, `trips`, `drivers`, `ride:assign:lock` | `accept_ride` | one driver per ride, together with its trip; the handler returns |
| Ending a trip (`trips/router.py`) | `trips`, `rides`, `drivers.total_trips` | `end_trip` | a trip ends once and is counted once; tables agree |
| Driver presence (`drivers/router.py:30-55`) | `geo:drivers`, `driver:status` | `update_location` | Redis gives the database's status |
| Creating a ride (`rides/router.py:23-63`) | `rides.idempotency_key`, background tasks | `create_ride` | one ride per key; answers are durable; matching starts |
| Reading a ride (`rides/router.py:66-79`) | `ride:detail` | `get_ride` | no uncommitted answer, bounded staleness |
| Payments (`payments/`) | `payments`, `payment:{trip}`, the PSP | `trigger_payment`, `PaymentRegistry.process` | pay only for an ended trip, only its fare, and once |
| Rate limiter (`middleware/rate_limiter.py`) | `rate:{actor}` | `_check_rate` | at most `MAX_REQUESTS` per window; no one refused below |
| Fares (`trips/service.py`) | `surge:zone` | `estimate_fare`, `calculate_fare` | minimum, cap, monotonicity |
| Authentication (`middleware/auth.py`) | `auth:actor:{key}` | `AuthMiddleware` | a deleted key is soon refused; a valid one never |
| Connection pool (`core/database.py`, `core/dependencies.py`) | the engine's connections, row locks | `get_db`, `session_context` | no connection is lost; no deadlock; all are served |
| Schema and seed (`alembic/`, `main.py`, `seed.py`) | tables, `alembic_version`, API keys | `upgrade`, `downgrade`, `create_all`, `seed` | the version tells the tables |
| Request logging (`middleware/logger.py`) | | `LoggerMiddleware` | not modelled, section 7 |

They interact through the stores alone, except that `create_ride` hands its ride to
the background task. The matching task offers a ride by a Redis key, `accept_ride`
reads that key and answers by writing `ride:status` and the tables, the poll of the
task reads `ride:status` only; `end_trip` frees the driver for the next search;
`trigger_payment` reads what `end_trip` has committed. All of them draw their database
connections from one pool.

The hazards are listed one by one, with their lines and the properties that would
catch them, in `PROJECT.json`.

## 2. The modules

| Module | Models |
|---|---|
| `RideStore` | the shared state: committed rows, row locks, Redis keys; the transition table |
| `Matching` | `run_matching`, one task per ride |
| `AcceptRide` | `accept_ride`, in `AcceptRequests` concurrent slots |
| `EndTrip` | `end_trip`, in `EndRequests` slots |
| `Presence` | `update_location`, in `PingRequests` slots |
| `Dispatch` | the composition, with key expiry, failures and crashes; the properties |
| `Assignment` | the abstract specification that `Dispatch` implements |
| `DispatchProofs` | theorems about `Dispatch` |
| `RideIntake`, `RideIntakeProofs` | `create_ride` up to the start of the task |
| `IdempotentCreate` | the abstract specification that `RideIntake` implements |
| `RideDetailCache`, `RideDetailCacheProofs` | `get_ride` and its cache |
| `Fares`, `FaresProofs` | `calculate_fare`, `get_surge_multiplier` and the truncation to paise, in fixed point |
| `Payments`, `PaymentsProofs` | `trigger_payment`, the retry loop and what is charged; uses `Fares` |
| `RateLimiter`, `RateLimiterProofs` | the sliding window |
| `ConnectionPool`, `ConnectionPoolProofs` | the sessions of requests, payments and matching tasks |
| `Schema` | migrations, `create_all`, `seed.py` and the API keys they make and drop |
| `Authentication`, `AuthenticationProofs` | `AuthMiddleware` over `Schema` |
| `MCDispatch`, `MCAuthentication` | the symmetry sets of the runs |

**Conventions.** A request or task has a program counter that names what it does
next; a step goes from one `await` to the next. Two calls are one step only where
nobody else can see the difference (a comment says why). Definitions whose comment
describes a slip in the code (`BetweenRadiiGivesUp`, `NoUniqueIndex`, ...) are
mutants: they are used by no specification, and each shows that a property notices
the slip when it takes the place of the definition that follows it.

**Transactions.** A committed row is a variable; what an open transaction has
written is a function of the request and its program counter, so the model keeps
only the row locks (`rideRow`, `tripRow`, `driverRow`) and applies the writes at the
commit. An `UPDATE` waits while another transaction holds the row; a `SELECT` does
not, and reads the committed row. This is READ COMMITTED. The unique index on
`trips.ride_id` is `TripInsertFails`; the one on `rides.idempotency_key` is `keyLock`
and `HasRide` in `RideIntake`.

**The identity map.** `end_trip` loads the ride once; `transition_status` selects it
again in the same session, but SQLAlchemy keeps the attributes of the first load. So
`EndTrip` checks the status it saw in `LoadRide`, not the row's; the check awaits nothing
that another handler could change, and is part of the step in which the handler completes
the trip (`MayComplete`).

**Commits that fail.** A commit that fails is rolled back, but one whose acknowledgement is
lost was applied, although `get_db` raises as if it had failed. In `RideIntake` this is an
action (`CommitUnconfirmed`): the client gets an error, and the background task, which would
have run after the answer, is dropped. In `Dispatch` it leaves the state that `CommitAccept`
or `CommitEnd` leaves, as the answer is no part of it. In `Payments` no request reaches
its commit.

**Time** is left out of `Dispatch`: a poll may end, a key expire and an accept arrive
at any moment. This admits every timing the code can meet. `FlagsExpire` says
whether a search may outlast the 600 s of an offered flag, as it can with more than
twenty candidates; the runs set it. `RideDetailCache`, `RateLimiter` and
`Authentication` have a discrete clock, because their properties are about time, and a
bound `MaxDelay` on how long a request may take between the steps that matter.

**Drivers online.** No endpoint turns an OFFLINE driver ONLINE except `end_trip`, and
the seed script creates OFFLINE drivers; drivers are taken online by other means
(an operator's SQL). The initial state of `Dispatch` therefore has any drivers ONLINE,
and in the geo index those that have pinged before, with the status Redis took from
the database; the first location of such a driver may still be about to write it.

**Money** is in paise, distance in units of 50 m, duration in units of 6 s, surge in
tenths: on this grid the code's formula is exact. Its floats may round half a paisa
either way and `int(amount * 100)` may cut off a paisa; both are choices of the model.

**The pool.** `ConnectionPool` keeps of each handler what matters there: which sessions
it opens, which rows each updates in which order, and what it does outside of the
database while it holds a connection. The request's session begins when the one of
`AuthMiddleware` is closed, and a matching task has none during its search. The plans
of rows are those of `AcceptRide`, `EndTrip` and `Matching`, all with the same ride.

**Schema.** A run of alembic is one transaction, `create_all` another. Of the columns the
model has `payments.idempotency_key` alone, which migration 002 drops and the models do not
have: it tells the two versions apart. Other differences between the models and the
migrations (defaults, indexes) play no part here. The tables come and go together.

**External parts.** GEOSEARCH may find any subset of the drivers in the index, in any
order (they move). The PSP may charge and answer, charge and lose the answer, or
refuse. Redis is durable (`appendonly yes` in `docker-compose.yml`).

## 3. The runs

| Run | Instance | Shows |
|---|---|---|
| `dispatch_faults` | 1 ride, 2 drivers, 2 accepts, 1 end, 1 ping, 1 radius, faults; 4.1 M states | the tables agree; only offered drivers win; `Assignment` is implemented |
| `dispatch_rides` | 2 rides, 1 driver, 1 accept, 2 ends, 1 ping, 1 radius, no faults; 6.1 M states | Redis and the database agree on a driver, but for first locations, and go on agreeing; no trip is lost from the count when two ends overlap |
| `dispatch_live` | 1 ride, 1 driver, 2 accepts, 1 end, 2 radii, no faults, fairness; 18 k states | Redis announces true outcomes; no open ride is forgotten; rides are decided; matches are committed; handlers return |
| `cancelled_trip`, `ended_twice` | the smallest instance for each | the first two disagreements of section 5 |
| `ride_intake` | 2 keys, 3 requests, 4 rides, faults, fairness; 45 k states | idempotent creation; whose matching starts, and whose is lost; `IdempotentCreate` is implemented |
| `ride_detail_cache` | 2 readers, TTL 2, delay 1, 3 transitions, clock to 7 | cache correctness |
| `payments` | 2 requests, card and cash, 3 retries, two durations, fairness; 680 k states | payment safety, amounts, charges against calls, termination |
| `paid_again` | 1 request, card | the third disagreement |
| `rate_limiter` | 3 requests at once, window 5, limit 2, delay 2, clock to 7, 2 requests of the same time; 4.4 M states | the limit and its fairness to the actor |
| `pool` | 3 clients, 1 + 1 connections, 2 retries, fairness; 44 k states | no leak, no deadlock, nobody starves |
| `access` | 2 starts or seeds, 2 keys, 2 requests, TTL 2, delay 1, clock to 4; 3.1 M states | revocation, refusals, migrations |

**Why the bounds are enough.** The properties of `Dispatch` speak of one ride and the
requests that race for it. Two accepts are the race for a ride; two drivers make them
rivals; with one ride every failure and crash fits into the state space. Two rides of
one driver are the least that lets handlers of different rides meet in one row, and two
ends the least that lets their counts of the driver's trips overlap (ends of two rides,
or twice of one); there faults are off, because the properties of that run are about the
agreement of two stores that a failure may separate for good. The second radius of
`dispatch_live` gives the order search / offer / sleep / search: a driver who let the
first offer pass is found again, and gets another when the flag of the first has gone. In `payments` two ends of the
trip with different durations change the fare between read and charge. In `pool` three
clients share two connections, so that the third waits while the two that have one may
meet in a row; one connection is kept and one is overflow, which are treated differently
when they come back. In `access` a clock of 4 leaves room for a whole time to live and
the delay after a key has gone, and two starts are the race for the tables.

Symmetry is used for rides, drivers, keys and request slots, in runs that check safety
alone. Named bounds: `MaxRides` (ids handed out), `MaxPaid` (a method that has been paid
this often gets no new request), `MaxTime` (the clock), `MaxTwins` (requests that read
the same time), `LastVersion` (transitions of a ride; there are at most four), and the
retries, radii and pool sizes above. Deadlock checking is off in all runs, as the system
may rightly stop: rides end, clients need not call, and the bounds refuse further
requests.

**Fairness.** `Dispatch!Fairness` is strong fairness of every task's and handler's next
step: the event loop runs every coroutine that is ready, and PostgreSQL queues the
transactions that wait for a row, so one that waits gets it although others take it
repeatedly. Only waiting for a row can disable a step, so this says no more than that.
Locations wait for nothing and have weak fairness. Nothing is assumed of drivers,
riders, key expiry or faults. In `Payments` weak fairness is enough, as requests wait
for nothing (httpx's time-out of 8 s is one per operation of a call, connecting or
reading, so a call ends too, if the PSP does not trickle its answer); in `RideIntake`
inserts wait for the holder of the key. In `ConnectionPool` strong fairness of a
client's steps says that whoever waits for a connection is not passed over each time
that one comes back, and that rows are queued for as above; giving up after
`pool_timeout` is possible and never forced, so that `EveryoneServed` is not met by
refusals alone.

## 4. The properties

* `TripMatchesRide`: in every committed state a ride has a driver exactly when it has
  a trip; an open ride has none; an assigned ride has a trip in progress, a completed
  one a completed trip. Commit points of two handlers, failures and crashes would
  break it if anything were written outside the transaction.
* `OnlyOffered`: a driver gets a ride only if matching has offered it to them.
* `ImplementsAssignment`: the committed `rides.driver_id` and `trips.status`, read as
  the variables of `Assignment`, take only its steps. The Redis lock of `accept_ride`
  is *not* what makes it true: the lock is gone before the commit and may expire. With
  the unique index taken away (`NoUniqueIndex`) the run fails.
* `RideKeyTrue`, `DriverKeyAgrees`: how far Redis may run ahead of the database. The
  first allows the moment in which an accept is about to commit; the second holds
  because handlers write Redis while they hold the driver's row. `update_location` holds no
  row: one that has found no status copies the one it has read, which may be old by then
  (`FirstLocation`). `DriverKeyAgrees` says that this is the only thing that ever parts
  the two stores: they agree at first, and any step that ends their agreement about a driver
  is taken while such a location is pending. Both need that no store fails.
* `NobodyForgotten`: an open ride always has a task that goes on searching or an accept
  that is about to commit it, and a task stops for a match only when there is one. The
  task looks at Redis alone, so this would fail if an announced match could be given up
  or if a task could stop between two radii. It is what `EveryRideDecided` and
  `MatchedIsAssigned` need besides fairness, and needs that no store fails.
* `NoCircularWait`: among any transactions that wait for rows there is one that waits for
  none of the others. No run checks it, as its proof covers every instance.
* `TripsCounted`: `total_trips` never misses a trip (it may count one twice, see below),
  though ends of two trips of the driver overlap: the increment is computed by the
  `UPDATE`, from the row as it is when the lock is granted. With a count read before the
  wait (`CommitLostUpdate`) the run fails.
* `SettledStays`: once Redis has a status of the driver, agrees with the database, and no
  location is left that has found none, this stays so for ever: later locations find the
  status, and write only what they have found.
* `EveryRideDecided`, `MatchedIsAssigned`, `RequestsReturn`: liveness. The last is also
  freedom from deadlock between the row locks of the two handlers; it is about the
  handlers that take rows (a location update has a fixed number of steps, none of which
  waits: `HandlersMoveOn`).
* `SameAnswer`, `AnswerIsStored`, `RefusedHasRide`, `EveryRideMatched` (`RideIntake`):
  all answers to one key name one ride; it is in the database whatever crashes; a
  client refused with 500 for a duplicate finds it on the next try. The matching of a
  committed ride starts, or is lost in one of two ways: the process died between commit and
  start, or the acknowledgement of the commit was lost, so that the handler raised. Nobody
  starts it later: a retry with the key finds the ride and answers with it, and the ride
  stays PENDING.
* `OnlyCommitted`, `BoundedStaleness` (`RideDetailCache`): the cache never holds a status
  that was not committed, and an answer is late by less than the TTL plus one request.
* `ImplementsCreate`: the committed rides by key, and the answers given, take only the
  steps of `IdempotentCreate`: one ride per key, never changed, always the one told.
* `ChargedAfterTrip`, `SuccessWasCharged`, `RequestAnswered` (`Payments`): nobody pays for an
  unfinished trip, every success stands for a charge, every request is answered.
* `ChargedTheFare`, `MinimumCharged`: whatever is charged is a fare that was committed for
  the trip, short of it by one paisa at most, over retries and overlapping ends; and it
  is the minimum of the tier. The second needs a surge of at least 1: the code caps the
  number it reads from `surge:zone` but does not floor it.
* `ChargesCostCalls`: a charge is made by a step that uses up one of the calls its request
  has left, and calls never come back, so a request charges at most `MAX_RETRIES` times.
  It may charge more than once: an answer that is lost is retried.
* `AtMostLimit`, `RefusedOnlyOverLimit` (`RateLimiter`): the limit holds in every window
  of `WINDOW_SEC - MaxDelay`, exceeded by no more than the requests of the window that
  have read the same time as an earlier one: `ZADD` takes the time as the member, so
  equal times are one entry of the log and count once (`Repeated`). Without that term
  the run fails. The clocks of several processes are taken to be equal and never set
  back. Only an actor who really issued more than the limit around the request is
  refused. Refused requests are recorded too, so an actor that keeps calling above the
  limit stays refused; the documentation of the algorithm says so.
* `Accounted`, `WaiterHoldsNothing`, `SomebodyWorks`, `EveryoneServed`
  (`ConnectionPool`): connections are neither lost nor shared; nobody waits for one with
  a connection or a row in hand; no holders wait for each other in a circle, however
  many others there are to go on, because all take trip, ride and driver in this order;
  and a slow PSP delays the others, who are served all the same. A payment of 3 calls
  that take 8 s each, with pauses of 2 s and 4 s, lasts as long as the default
  `pool_timeout`, 30 s, which is why waiters may in fact give up. A request that the
  pool refuses has done nothing in the database, but the middlewares have written Redis
  by then (`auth:actor`, `middleware/auth.py:69`; `rate:`,
  `middleware/rate_limiter.py:76`): it counts against the limit. The module has no
  Redis, and says nothing of it.
* `RevokedKeyExpires`, `RefusedWasAbsent` (`Authentication`): a key that has left the
  tables is admitted for less than the TTL and one request longer, since hits do not
  renew the entry and a look-up may store what is gone already; a key that was in the
  tables all along is never refused, although the two tables are read one after the
  other.
* `VersionTellsSchema` (`Schema`): whatever order servers, seeds and migrations run in,
  alembic's version stands for its columns. Tables that `create_all` has made have no
  version and never get one: migration 001 fails on them each time.

## 5. Where the code and its documents disagree

Each is a run that expects a violation, with the quoted line in `PROJECT.json`.

1. `cancelled_trip`: `run_matching` cancels after a last sleep without looking again; a
   ride accepted meanwhile is CANCELLED while its trip runs, and the trip can never
   be ended.
2. `ended_twice`: two end requests both complete a trip and count it twice.
3. `paid_again`: `json.dumps` does not take the UUIDs of the payment response, so every
   successful payment is charged, then rolled back, and can be charged again.

Observations that contradict no document and so have no run: an accept that has
checked the ride before its cancellation commits overwrites CANCELLED (the tables still
agree); a driver with offers of two rides can accept both; `payments/models.py:38`
speaks of a partial unique index, which `payments` has not (it would not matter, as no
row is ever committed); when the pool refuses the session in which a task cancels its
ride, Redis is told CANCELLED all the same and the ride stays as it was; after a
`create_all` the first `alembic upgrade` fails for good.

## 6. What is proved

Every invariant that a passing run checks, every action property and both refinements
are theorems: they hold for every set of rides, drivers, keys, requests and clients, every
number of radii, retries, connections, every TTL, window and delay. They assume the
ASSUMEs of the modules only: `None` is none of the values, slots of different handlers
are distinct, numbers are naturals, and the sets that are counted (`Rides`,
`CreateRequests`, `PaymentRequests`) are finite. Faults are included, except in the
theorems about Redis (`OutcomesAreTrue`, `NoRideForgotten`, `DriverKeysAreTrue`,
`DriversStaySettled`, `SettledForEver`), whose properties a failing store breaks: these
assume `Faults = FALSE`, with any handlers running. `TripsEndOnceAlone`
assumes a single slot for end requests: it shows that the overlap which the run
`ended_twice` exhibits is the only way to count a trip twice.

A safety property is proved from an inductive invariant, by one lemma per action:

* **`DispatchProofs`.** `IInv`, as `TripMatchesRide` and `OnlyOffered` are not inductive: an
  accept that has passed its checks could, for all they say, commit for a driver who
  was never offered the ride, or for a ride that has a trip. `IInv` adds what each
  handler in progress relies on: an accept's driver was offered the ride, and from its
  successful INSERT to its commit it holds the ride's row and the ride has no trip
  (`AcceptInv`); a key in `ride:offer` names a driver who was offered the ride
  (`OffersFlagged`); an end request's ride has a trip (`EndInv`); a ride whose matching
  has not begun is PENDING and offered to nobody (`FreshRides`). The row lock does the
  work: whatever else commits in between, it is not a trip for this ride.
  `Implements` (`Spec => ImplementsAssignment`) follows: `CommitAccept` maps to `Assign`,
  `CommitEnd` to `Finish` or, when the trip was completed meanwhile, to a stutter.
  `TripsAreCounted` is cardinality: a commit completes at most one trip, and counts it.
  `OutcomesAreTrue` adds that a cancellation Redis knows of is in the database and that
  no ride is opened again (`CancelsTrue`, `NeverReopened`, and `RidesStayClosed` as a
  theorem of its own). `NoRideForgotten` adds what a task that has stopped, or is about
  to, knows of its ride (`TasksTrue`): a match it has seen is a trip or an accept about to
  commit, and an accept that has announced a ride is never rolled back (`BackedStays`).
* **Agreement about a driver.** `DriverTrue` says of one driver that the transaction which
  holds the row either has not written the key yet, or has written what it is going to
  commit, and that a free row and the key agree. Every step keeps it (`DriverStep`) but
  the one of a location that had found no status, which is `DriverKeyAgrees`
  (`DriverKeysAreTrue`). Once Redis has a status, which does not expire, no location finds
  none again; so a settled state is followed by settled states only (`SettledStays`, by
  `DriversStaySettled`), and from it on the key and a free row of the driver agree
  (`SettledForEver`).
* **Deadlock.** `RowOwners` says who holds which row: at each point of `accept_ride` and
  `end_trip` exactly the rows updated so far, and nothing else holds any. The rows come in
  the order trip, ride, driver. Were all requests of a set to wait for each other, none of
  them would hold the driver, so none would wait for it, hence none would hold a ride,
  and so on (`NoDeadlock`). It needs no induction over the number of requests.
* **Progress.** `HandlersMoveOn` and `TasksMoveOn` give every handler a number, and a matching
  task a tuple (the radii left, the stage of the radius, the candidates not tried yet,
  the place in the offer), that each of its steps lowers and that no other step raises.
  With `NobodyForgotten` and `NoCircularWait` this is everything in the liveness
  properties that does not speak of fairness.
* **`RideIntakeProofs`.** A key has one committed row (`RowsUnique`), an open insert
  holds its key, which has no row yet (`InsertsUnique`), what a request has seen is so
  (`RequestsTrue`), and ids are handed out once (`IdsLeft`). Idempotency (`OneAnswer`)
  and `Implements` (`IdempotentCreate`) follow. `MatchingFollowsCommit` says that
  exactly the committed rides have a task, one that was dropped with its commit's
  acknowledgement included; `MatchedOnce` that a task is queued or dropped once and
  leaves the queue once, to be started or lost with the process, and that a dropped one
  stays so. `KeysAreHeldToCommit` and `CreatesMoveOn` are the safety half of its
  liveness: who holds a key waits for nothing but its commit.
* **`RideDetailCacheProofs`, `RateLimiterProofs`, `AuthenticationProofs`** date things.
  What a reader holds and what the cache holds was not replaced long before it was
  stored (`FillsRecent`, `EntryRecent`); a request that counts the log still finds all
  requests of the last window in it, those of equal time as one entry (`LogExact`); an
  actor found or cached was in the tables not long before (`StoresRecent`,
  `EntriesRecent`), and a key that was there all along is found, in `drivers` when it
  was not in `riders` (`PresentFound`).
* **`PaymentsProofs`.** A payment that is being attempted has an amount which is a
  committed fare (`RequestsTrue`), each of these is a value of `calculate_fare`
  (`FaresComputed`), and the ledger balances (`Ledger`). `MinimumCharged` then comes
  from **`FaresProofs`**: a fare exists, is at least the minimum, does not fall with
  distance or duration and rises with the tier, for every trip and surge. The only
  product of two unknowns is the one with the surge (`TimesGrows`). `RequestsMoveOn`
  counts the steps a payment has left, each PSP call as one, and `ChargesCounted`
  (`ChargesCostCalls`) shows that every charge uses one of them up.
* **`ConnectionPoolProofs`.** What each client holds goes with its program counter
  (`ClientsTrue`). `SomebodyWorks` needs no induction over the number of clients: were all
  the sessions of a set blocked by others of it, none would have the driver's row, which
  comes last, so none would wait for it, none would have the ride's, and so on to the
  first. `SessionsMoveOn` adds that a session comes nearer to its end with each step.

Only model-checked: liveness (`EveryRideDecided`, `MatchedIsAssigned`, `RequestsReturn`,
`EveryRideMatched`, `RequestAnswered`, `EveryoneServed`), which is beyond the prover (it
knows neither ENABLED nor fairness), and of which the progress theorems above are the
part that can be proved; and the three violations.

## 7. What is not modelled

* **Request logging**: no state that anything else reads. (It resets its trace id
  before it writes the last line of a request, which therefore carries "-".)
* **Geometry**: `haversine_km` and `_geohash_prefix` are trigonometry and float division of
  coordinates; distances and zones are inputs of the model. A coordinate of exactly
  +180 or +90 gets a zone of its own, which changes no property.
* **Wiring**: configuration, CORS, OpenAPI and the Redis client object.
* **Alembic's offline mode**, which prints SQL; of the columns all but
  `payments.idempotency_key`.
* **Tests**: read for what they state; they import modules that no longer exist.
* Of `create_ride`, `accept_ride` and the others: authorisation by actor, validation of
  coordinates and tiers, 404 answers for absent rows (rows are never deleted, but by an
  operator and a downgrade, which only `Authentication` has).
* Of the rate limiter: the choice of the identifier and the exempt paths.
* Tiers: every tier has its own geo index and its own drivers, so an instance of
  `Dispatch` is one tier.
* The composition of `ConnectionPool` with `Dispatch`: a wait for a connection is the time
  before a handler's first step there, and a refusal one of the failures that `Dispatch`
  has already (of a task, the one in which `TaskFails` goes on to `CancelKey`).

## 8. State of the plan

Done: the dispatch core, intake, detail cache, payments with fares, rate limiter, pool,
authentication and schema, each with its runs and its proofs; two abstract
specifications and their refinements; and the safety half of the liveness properties
(deadlock, progress, nothing forgotten). What could still be added: a
bound on how long a session of the pool waits, in the steps of the others; progress
measures for the middlewares, whose requests have two or three steps; a run of
`Dispatch` with two rides *and* faults, on a larger machine; and further abstract
specifications, for instance of a payment that is charged once, when the code keeps
that promise.

# Verification of the ride service

TLA+ models of the Django ride-hailing backend in `src/`, the TLC runs that
check them on small instances, and TLAPS proofs of what holds for every number
of riders, drivers, rides, threads and requests.

`PROJECT.json` lists, in machine-readable form, the components, the runs, the
mutations every property was seen to catch, the source lines each definition
models, the findings, the hazards and the theorems.

## 1. The system

| Component | State it keeps | Operations | Interacts with |
|---|---|---|---|
| `rides/services.py` `RideService` | one `threading.Lock` (`_accept_lock`) per process | request, accept, start, complete, cancel, get | repositories, `DriverService`, pricing, Kafka producer |
| `rides/services.py` `DriverService` | none | register, go_online, go_offline, mark_(un)available, update_location, find_nearby | `DriverRepository`, streaming groups, dispatch |
| `rides/services.py` `RatingService` | none | rate | ratings, rides, drivers, users |
| `rides/repositories.py` | tables `rides`, `drivers`, `users`, `ratings`; Redis `drivers:locations`, `drivers:available` | save (full-row `update_or_create`), find, exists, count | PostgreSQL, Redis |
| `rides/dispatch.py`, `rides/tasks.py` | Redis `dispatched:{ride}` (5 min TTL) | fan-out of offers, the four event handlers, retry of stale rides | repositories (read), streaming groups, Kafka producer |
| `rides/kafka_producer.py`, `rides/kafka_bridge.py` | four topics, one consumer group | publish, consume and enqueue | Celery broker |
| `rides/streaming/` | Channels groups and per-connection queues | authorise, join, pump, close | `RideRepository`, `send_event`, `send_close` |
| `rides/rate_limit.py` | Redis counters with a TTL | allow | views |
| `rides/pricing.py`, `rides/geo.py` | Redis `surge:{lat}:{lng}` (30 s TTL) | fare quote, surge | `RideService.request_ride` |
| `rides/auth/`, `rides/views/auth.py` | table `users`, a JWT cookie | register, login, switch mode, role gates | all views |
| views, serializers, admin, migrations, settings | none | routing, validation, wiring | |

What runs concurrently: Daphne runs every request in a thread of its own; there
is no `ATOMIC_REQUESTS`, so every ORM statement commits by itself and every
Redis command and Kafka send takes effect by itself. Celery workers, the beat
scheduler and the Kafka bridge are further processes over the same PostgreSQL
and Redis. The only lock in the program is `RideService._accept_lock`, taken by
`accept_ride` alone. The `version` column is incremented and never compared.

What is hard about it, and hence what the properties are for:

- guards are evaluated on a row that was read earlier, and rows are saved whole,
  so the last writer wins (services.py:131-217, repositories.py:148-166);
- a driver's availability lives in two stores written one after the other
  (repositories.py:111-131);
- accept is a critical section with three reads and writes inside, three
  refusals and five calls that may raise (services.py:155-171);
- events travel over Kafka, a bridge, the Celery broker and the channel layer,
  each of which may lose, delay or reorder them (kafka_bridge.py:58-66,
  tasks.py, streaming/consumers.py).

`PROJECT.json` "hazards" names each at its line.

What makes each component correct:

- *ride table*: a ride is matched once; one driver per ride; no ride reopens;
  every stored row is a legal successor of an earlier row of the ride;
- *driver presence*: no availability is spent twice; the mirror agrees with the
  column when nothing is in flight; an online driver is free or busy;
- *lock*: held exactly inside accept, given back on every path;
- *events*: a handler finds the row its event announces;
- *dispatch*: an accepted ride's other candidates are told, records of offers are
  complete and expire, a requested ride is eventually offered;
- *streams*: a location stream ends when its ride does;
- *rate limiter*: at most `capacity` in a window, and a key is never refused for
  ever; *pricing*: surge within [1, 3], fare rounded half up;
- *ratings*: one rating per participant and ride, counts and averages agree with
  the ratings, stored averages stay within one and five stars;
- *accounts*: a token names its owner and nobody else; who holds a driver-mode
  token has a profile; the role is permanent.

## 2. Modules

| Module | Models |
|---|---|
| `RideDomain` | the ride row, the guards and the row each transition writes |
| `RideLedger` | abstract: what the ride table promises when requests overlap |
| `RideProtocol` | abstract: what the ride API promises when requests follow each other |
| `RideService` | ride and driver services as threads taking one atomic call per step |
| `SerialService` | `RideService` used sequentially, and its refinement of `RideProtocol` |
| `Dispatch` | publish, bridge, broker, tasks, dispatched set, offers, retry |
| `Streaming` | authorise, join, pump, events, close, disconnect, group membership |
| `Accounts` | registration, login, roles and tokens, driver registration, ratings |
| `Pricing` | surge, fare and their rounding, in exact arithmetic |
| `Intake` | rate limiter, counts, surge cache and quote of `POST /rides` |
| `MCRideService`, `MCSerialService`, `MCDispatch`, `MCAccounts`, `MCIntake` | instances for TLC (`Streaming` is run directly) |
| `RideServiceProofs`, `RideLedgerProofs`, `SerialProofs`, `DispatchProofs`, `WithdrawalProofs`, `StreamingProofs`, `AccountsProofs`, `IntakeProofs` | the theorems |

How they compose:

    RideDomain <- RideLedger <- Dispatch, Streaming      (the table as a ledger)
    RideDomain <- RideService -- implements --> RideLedger     (one process)
    RideService <- SerialService -- implements --> RideProtocol (one thread)
    Pricing <- Intake          Accounts (stands alone)

`Dispatch` and `Streaming` do not repeat the request threads. Their ride table
moves by the steps of `RideLedger`, which the service is proved to implement, so
every overlap of requests is covered by what they show.

### RideDomain, RideService

A thread serves one request at a time. `pc` is the next call the request makes,
`req` its locals: `row` is the `Ride` it has read, `flag` the `is_available` it
will save. Each action is one ORM, Redis or Kafka call:

| Action | Code |
|---|---|
| `BeginRequest` | `exists_by_rider_id_and_status_in`, the new uuid (services.py:134-144) |
| `BeginAccept`, `AcquireLock` | entering `accept_ride`, the `with` statement |
| `AcceptReadRide`, `AcceptReadDriver` | its reads, its refusals (157-164) |
| `BeginStart`, `BeginComplete`, `BeginCancel` | `get_ride` and the guards of the three |
| `BeginOnline`, `BeginOffline`, `UpdateLocation` | GEOADD, ZREM, GEOADD |
| `BeginRate`, `SaveRating`, `RateReadDriver` | `rate` as far as it touches the driver's availability |
| `MarkPg`, `MarkRedis` | the two halves of `DriverRepository.save` |
| `SaveRide` | `RideRepository.save`: the whole row, last writer wins |
| `Publish` | `_publish`; then the request returns, and accept leaves the lock |
| `Fail` | a call raises or the process dies: nothing is undone, `with` leaves the lock |

Reads are merged with the guard they feed, because nothing the thread does comes
between. Requests refused before they wrote anything leave no trace and are not
steps. `past`, `credit`, `rated` and `published` are histories: nothing reads
them, so they do not influence the behaviour. Drivers have profiles from the
start (`Accounts` has their registration); coordinates, fares, names and
timestamps are abstracted, `fare` to whether it is null. `send` followed by
`flush` may lose a message without raising; for the state of this module that is
a `Fail` at `publish`.

### RideLedger, RideProtocol, SerialService

The service does not implement the ride state machine when requests overlap
(run `start_cancel`). What it implements is `RideLedger`: a save stores a legal
successor of *some* row the ride has had, and writes a MATCHED row only if the
ride has had none. Everything else that is true of rows under overlap, such as
one driver per ride and no way back to REQUESTED, follows from this.

When requests follow each other it implements `RideProtocol`, in which an
operation is one step that changes the ride and the set of drivers who may
accept. `SerialService` says how: a request takes effect with the save of the
ride's row, and a cancellation that frees a driver with the save of the
driver's (`ShownRides`, `ShownFree`). It adds the history `shifts`, the times a
driver was made available other than by the end of a ride; a driver who goes
online during a ride gets a second one, which the code allows, and
`DriverRidesAccounted` says that this is the only way: he never has more rides
than shifts.

### Dispatch

The pipeline from an event to the drivers' screens.

| Action | Code |
|---|---|
| `Serve` | a request saves a row and calls `publish_*`; the message may be lost |
| `Move`, `Age` | drivers come, go, become (un)available; a ride passes `RETRY_CUTOFF` |
| `Forward` | one turn of `consume_forever`: `task.delay`; may repeat or lose the message |
| `Tick` | Celery beat enqueues `retry_stale_rides` |
| `Take` | a worker takes the oldest task from the broker |
| `ReadRequested`, `GeoSearch`, `Filter`, `Record`, `SetTtl`, `Offer` | `handle_ride_requested`: find_by_id, GEOSEARCH, SMISMEMBER, SADD, EXPIRE, one `ride.offer` per driver |
| `ReadAccepted`, `ReadDispatched`, `Withdraw`, `Clear` | `handle_ride_accepted`: find_by_id, SMEMBERS, one `offer.cancelled` per driver, DEL |
| `ReadStale`, `Republish` | `retry_stale_rides`: the query, one publish per ride |
| `Die`, `KeyExpires` | a task raises or its worker is killed; a key reaches its time to live |

`wpc` is a worker's next call, `task` the task it runs, `todo` the drivers (or,
in the retry, the rides) it has yet to work through. Messages of all topics are
one set, because topics and partitions are read in no common order; copies of
one message that wait together count once, and `"reread"` stands for the second
delivery. `shown` records for each driver the rides whose last event to him was
an offer: what his screen shows if his stream is connected. `geo` is each
driver's distance, up to `Radius` and `Nowhere` beyond it; all pickups share one
place. GEOSEARCH answers the `MaxResults` nearest (`Nearest`; of drivers equally
far, any), and only then SMISMEMBER asks who is available, so a driver behind
`MaxResults` nearer ones is not found even if none of those is available.
Offers go out in any order.

`CONSTANT Faults` says which faults an instance has: a send or an enqueue is
lost, a message is read twice, a task raises or its worker is killed at any of
its calls, a set reaches its time to live. Five histories tell what went on:
`closed`, the rides whose set a withdrawal has read; `late`, the offers made
after that; `lapsed`, who was on record when a set expired; `stuck`, the rides
whose worker died between SADD and EXPIRE; `dropped`, the rides whose
`ride-accepted` was lost or its task died. The handlers of completed and
cancelled rides close streams and are in `Streaming`.

### Streaming

The consumers, from the guards to `group_discard`, and everybody who sends to
their groups. The channel layer (channels_redis) is external: a group send
reaches the members of that moment, drops what a full channel cannot hold, and
keeps the order.

| Action | Code |
|---|---|
| `Save` | a request saves a row; its event makes a task due, or is lost: the request fails between save and publish, the asynchronous send fails, the bridge cannot enqueue |
| `RunTask` | `handle_ride_accepted` (the ETA event), `handle_ride_completed`, `handle_ride_cancelled`: read the ride, then send; or the task dies, which nothing repeats |
| `Notice` | `update_location`'s event, an offer or its withdrawal, the close of `go_offline` |
| `GroupSend` | `group_send` takes effect, some time after its sender decided to send |
| `Authorize` | role, participant and status guards of the consumer (a refused request gets a plain response) |
| `Join` | the response is opened, then `group_add` |
| `Receive`, `Turn` | `chan_task` gets a message; one turn of the loop, with either or both tasks done |
| `Break` | `send_body` raises |
| `Leave` | the `finally` clause: `group_discard` |
| `Disconnect` | the client leaves |

`hand` is what `chan_task` holds, `inbox` what the client's side has to say.
`heard`, `told`, `missed`, `full` and `unsent` are histories: what was sent to the
client, what the group gave the channel, who was between guards and join when a
close was sent, whose channel was full, and the rides of which an event that
closes streams was lost or its task died. The token of the request is not modelled;
a stream is that of any driver's offers or of any trackable ride.

### Accounts

| Action | Code |
|---|---|
| `Login`, `SwitchMode` | `LoginView`, `SwitchModeView`: one read and a token |
| `BeginRegister`, `Insert`, `Respond` | `RegisterView`: the check of the name, the insert under the unique constraint, the cookie |
| `BeginDriver`, `CheckProfile`, `SaveProfile`, `SaveUser`, `Respond` | `RegisterDriverView` and `register_driver`: profile, then role, then token |
| `BeginMark`, `SaveMark` | `mark_available_by_id`, `mark_unavailable_by_id`: a profile is read and saved whole, its rating columns with it |
| `CompleteRide` | a ride reaches COMPLETED (all that `rate` needs to know) |
| `BeginRate`, `SaveRating`, `ReadProfile`, `SaveProfile`, `ReadUser`, `SaveUser` | `RatingService.rate`: score, ride and duplicate checks, the insert, the two read-modify-write updates |
| `Fail` | a call raises or the process dies |

Averages are counted in hundredths. `_round_to_2` of a float half-way between
two hundredths may go either way, so `Averages` is the set of the nearest ones.
The value of `is_available` is `RideService`'s. What the `mark_*` saves do to the
rating columns (services.py:88-98, repositories.py:111-121) is here: they write
back those that were read, and so undo a rating that came in between; any driver
may be marked at any time, which covers every operation that marks one.
`spoiled` is a history: the accounts whose user row was saved over a newer one,
or whose registration, promotion or rating died half way.

### Pricing, Intake

`Pricing` is `compute_surge_multiplier`, `calculate_base_fare` and
`calculate_fare` over integers: hundredths, metres, cents. `Intake` is the path
of `POST /rides` that uses them, with time in ticks:

| Action | Code |
|---|---|
| `Incr`, `Expire` | the two Redis commands of `RateLimiter.allow` |
| `Refuse` | the request is turned away after the limiter: an invalid body, an active ride |
| `CountPending` | `count_pending_near` around the pickup |
| `GetSurge`, `SetSurge` | the geo search, `SurgeCache.get`, the multiplier; `SurgeCache.set` |
| `Save` | the insert with the fare that was quoted |
| `Leave` | a ride leaves REQUESTED |
| `Fail` | a call raises or the process dies, between INCR and EXPIRE too |
| `Tick` | time passes, and Redis drops what has expired |

`recent` holds, per rider, the requests admitted in the last window with their
age and what INCR answered them (no two of one tick got the same answer, because
a counter starts again only with a tick), and `orphaned` the keys whose request
died between the two commands: histories. A cached surge carries, as history, the
place it was computed for. Counts beyond `Capacity + 1` behave alike and are
counted as that.

## 3. Runs

Bounds are in the guards or in the size of a constant set.

| Run | Instance | Shows |
|---|---|---|
| `overlap` | 2 threads of one process, 1 rider, 2 drivers, 2 rides, 7 requests of any kind but location, 1 failure | lock, match, availability and event invariants, one driver per ride, shape of rows; refinement of `RideLedger`, `NeverReopened` |
| `returns` | 3 threads, 1 driver, 1 ride, 5 requests, 1 failure, fair | every request returns |
| `sequential` | 1 thread, 2 riders, 2 drivers, 2 rides, 12 requests | refinement of `RideProtocol`, and the rules the guards state |
| `offers` | 2 workers, 2 drivers in one place, `MaxResults` 2, 1 ride, 2 writes, 1 move, queue of 3, 1 fault of any kind | `OfferedIsRecorded`, `RecordsExpire`, `OffersWithdrawn` |
| `retry` | 1 worker, 2 drivers at two distances, `MaxResults` 1, 1 ride, 1 write, 2 moves, queue of 3, 2 faults (lost, dies), fair | `RequestedIsOffered` |
| `streams` | 1 connection, 1 driver, 1 ride, 4 writes, 1 notice, capacity 2, events that are lost, tasks that die, fair | group membership, the pump, who is told to close; streams end with their ride; disconnects are noticed |
| `accounts` | 2 threads, 2 ids, 2 names, 3 rides, scores 0, 4 and 5, 5 requests, 1 failure | tokens, profiles, averages and counts of ratings |
| `quotes` | 2 threads, 1 rider, 2 cells, capacity 2, window and cache of 2 ticks, 1 driver near, 2 rides, fair | the burst bound, expiry of counters and of the surge, fares of the right cell |

Why the bounds are enough to be interesting:

- *`overlap`*: a ride's life takes three requests after the request itself and a
  driver must go online first, so six requests let a full life be overlapped by a
  stale one, and the seventh brings a second ride, a second driver or a rating.
  Two threads suffice for every overlap of a pair of requests.
- *`returns`*: three threads queue for the lock.
- *`sequential`*: two full lives of rides with a driver each, and two requests
  to spare for shifts and cancellations.
- *dispatch runs*: rides do not interact except through the workers' time, so one
  is enough; two drivers are a chosen and a losing candidate; two workers overlap
  every pair of tasks. The initial presence of the drivers is arbitrary. In
  `offers` the two writes are the request and the accept and `MaxMoves` changes
  the presence once; it reaches repeated fan-outs to different candidates, a
  withdrawal in the middle of a fan-out, a set that is deleted between SADD and
  EXPIRE, and each fault at each call. In `retry` one result of two drivers is
  where `MAX_RESULTS` binds: an unavailable driver may hide an available one,
  and two moves let them change places; the one write is the request.
- *`streams`*: connections do not interact, so one is enough; four writes bring a
  ride through its life, or let one overwrite the end of another; a channel of
  two messages fills up while the client is not read; events and tasks may be lost
  without bound. `CHECK_DEADLOCK` is off:
  when the bounded writes are used up and the client is gone, the system rests.
- *`accounts`*: two registrations of one name, a promotion and a rating in
  between, three ratings of one user of which two overlap, or an availability
  save over a rating; score 0 is one the
  code refuses.
- *`quotes`*: the counter of the one rider is shared by both threads, and the cells
  share a neighbourhood; with a window of two ticks requests fall on both sides
  of its end. Ticks and requests are not bounded.

Each property of each run was seen to fail under a mutation of the code the run
reaches.

Runs that TLC refutes, each of one property a test or a document states and the
code does not keep when requests or tasks overlap:

| Run | Stated | What happens |
|---|---|---|
| `start_cancel` | IN_PROGRESS is not cancelled (tests/test_rides.py:197) | cancel writes over the start (services.py:213) |
| `late_stream` | a completed or cancelled ride closes the rider's stream (MILESTONE_NOTES.md:282) | a close between guards and `group_add` is lost (streaming/consumers.py:87) |
| `late_offer` | every driver who was offered the ride and did not accept it is told (dispatch.py:122) | a fan-out that read REQUESTED (tasks.py:38) records and offers the ride after another worker has read the set (dispatch.py:129) |
| `lost_promotion` | the role is a permanent capability (README.md:250) | `rate` writes back the role it read before a promotion (services.py:301) |

`late_stream` has room for every message in the channel, so that the join is the
only cause, and nothing is lost or dies; its run is fair, so a stream that stays
open stays open for ever. `late_offer` has two workers and no fault at all:
Celery's concurrency is enough.

What the passing runs assume, and why they must:

- *Requests that do not overlap* (`sequential`): of two overlapping requests of one
  rider both find no active ride, and of two overlapping saves of one driver the
  column may end as one wrote it and the set as the other. So
  `OneActiveRidePerRider`, `MirrorAgrees` and `OnlineDriverIsFreeOrBusy` are
  checked of sequential use only.
- *One server process* (`overlap`, `returns`): the accept lock is a
  `threading.Lock`; two processes have two, and match a ride twice.
- *No ratings yet* (in `AvailabilitySpentOnce`): `rate` writes a stale
  `is_available` back (services.py:294), so a busy driver may accept.
- *Finitely many faults, and the nearest only* (`RequestedIsOffered`): a system that
  loses every message offers nothing, and GEOSEARCH is cut off at `MAX_RESULTS`
  before anybody asks who is available (dispatch.py:60), so the promise is to the
  drivers who stay available and among the nearest. One behind that many
  unavailable drivers may never be offered the ride.

Where the code itself loses something, the fault is in the run, a history names
the executions, and the property is that there are no others:

| Property | Does not speak of | Because |
|---|---|---|
| `OfferedIsRecorded` | `lapsed` | a driver who was offered the ride before its set expired is no longer on record |
| `RecordsExpire` | `stuck` | a worker killed between SADD and EXPIRE (dispatch.py:88-89) leaves a set without a time to live, until the next fan-out or withdrawal of the ride |
| `OffersWithdrawn` | `dropped`, `late`, `lapsed` | a lost enqueue is only logged (kafka_bridge.py:65) and no task declares a retry; a fan-out may overtake the withdrawal (`late_offer`); an expired set names nobody |
| `StreamsEndWithRide` | `missed`, `full`, `unsent` | a close before the `group_add` (`late_stream`), a full channel, a close that is never sent |
| `CountersExpire`, `RefusedRecover` | `orphaned` | a request that died between INCR and EXPIRE |
| `RatingsCounted`, `ProfileMakesDriver` | `spoiled` | a stale user row was saved, or a request died half way |

### Fairness

- *`RideService`*: weak fairness of each thread's own steps, nothing of arrivals or
  failures: the operating system schedules a running thread. For a thread waiting
  on the lock the step is enabled only while the lock is free, and weak fairness
  then says something because arrivals are finitely many: the holder returns, and
  after the last competitor the lock stays free until it is taken. Deadlock is
  checked: `Rest` is the only way to stand still, with all threads idle.
- *`Dispatch`*: the bridge reads on, beat ticks, each worker goes on with its task
  or takes the next one, and time passes. Requests, drivers and faults are not
  fair, and faults are finitely many: a system that loses every message offers
  nothing.
- *`Streaming`*: workers run due tasks, group sends take effect, each consumer's
  coroutine is scheduled. Riders, drivers, requests and disconnects are not fair.
  Which branch a task or a turn of the pump takes is not fair either.
- *`Intake`*: time passes, and a thread that serves a request goes on. Arrivals are
  not fair, and not bounded: `RefusedRecover` holds although a refused rider
  may try again in every tick.

## 4. Proofs

The theorems hold for arbitrary constants that satisfy the `ASSUME` of their
module: `None` is not an id, threads run in processes, capacities and windows are
positive, and the bounds are natural numbers. Hypotheses beyond that are in the
theorem. `PROJECT.json` lists the 37 of them. Each safety invariant, action
property and refinement that a passing run checks is the statement of one.

`RideServiceProofs` builds one inductive invariant, `Together`, in layers, each
inductive given the ones before:

1. `TypeOK` and `Shapes`: at each step the locals are what the step needs
   (e.g. the `Target` of a driver save is a driver). Gives `TypeCorrect`.
2. `LockHeldExactlyInAccept`, given 1: `LockCorrect`. No hypothesis on processes.
3. `TableInv`, given 1: the current row is in the history; the row a request has
   read is in its ride's history and passed the guard; a new id is nobody else's.
4. `MatchInv`, given 1-3 and `SingleProcess`: at most one MATCHED row per ride; a
   ride with one has left REQUESTED; an accept past its check is about to write
   the first. The lock makes the accept past its check unique. `MatchedOnce` is
   not inductive alone: it needs to know that a ride in REQUESTED has never been
   matched, which in turn needs that no save ever writes REQUESTED again.
   Gives `MatchCorrect` and `AcceptCorrect`.
5. `CreditInv`, given 1, 2 and `SingleProcess`: until a ride is rated every
   availability is still counted, also the one an accept has seen and is about
   to spend. Gives `CreditCorrect`.
6. `EventsInv`, given 1 and 3: a request that is past the save of its row has
   stored it. Gives `EventsCorrect`, with no hypothesis at all.

`RideLedgerProofs` shows that a `SaveRide` is an `Open` or an `Overwrite` of the
ledger and every other step a stutter (`LedgerImplemented`), proves the ledger's
invariant `LedgerInv` of the ledger itself, and carries `OneDriverPerRide`,
`RowsWellShaped` and `NeverReopened` over to the service.

`SerialProofs` is about sequential use, as `SerialAssumption` says it: one thread,
no request that dies half way, and any number of riders, drivers, rides and
requests. `SerialInv` holds at every step of a request, not only between two:
the row the request has read is the current one and its guard still holds of it
(`RowIsCurrent`), a request to be saved is of a rider without an active ride
(`RiderIsWithoutRide`), and column and set differ at most in the driver whose
save is half done (`MirrorFollows`). `OneActiveRidePerRider` and `MirrorAgrees`
follow, neither of which is inductive alone. `ProtocolImplemented` goes through
the steps one by one: the one that an operation is shown to take effect with is
that operation of `RideProtocol`, every other a stutter, among them the save that
makes a driver available before his ride is saved as finished. What relates
rides to drivers is then proved of the protocol's state, where an operation is
one step: `ShiftsInv` for `DriverRidesAccounted` and `OnlineInv` for
`OnlineDriverIsFreeOrBusy`. `OnlineCorrect` has a hypothesis: no location reports.
`update_location` (services.py:102) puts a driver on the map whether he is online
or not, and one who reports after `go_offline` is there without being available.

`DispatchProofs` and `WithdrawalProofs` have no hypothesis: any number of workers,
rides and drivers, and every fault. `DispatchProofs` shows `TypeOK` inductive as it
stands, and proves `OfferedIsRecorded` from `RecordInv`, which adds what is in
flight: the candidates a worker is about to offer a ride to are on record, or the
ride is in `closed`, or they are in `lapsed`; and a worker that withdraws or
deletes has put its ride in `closed`. `RecordsExpire` is inductive given the types
(`ExpiryCorrect`).

`WithdrawalProofs` proves `OffersWithdrawn`. Quiet states are rare, so the
invariant `WithdrawInv` speaks of every state. It follows one withdrawal through
its two halves. Until a set has been read, its `ride-accepted` is on its way if
the ride is matched (`WithdrawalDue`: announced in Kafka or the broker, or a
worker is about to read), and by `RecordInv` every loser is in the set. From then
on every driver who holds an offer, and is neither the ride's own nor `late` nor
`lapsed`, is on the list of a worker that is telling them (`LosersReached`). When
nothing is queued and no worker is busy, neither half leaves anybody. Both halves
need that a task at these calls is the accept's (`HandlersFit`) and spares nobody
but a driver of the ride (`SparedDrives`); a death in either puts the ride in
`dropped`. Of the table the proof needs that a matched row is the only one and
never followed by REQUESTED (`TableInv`), proved of the ledger's steps.

`StreamingProofs` has one invariant `IInv` for any number of connections and
any capacity: the properties themselves, that a channel that has not joined has
been told nothing (without it `NothingLostInThePump` fails at the join), and that
whatever is about to close a ride's stream has a finished row behind it
(`CloseIsDue`), from the read of the task to the channel. Lost events and dead tasks
do not disturb it.

`AccountsProofs` rests on what is never taken back: names are unique, profiles
have accounts, whoever has the role or a request that will write it has a
profile, tokens are known accounts. Of a request it says that the row it holds,
however old, still has the account's name, and the role DRIVER only if there is
a profile.
`AverageInRange` is arithmetic: the nearest hundredth of a mean of a value in
1..5 stars and another is in that range, for every count.

A second invariant, `Kept`, says which ratings a row stands for. A rating is
counted once its request has added it to the row, one row (driver's, then
user's) at a time. A user row counts all ratings counted so far, unless the
account is `spoiled` (`RowsCount`), and of user rows and profiles alike the
average is in any case the mean of some of those ratings, as many as the row
counts (`RowsMean`). The same is true of the row that a request holds, however
old (`HeldMean`), a profile read for an availability save included, which is why
writing it back keeps `AveragesOfRatings` even where it loses a rating; a request that adds its own
rating adds one the row has not counted. `Promoted` says that a profile without
the role belongs to a registration that is about to save the role.

`IntakeProofs` proves the two formulas for all inputs (`SurgeCorrect`,
`FareCorrect`, from the properties of integer division), and from an invariant
on the locals and the cache that a stored fare comes from its own cell.
`BoundedBurst` is not inductive. The invariant `Windows` says, for each rider,
that there is a moment at which the counter he has now was opened, such that the
requests admitted since then got different answers from 1 to `Capacity`, and those
before it, which one window still remembers, different answers from 2 to
`Capacity`: the request that got 1 opened an earlier counter, which lives for a
window at least, so by now it is a window old. Together that is `2 * Capacity - 1`.
With `Expiring`, that a counter's EXPIRE is due from one request at most, it holds
for late and missing EXPIREs.

Only model-checked: liveness (`RequestsReturn`, `RequestedIsOffered`,
`StreamsEndWithRide`, `DisconnectsNoticed`, `RefusedRecover`, `SurgeRefreshed`),
which needs fairness and ENABLED and is out of the prover's reach.

## 5. Not modelled

- *Formats*: tokens, signatures and their expiry, cookies, password hashes,
  serializers, URLs, wire formats. They carry data the properties do not read.
- *Geometry*: `haversine_km` and `eta_minutes` are floating-point trigonometry,
  out of reach of TLC; a distance is an input. In `Dispatch` it is one
  of a few, from one pickup for all rides, and `MAX_RESULTS` cuts the search off;
  in `Intake` the same constant bounds how many drivers a search counts.
- *Reads*: history and profile endpoints, `find_nearby`, and the `clear()`
  methods, which are test helpers, change no state of the running system.
- *The limiter of /auth*: a second instance of the class `Intake` models.
- *Admin, migrations, settings, wiring*: generated or declarative. The unique
  constraints and the absence of `ATOMIC_REQUESTS` are modelled where the services
  rely on them.
- *Cancelled rides' offers*: they are never withdrawn (tasks.py:80-87 only closes
  the stream). This is how the code behaves and is visible in `Dispatch`:
  `OffersWithdrawn` speaks of rides that have found their driver.

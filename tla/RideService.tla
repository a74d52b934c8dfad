---------------------------- MODULE RideService ----------------------------
(***************************************************************************)
(* RideService and the availability half of DriverService, as request      *)
(* threads of the Django server run them.                                  *)
(*                                                                         *)
(* Every ORM call, Redis command and Kafka send is one atomic step; other  *)
(* threads run between two steps of a request.  A request that fails a     *)
(* guard before it has written anything leaves no trace and is not a step: *)
(* its guards are the guards of its Begin action.  accept_ride is the      *)
(* exception, since it is refused while it holds the accept lock.          *)
(***************************************************************************)
EXTENDS RideDomain, Integers

CONSTANTS
  RideIds,      \* the uuids available to new rides
  Threads,      \* request threads
  Procs,        \* server processes
  ProcOf,       \* the process each thread runs in
  Ops,          \* the operations clients call
  MaxRequests,  \* bound: how many requests are served
  MaxFailures   \* bound: how many requests die half way

AllOps == {"request", "accept", "start", "complete", "cancel",
           "online", "offline", "location", "rate"}

ASSUME ServiceAssumption ==
  /\ None \notin RideIds \cup Threads
  /\ ProcOf \in [Threads -> Procs]
  /\ Ops \subseteq AllOps
  /\ MaxRequests \in Nat
  /\ MaxFailures \in Nat

Topics == {"ride-requested", "ride-accepted", "ride-completed", "ride-cancelled"}

VARIABLES
  rides,       \* table rides: the row of each id
  past,        \* history: every row an id has had
  available,   \* drivers whose is_available column is true
  availSet,    \* Redis set drivers:available
  geo,         \* Redis geo index drivers:locations
  rated,       \* table ratings: the <<ride, from_user>> pairs it holds
  acceptLock,  \* RideService._accept_lock of each process: its holder or None
  published,   \* the topics each ride's id has been sent to
  credit,      \* history: times a driver was made available, less times an accept took him
  pc,          \* the next call of each thread
  req,         \* the locals of the request each thread serves
  started,     \* requests begun so far
  failures     \* requests failed half way so far

tables == <<rides, past>>
presence == <<available, availSet, geo, credit>>
events == <<rated, published>>
vars == <<tables, presence, events, acceptLock, pc, req, started, failures>>

(* `row` is the ride the request has read, `flag` the is_available value of *)
(* the driver row it will save.                                             *)
Request == [op   : AllOps \cup {"none"},
            user : Users \cup {None},
            rid  : RideIds \cup {None},
            row  : Ride \cup {NoRide},
            flag : BOOLEAN]

NoRequest ==
  [op |-> "none", user |-> None, rid |-> None, row |-> NoRide, flag |-> FALSE]

Steps == {"idle", "lock", "ride", "driver", "mark_pg", "mark_redis",
          "save", "publish", "rating"}

Init ==
  /\ rides = [r \in RideIds |-> NoRide]
  /\ past = [r \in RideIds |-> {}]
  /\ available = {}
  /\ availSet = {}
  /\ geo = {}
  /\ rated = {}
  /\ acceptLock = [p \in Procs |-> None]
  /\ published = [r \in RideIds |-> {}]
  /\ credit = [d \in Drivers |-> 0]
  /\ pc = [t \in Threads |-> "idle"]
  /\ req = [t \in Threads |-> NoRequest]
  /\ started = 0
  /\ failures = 0

-----------------------------------------------------------------------------
(* Control: what a request does after each of the shared steps. *)

\* Variant for the mutation runs: cancel_ride forgets to save the ride.
AfterMarkUnsaved ==
  [accept |-> "save", cancel |-> "publish", complete |-> "publish",
   online |-> "idle", offline |-> "idle", rate |-> "idle"]

AfterMark == [accept |-> "save", cancel |-> "save", complete |-> "publish",
              online |-> "idle", offline |-> "idle", rate |-> "idle"]

AfterSave == [request |-> "publish", accept |-> "publish", cancel |-> "publish",
              complete |-> "mark_pg", start |-> "idle"]

Goto(t, step) ==
  /\ pc' = [pc EXCEPT ![t] = step]
  /\ req' = IF step = "idle" THEN [req EXCEPT ![t] = NoRequest] ELSE req

HoldsLock(t) == acceptLock[ProcOf[t]] = t

\* Leaving the `with` block, by return or by exception.
LeaveLock(t) ==
  acceptLock' = IF HoldsLock(t) THEN [acceptLock EXCEPT ![ProcOf[t]] = None]
                                ELSE acceptLock

Serve(t, op) ==
  /\ pc[t] = "idle"
  /\ op \in Ops
  /\ started < MaxRequests
  /\ started' = started + 1
  /\ UNCHANGED failures

Begin(t, op, user, rid, row, flag, step) ==
  /\ Serve(t, op)
  /\ pc' = [pc EXCEPT ![t] = step]
  /\ req' = [req EXCEPT ![t] = [op |-> op, user |-> user, rid |-> rid,
                                row |-> row, flag |-> flag]]
  /\ UNCHANGED <<tables, events, acceptLock>>

\* Variant for the mutation runs: the check uses services._ACTIVE_RIDE_STATUSES.
HasDriverAssigned(user) ==
  \E r \in RideIds : rides[r].status \in {"MATCHED", "IN_PROGRESS"} /\ rides[r].rider = user

HasActiveRide(user) ==
  \E r \in RideIds : rides[r].status \in ACTIVE_RIDE_STATUSES /\ rides[r].rider = user

\* The driver whose row the request saves.
Target(q) ==
  IF q.op = "cancel" \/ (q.op = "rate" /\ q.user = q.row.rider) THEN q.row.driver
  ELSE IF q.op = "rate" THEN q.row.rider ELSE q.user

-----------------------------------------------------------------------------
(* The first step of each request: its reads and its guards. *)

\* Variant for the mutation runs: the id depends on the table alone.
FreshInTable(r) == rides[r] = NoRide

\* The uuid is drawn when the Ride is constructed, before it is saved.
Fresh(r) ==
  /\ rides[r] = NoRide
  /\ \A t \in Threads : req[t].op = "request" => req[t].rid # r

BeginRequest(t) == \E u \in Riders, r \in RideIds :
  /\ ~HasActiveRide(u)
  /\ Fresh(r)
  /\ Begin(t, "request", u, r, NoRide, FALSE, "save")
  /\ UNCHANGED presence

\* An id no row has is refused like a ride that has left REQUESTED.
BeginAccept(t) == \E d \in Drivers, r \in RideIds :
  /\ rides[r] # NoRide
  /\ Begin(t, "accept", d, r, NoRide, FALSE, "lock")
  /\ UNCHANGED presence

BeginStart(t) == \E d \in Drivers, r \in RideIds :
  /\ CanStart(rides[r], d)
  /\ Begin(t, "start", d, r, rides[r], FALSE, "save")
  /\ UNCHANGED presence

BeginComplete(t) == \E d \in Drivers, r \in RideIds :
  /\ CanComplete(rides[r], d)
  /\ Begin(t, "complete", d, r, rides[r], TRUE, "save")
  /\ UNCHANGED presence

\* Variants for the mutation runs: the driver is freed always, or never.
CancelAlwaysMarks(ride) == "mark_pg"
CancelNeverMarks(ride) == "save"

CancelFirst(ride) == IF ride.driver = None THEN "save" ELSE "mark_pg"

BeginCancel(t) == \E u \in Users, r \in RideIds :
  /\ CanCancel(rides[r], u)
  /\ Begin(t, "cancel", u, r, rides[r], TRUE, CancelFirst(rides[r]))
  /\ UNCHANGED presence

BeginOnline(t) == \E d \in Drivers :
  /\ Begin(t, "online", d, None, NoRide, TRUE, "mark_pg")
  /\ geo' = geo \cup {d}
  /\ UNCHANGED <<available, availSet, credit>>

BeginOffline(t) == \E d \in Drivers :
  /\ Begin(t, "offline", d, None, NoRide, FALSE, "mark_pg")
  /\ geo' = geo \ {d}
  /\ UNCHANGED <<available, availSet, credit>>

\* update_location writes the geo index and nothing else; it then only reads.
UpdateLocation(t) == \E d \in Drivers :
  /\ Serve(t, "location")
  /\ geo' = geo \cup {d}
  /\ UNCHANGED <<tables, events, acceptLock, pc, req, available, availSet, credit>>

BeginRate(t) == \E u \in Users, r \in RideIds :
  /\ rides[r].status = "COMPLETED"
  /\ u \in {rides[r].rider, rides[r].driver}
  /\ <<r, u>> \notin rated
  /\ Begin(t, "rate", u, r, rides[r], FALSE, "rating")
  /\ UNCHANGED presence

-----------------------------------------------------------------------------
(* accept_ride: the critical section. *)

\* Variant for the mutation runs: the sequence runs without a lock.
Unlocked(t) == TRUE

LockFree(t) == acceptLock[ProcOf[t]] = None

AcquireLock(t) ==
  /\ pc[t] = "lock"
  /\ LockFree(t)
  /\ acceptLock' = [acceptLock EXCEPT ![ProcOf[t]] = t]
  /\ Goto(t, "ride")
  /\ UNCHANGED <<tables, presence, events, started, failures>>

\* Variants for the mutation runs: the lock is not given back, or the refused
\* accept tries again.
RefuseHoldingLock(t) == UNCHANGED acceptLock /\ Goto(t, "idle")
RefuseAndRetry(t) == LeaveLock(t) /\ Goto(t, "lock")

RefuseAccept(t) ==
  /\ LeaveLock(t)
  /\ Goto(t, "idle")

AcceptReadRide(t) ==
  /\ pc[t] = "ride"
  /\ LET ride == rides[req[t].rid] IN
       \/ /\ CanAccept(ride)
          /\ pc' = [pc EXCEPT ![t] = "driver"]
          /\ req' = [req EXCEPT ![t].row = ride]
          /\ UNCHANGED acceptLock
       \/ ~CanAccept(ride) /\ RefuseAccept(t)
  /\ UNCHANGED <<tables, presence, events, started, failures>>

\* Variants for the mutation runs: the check reads the Redis mirror, or takes a
\* driver who is online for an available one.
IsInMirror(d) == d \in availSet
IsOnline(d) == d \in geo

IsAvailable(d) == d \in available

AcceptReadDriver(t) ==
  /\ pc[t] = "driver"
  /\ req[t].op = "accept"
  /\ \/ IsAvailable(req[t].user) /\ Goto(t, "mark_pg") /\ UNCHANGED acceptLock
     \/ ~IsAvailable(req[t].user) /\ RefuseAccept(t)
  /\ UNCHANGED <<tables, presence, events, started, failures>>

-----------------------------------------------------------------------------
(* Steps the requests share. *)

Write(r, ride) ==
  /\ rides' = [rides EXCEPT ![r] = ride]
  /\ past' = [past EXCEPT ![r] = @ \cup {ride}]

\* Variant for the mutation runs: the row is read again, the guards are not.
RowFromFreshRead(q) ==
  CASE q.op = "request"  -> NewRide(q.user)
    [] q.op = "accept"   -> Accepted(rides[q.rid], q.user)
    [] q.op = "start"    -> Started(rides[q.rid])
    [] q.op = "complete" -> Completed(rides[q.rid])
    [] q.op = "cancel"   -> Cancelled(rides[q.rid])

\* The row the request computes from the row it read.
RowToSave(q) ==
  CASE q.op = "request"  -> NewRide(q.user)
    [] q.op = "accept"   -> Accepted(q.row, q.user)
    [] q.op = "start"    -> Started(q.row)
    [] q.op = "complete" -> Completed(q.row)
    [] q.op = "cancel"   -> Cancelled(q.row)

\* RideRepository.save: the whole row, whatever the table holds by now.
SaveRide(t) ==
  /\ pc[t] = "save"
  /\ Write(req[t].rid, RowToSave(req[t]))
  /\ Goto(t, AfterSave[req[t].op])
  /\ UNCHANGED <<presence, events, acceptLock, started, failures>>

Credited(op) ==
  IF op = "accept" THEN -1 ELSE IF op \in {"online", "complete", "cancel"} THEN 1 ELSE 0

\* DriverRepository.save, first half: the column is_available.
MarkPg(t) ==
  /\ pc[t] = "mark_pg"
  /\ LET q == req[t]
         d == Target(q) IN
       /\ available' = IF q.flag THEN available \cup {d} ELSE available \ {d}
       /\ credit' = [credit EXCEPT ![d] = @ + Credited(q.op)]
  /\ Goto(t, "mark_redis")
  /\ UNCHANGED <<tables, availSet, geo, events, acceptLock, started, failures>>

\* Variant for the mutation runs: drivers are added to the mirror, never removed.
MarkRedisAddsOnly(t) ==
  /\ pc[t] = "mark_redis"
  /\ availSet' = availSet \cup {Target(req[t])}
  /\ Goto(t, AfterMark[req[t].op])
  /\ UNCHANGED <<tables, available, geo, credit, events, acceptLock, started, failures>>

\* DriverRepository.save, second half: SADD or SREM on drivers:available.
MarkRedis(t) ==
  /\ pc[t] = "mark_redis"
  /\ LET q == req[t]
         d == Target(q) IN
       availSet' = IF q.flag THEN availSet \cup {d} ELSE availSet \ {d}
  /\ Goto(t, AfterMark[req[t].op])
  /\ UNCHANGED <<tables, available, geo, credit, events, acceptLock, started, failures>>

TopicOf == [request |-> "ride-requested", accept |-> "ride-accepted",
            complete |-> "ride-completed", cancel |-> "ride-cancelled"]

\* The Kafka send, after which every request returns; accept_ride leaves the lock.
Publish(t) ==
  /\ pc[t] = "publish"
  /\ published' = [published EXCEPT ![req[t].rid] = @ \cup {TopicOf[req[t].op]}]
  /\ LeaveLock(t)
  /\ Goto(t, "idle")
  /\ UNCHANGED <<tables, presence, rated, started, failures>>

-----------------------------------------------------------------------------
(* RatingService.rate, as far as it touches the driver's row. *)

\* The insert; the unique constraint on (ride, from_user) turns the second of
\* two concurrent ratings away with an exception.
SaveRating(t) ==
  /\ pc[t] = "rating"
  /\ LET q == req[t] IN
       \/ /\ <<q.rid, q.user>> \notin rated
          /\ rated' = rated \cup {<<q.rid, q.user>>}
          /\ Goto(t, IF Target(q) \in Drivers THEN "driver" ELSE "idle")
       \/ /\ <<q.rid, q.user>> \in rated
          /\ Goto(t, "idle")
          /\ UNCHANGED rated
  /\ UNCHANGED <<tables, presence, published, acceptLock, started, failures>>

\* rate reads the driver's row and will write it back whole, is_available included.
RateReadDriver(t) ==
  /\ pc[t] = "driver"
  /\ req[t].op = "rate"
  /\ pc' = [pc EXCEPT ![t] = "mark_pg"]
  /\ req' = [req EXCEPT ![t].flag = IsAvailable(Target(req[t]))]
  /\ UNCHANGED <<tables, presence, events, acceptLock, started, failures>>

-----------------------------------------------------------------------------

\* A call raises (database, Redis or Kafka error, a lost connection) or the
\* process dies: nothing written is undone, and the lock is left.
Fail(t) ==
  /\ pc[t] # "idle"
  /\ failures < MaxFailures
  /\ failures' = failures + 1
  /\ LeaveLock(t)
  /\ Goto(t, "idle")
  /\ UNCHANGED <<tables, presence, events, started>>

Arrive(t) ==
  \/ BeginRequest(t) \/ BeginAccept(t) \/ BeginStart(t) \/ BeginComplete(t)
  \/ BeginCancel(t) \/ BeginOnline(t) \/ BeginOffline(t) \/ UpdateLocation(t)
  \/ BeginRate(t)

Step(t) ==
  \/ AcquireLock(t) \/ AcceptReadRide(t) \/ AcceptReadDriver(t)
  \/ SaveRide(t) \/ MarkPg(t) \/ MarkRedis(t) \/ Publish(t)
  \/ SaveRating(t) \/ RateReadDriver(t)

\* No request is being served: the server may stay so for ever.
Rest ==
  /\ \A t \in Threads : pc[t] = "idle"
  /\ UNCHANGED vars

Next == (\E t \in Threads : Arrive(t) \/ Step(t) \/ Fail(t)) \/ Rest

Spec == Init /\ [][Next]_vars

\* A running thread is scheduled; a free lock is given to a thread that waits.
FairSpec == Spec /\ \A t \in Threads : WF_vars(Step(t))

-----------------------------------------------------------------------------
(* Properties. *)

TypeOK ==
  /\ rides \in [RideIds -> Ride \cup {NoRide}]
  /\ past \in [RideIds -> SUBSET Ride]
  /\ available \in SUBSET Drivers
  /\ availSet \in SUBSET Drivers
  /\ geo \in SUBSET Drivers
  /\ rated \in SUBSET (RideIds \X Users)
  /\ acceptLock \in [Procs -> Threads \cup {None}]
  /\ published \in [RideIds -> SUBSET Topics]
  /\ credit \in [Drivers -> Int]
  /\ pc \in [Threads -> Steps]
  /\ req \in [Threads -> Request]
  /\ started \in 0..MaxRequests
  /\ failures \in 0..MaxFailures

\* The server runs as one process, so there is one accept lock.
SingleProcess == \A s, t \in Threads : ProcOf[s] = ProcOf[t]

InAccept(t) ==
  /\ req[t].op = "accept"
  /\ pc[t] \in {"ride", "driver", "mark_pg", "mark_redis", "save", "publish"}

\* The lock of a process names exactly the thread that is between lines 157
\* and 171 of accept_ride: no path out of the block, refused, failed or
\* returned, leaves it held, and none enters without it.
LockHeldExactlyInAccept ==
  \A t \in Threads : InAccept(t) <=> HoldsLock(t)

\* A ride is matched once: of all accepts that overlap, retry or follow each
\* other, whatever starts, cancels and failures come between, one writes a
\* MATCHED row.
MatchedOnce ==
  \A r \in RideIds : \A a, b \in past[r] :
    a.status = "MATCHED" /\ b.status = "MATCHED" => a = b

\* While an accept is past its status check, only a cancellation can have
\* changed the ride it is about to overwrite.
AcceptOverwritesOnlyCancel ==
  \A t \in Threads :
    InAccept(t) /\ pc[t] \in {"driver", "mark_pg", "mark_redis", "save"}
      => rides[req[t].rid].status \in {"REQUESTED", "CANCELLED"}

\* A driver is taken by an accept at most as often as he was made available:
\* two accepts never spend the same availability, although the check reads
\* the column and the write comes later.  Once a ride has been rated this is
\* lost, because rate writes a stale is_available back with the rest of the row.
AvailabilitySpentOnce == rated = {} => \A d \in Drivers : credit[d] >= 0

\* Handlers of an event find the row the event is about already stored.
EventsFollowRows ==
  \A r \in RideIds :
    LET had(status) == \E row \in past[r] : row.status = status IN
      /\ "ride-requested" \in published[r] => had("REQUESTED")
      /\ "ride-accepted" \in published[r] => had("MATCHED")
      /\ "ride-completed" \in published[r] => had("COMPLETED")
      /\ "ride-cancelled" \in published[r] => had("CANCELLED")

\* The ride table behaves like the ledger: overlapping requests overwrite each
\* other, but every row is a legal successor of one that was stored before.
Ledger == INSTANCE RideLedger
ImplementsLedger == Ledger!LedgerSpec

\* A ride once matched, started, completed or cancelled never becomes
\* REQUESTED again.
NeverReopened == Ledger!NeverReopened

\* Every row a ride ever had that names a driver names the same one: a rider is
\* never told of two drivers for one ride, and only one driver may start,
\* complete or be freed from it, however its rows overwrite each other.
OneDriverPerRide == Ledger!OneDriverPerRide

\* The version a row carries is decided by its status (a cancelled row apart),
\* and it has a fare exactly when it is COMPLETED: no overlap of requests
\* stores a cancelled ride with a fare, or a half-written transition.
RowsWellShaped == Ledger!RowsWellShaped

\* Every request returns: no thread is left behind, in particular none waits
\* for ever for a lock that a refused or failed accept did not give back.
RequestsReturn == \A t \in Threads : pc[t] # "idle" ~> pc[t] = "idle"

-----------------------------------------------------------------------------
(* What the service keeps when requests do not overlap (see SerialService), *)
(* and loses when they do.                                                  *)

AllIdle == \A t \in Threads : pc[t] = "idle"

\* A rider has at most one ride that is REQUESTED, MATCHED or IN_PROGRESS.
OneActiveRidePerRider ==
  \A a, b \in RideIds :
    /\ rides[a].status \in ACTIVE_RIDE_STATUSES
    /\ rides[b].status \in ACTIVE_RIDE_STATUSES
    /\ rides[a].rider = rides[b].rider
    => a = b

\* The statuses follow the ride's life: REQUESTED, MATCHED, IN_PROGRESS,
\* COMPLETED, with cancellation from the first two; a finished ride stays so.
FollowsLifeCycle ==
  [][\A r \in RideIds : rides'[r] # rides[r] =>
       <<rides[r].status, rides'[r].status>> \in
         {<<"NONE", "REQUESTED">>, <<"REQUESTED", "MATCHED">>,
          <<"MATCHED", "IN_PROGRESS">>, <<"IN_PROGRESS", "COMPLETED">>,
          <<"REQUESTED", "CANCELLED">>, <<"MATCHED", "CANCELLED">>,
          <<"CANCELLED", "CANCELLED">>}]_vars

\* A ride that is IN_PROGRESS is never cancelled.
InProgressNotCancelled ==
  [][\A r \in RideIds :
       rides[r].status = "IN_PROGRESS" => rides'[r].status # "CANCELLED"]_vars

\* Between requests, a driver who went online is available or has a ride to
\* drive: a cancelled or completed ride never leaves its driver stranded.
OnlineDriverIsFreeOrBusy ==
  AllIdle => \A d \in geo :
    \/ d \in available
    \/ \E r \in RideIds :
         rides[r].status \in {"MATCHED", "IN_PROGRESS"} /\ rides[r].driver = d

\* Between requests, the Redis set that dispatch reads mirrors the column that
\* accept_ride reads.
MirrorAgrees == AllIdle => availSet = available
=============================================================================

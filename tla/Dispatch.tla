------------------------------ MODULE Dispatch ------------------------------
(***************************************************************************)
(* The event pipeline: the services publish ride ids to Kafka, the bridge  *)
(* turns each message into a Celery task, and workers run the tasks, which *)
(* offer a requested ride to the drivers nearby and withdraw the offers    *)
(* once it is accepted.  A beat task publishes rides that wait too long.   *)
(*                                                                         *)
(* The ride table moves as RideLedger allows, which is all that            *)
(* RideService promises when requests overlap.  Every Redis command, query *)
(* and event of a task is one atomic step; other workers run in between.   *)
(*                                                                         *)
(* The tasks of completed and cancelled rides only close streams and are   *)
(* not part of this module.                                                *)
(***************************************************************************)
EXTENDS RideLedger, Sequences, FiniteSets

CONSTANTS
  Workers,    \* Celery worker processes
  Radius,     \* DEFAULT_SEARCH_RADIUS_KM, in whatever unit
  MaxResults, \* MAX_RESULTS
  Faults,     \* the faults that may happen, among AllFaults
  MaxWrites,  \* bound: writes to the ride table
  MaxMoves,   \* bound: changes of a driver's presence
  MaxFaults,  \* bound: faults
  MaxQueue    \* bound: tasks in the broker

AllFaults == {"lost",     \* a send or an enqueue is lost
              "reread",   \* the bridge restarts before it commits its offset
              "dies",     \* a task raises, or its worker is killed
              "expires"}  \* a dispatched set reaches its time to live

ASSUME DispatchAssumption ==
  /\ Faults \subseteq AllFaults
  /\ Radius \in Nat /\ MaxResults \in Nat \ {0}
  /\ MaxWrites \in Nat /\ MaxMoves \in Nat /\ MaxFaults \in Nat /\ MaxQueue \in Nat

VARIABLES
  geo,         \* distance of each driver in the geo index from the pickups
  availSet,    \* Redis set drivers:available
  log,         \* messages Kafka holds for the bridge
  queue,       \* tasks in the Celery broker, a Redis list
  wpc,         \* the next call of each worker
  task,        \* the task each worker runs
  todo,        \* drivers, or rides, the task has yet to work through
  dispatched,  \* Redis set dispatched:{ride}
  ttl,         \* rides whose dispatched set has a time to live
  shown,       \* for each driver, the rides whose last event to him is an offer
  old,         \* rides requested longer ago than RETRY_CUTOFF
  closed,      \* history: rides whose set a withdrawal has read
  lapsed,      \* history: who was on record for which ride when a set expired
  late,        \* history: offers made after a withdrawal had read the set
  stuck,       \* history: rides whose worker died between SADD and EXPIRE
  dropped,     \* history: rides whose ride-accepted was lost, or its task died
  writes, moves, faults

presence == <<geo, availSet, moves>>
table == <<rides, past, old, writes>>
worker == <<wpc, task, todo>>
history == <<closed, lapsed, late, stuck>>
offers == <<dispatched, ttl, shown, history>>
failures == <<faults, dropped>>
dispatchVars == <<table, presence, log, queue, worker, offers, failures>>

Topics == {"ride-requested", "ride-accepted"}
Message(topic, r) == [kind |-> topic, ride |-> r]
Retry == [kind |-> "retry", ride |-> None]
NoTask == [kind |-> "none", ride |-> None]

\* The two handlers and the beat task, and the first call of each.
FirstCall == [kind \in Topics \cup {"retry"} |->
  CASE kind = "ride-requested" -> "read requested"
    [] kind = "ride-accepted" -> "read accepted"
    [] kind = "retry" -> "read stale"]

\* Beyond the radius, or not in the index at all, a driver is nowhere.
Nowhere == Radius + 1

Init ==
  /\ LedgerInit
  /\ geo \in [Drivers -> 0..Nowhere]
  /\ availSet \in SUBSET Drivers
  /\ log = {}
  /\ queue = <<>>
  /\ wpc = [w \in Workers |-> "idle"]
  /\ task = [w \in Workers |-> NoTask]
  /\ todo = [w \in Workers |-> {}]
  /\ dispatched = [r \in RideIds |-> {}]
  /\ ttl = {}
  /\ shown = [d \in Drivers |-> {}]
  /\ old = {}
  /\ closed = {} /\ lapsed = {} /\ late = {} /\ stuck = {} /\ dropped = {}
  /\ writes = 0 /\ moves = 0 /\ faults = 0

Fault(kind) ==
  /\ kind \in Faults
  /\ faults < MaxFaults
  /\ faults' = faults + 1

\* A message is lost, or its task: nobody will handle it again.
GiveUp(kind, message) ==
  /\ Fault(kind)
  /\ dropped' = dropped \cup {r \in RideIds : message = Message("ride-accepted", r)}

-----------------------------------------------------------------------------
(* The services: the ride table, its events, the drivers' presence, time. *)

TopicOf == [REQUESTED |-> "ride-requested", MATCHED |-> "ride-accepted"]

\* send and flush: a send that fails asynchronously is lost without an error.
\* Copies of one message that wait together count as one: a second delivery is
\* a reread.
Publish(message) ==
  \/ log' = log \cup {message} /\ UNCHANGED failures
  \/ GiveUp("lost", message) /\ UNCHANGED log

\* A request saves a row and then publishes its event.
Serve(r) ==
  /\ writes < MaxWrites
  /\ writes' = writes + 1
  /\ Open(r) \/ Overwrite(r)
  /\ IF rides'[r].status \in DOMAIN TopicOf
       THEN Publish(Message(TopicOf[rides'[r].status], r))
       ELSE UNCHANGED <<log, failures>>
  /\ UNCHANGED <<old, presence, queue, worker, offers>>

\* A driver comes nearer or leaves, becomes available or not.
Move(d) ==
  /\ moves < MaxMoves
  /\ moves' = moves + 1
  /\ \/ /\ \E distance \in (0..Nowhere) \ {geo[d]} : geo' = [geo EXCEPT ![d] = distance]
        /\ UNCHANGED availSet
     \/ availSet' \in {availSet \cup {d}, availSet \ {d}} \ {availSet} /\ UNCHANGED geo
  /\ UNCHANGED <<table, log, queue, worker, offers, failures>>

Age(r) ==
  /\ rides[r] # NoRide
  /\ r \notin old
  /\ old' = old \cup {r}
  /\ UNCHANGED <<rides, past, writes, presence, log, queue, worker, offers, failures>>

-----------------------------------------------------------------------------
(* The bridge and the beat. *)

Enqueue(t) ==
  /\ Len(queue) < MaxQueue
  /\ queue' = Append(queue, t)

\* One turn of consume_forever.  The message is read again if the bridge
\* restarts before its offset is committed; an enqueue that fails is logged and
\* given up.
Forward(message) ==
  /\ message \in log
  /\ \/ Enqueue(message) /\ log' = log \ {message} /\ UNCHANGED failures
     \/ Enqueue(message) /\ Fault("reread") /\ UNCHANGED <<log, dropped>>
     \/ GiveUp("lost", message) /\ log' = log \ {message} /\ UNCHANGED queue
  /\ UNCHANGED <<table, presence, worker, offers>>

\* Beat, every 60 seconds.  Two beats in the queue would do no more than one.
Tick ==
  /\ \A i \in 1..Len(queue) : queue[i] # Retry
  /\ Enqueue(Retry)
  /\ UNCHANGED <<table, presence, log, worker, offers, failures>>

-----------------------------------------------------------------------------
(* The workers. *)

At(w, call) == wpc[w] = call

Continue(w, call, left) ==
  /\ wpc' = [wpc EXCEPT ![w] = call]
  /\ todo' = [todo EXCEPT ![w] = left]
  /\ UNCHANGED task

Return(w) ==
  /\ wpc' = [wpc EXCEPT ![w] = "idle"]
  /\ task' = [task EXCEPT ![w] = NoTask]
  /\ todo' = [todo EXCEPT ![w] = {}]

\* Variant: the early return on an empty result is missing.
ContinueAnyway(w, call, left) == Continue(w, call, left)

\* A task returns when there is nothing to work through, or nothing left.
ContinueUnlessEmpty(w, call, left) ==
  \/ left = {} /\ Return(w)
  \/ left # {} /\ Continue(w, call, left)

Take(w) ==
  /\ At(w, "idle")
  /\ queue # <<>>
  /\ queue' = Tail(queue)
  /\ task' = [task EXCEPT ![w] = Head(queue)]
  /\ wpc' = [wpc EXCEPT ![w] = FirstCall[Head(queue).kind]]
  /\ UNCHANGED <<table, presence, log, todo, offers, failures>>

\* handle_ride_requested: fan-out only if the row still says so.
StillRequested(ride) == ride.status = "REQUESTED"

ReadRequested(w) ==
  /\ At(w, "read requested")
  /\ \/ StillRequested(rides[task[w].ride]) /\ Continue(w, "geosearch", {})
     \/ ~StillRequested(rides[task[w].ride]) /\ Return(w)
  /\ UNCHANGED <<table, presence, log, queue, offers, failures>>

Within == {d \in Drivers : geo[d] <= Radius}

\* GEOSEARCH with sort ASC and a count: the nearest, however many they are and
\* whether or not they are available; of drivers equally far, some.
Nearest(found) ==
  /\ Cardinality(found) <= MaxResults
  /\ found # Within => Cardinality(found) = MaxResults
  /\ \A d \in found, e \in Within \ found : geo[d] <= geo[e]

GeoSearch(w) ==
  /\ At(w, "geosearch")
  /\ \E found \in SUBSET Within :
       Nearest(found) /\ ContinueUnlessEmpty(w, "smismember", found)
  /\ UNCHANGED <<table, presence, log, queue, offers, failures>>

\* Variant: the time to live of a key is set before the key exists.
FanOutExpireFirst == [smismember |-> "expire", expire |-> "sadd", sadd |-> "offer"]

\* The order of the calls of the fan-out.
FanOut == [smismember |-> "sadd", sadd |-> "expire", expire |-> "offer"]

Filter(w) ==
  /\ At(w, "smismember")
  /\ ContinueUnlessEmpty(w, FanOut.smismember, todo[w] \cap availSet)
  /\ UNCHANGED <<table, presence, log, queue, offers, failures>>

\* Variant: the set is overwritten with the latest candidates.
RecordedLatest(known, nearby) == nearby

\* What SADD leaves in the set.
Recorded(known, nearby) == known \cup nearby

Record(w) ==
  /\ At(w, "sadd")
  /\ dispatched' = [dispatched EXCEPT ![task[w].ride] = Recorded(@, todo[w])]
  /\ Continue(w, FanOut.sadd, todo[w])
  /\ UNCHANGED <<table, presence, log, queue, ttl, shown, history, failures>>

\* EXPIRE does nothing if another worker has deleted the key meanwhile.
SetTtl(w) ==
  /\ At(w, "expire")
  /\ ttl' = ttl \cup {r \in {task[w].ride} : dispatched[r] # {}}
  /\ stuck' = stuck \ {task[w].ride}
  /\ Continue(w, FanOut.expire, todo[w])
  /\ UNCHANGED <<table, presence, log, queue, dispatched, shown, closed, lapsed, late, failures>>

Offer(w) ==
  /\ At(w, "offer")
  /\ \E d \in todo[w] :
       /\ shown' = [shown EXCEPT ![d] = @ \cup {task[w].ride}]
       /\ late' = late \cup ({d} \X ({task[w].ride} \cap closed))
       /\ ContinueUnlessEmpty(w, "offer", todo[w] \ {d})
  /\ UNCHANGED <<table, presence, log, queue, dispatched, ttl, closed, lapsed, stuck, failures>>

\* handle_ride_accepted.  Until the set is read, `todo` holds who is spared.
ReadAccepted(w) ==
  /\ At(w, "read accepted")
  /\ IF rides[task[w].ride] = NoRide
       THEN Return(w)
       ELSE Continue(w, "smembers", {rides[task[w].ride].driver} \ {None})
  /\ UNCHANGED <<table, presence, log, queue, offers, failures>>

\* Variant for the mutation runs: the set is cleared and nobody told, which is
\* all that the handler did before events could be delivered.
ClearOnly(w, left) == Continue(w, "delete", {})

WithdrawThenClear(w, left) ==
  Continue(w, IF left = {} THEN "delete" ELSE "withdraw", left)

ReadDispatched(w) ==
  /\ At(w, "smembers")
  /\ WithdrawThenClear(w, dispatched[task[w].ride] \ todo[w])
  /\ closed' = closed \cup {task[w].ride}
  /\ UNCHANGED <<table, presence, log, queue, dispatched, ttl, shown, lapsed, late, stuck, failures>>

Withdraw(w) ==
  /\ At(w, "withdraw")
  /\ \E d \in todo[w] :
       /\ shown' = [shown EXCEPT ![d] = @ \ {task[w].ride}]
       /\ late' = late \ {<<d, task[w].ride>>}
       /\ WithdrawThenClear(w, todo[w] \ {d})
  /\ UNCHANGED <<table, presence, log, queue, dispatched, ttl, closed, lapsed, stuck, failures>>

Clear(w) ==
  /\ At(w, "delete")
  /\ dispatched' = [dispatched EXCEPT ![task[w].ride] = {}]
  /\ ttl' = ttl \ {task[w].ride}
  /\ stuck' = stuck \ {task[w].ride}
  /\ Return(w)
  /\ UNCHANGED <<table, presence, log, queue, shown, closed, lapsed, late, failures>>

\* Variant: the comparison with the cutoff is reversed.
IsRecent(r) == rides[r].status = "REQUESTED" /\ r \notin old

\* The query of retry_stale_rides.
IsStale(r) == rides[r].status = "REQUESTED" /\ r \in old

ReadStale(w) ==
  /\ At(w, "read stale")
  /\ ContinueUnlessEmpty(w, "republish", {r \in RideIds : IsStale(r)})
  /\ UNCHANGED <<table, presence, log, queue, offers, failures>>

Republish(w) ==
  /\ At(w, "republish")
  /\ \E r \in todo[w] :
       /\ Publish(Message("ride-requested", r))
       /\ ContinueUnlessEmpty(w, "republish", todo[w] \ {r})
  /\ UNCHANGED <<table, presence, queue, offers>>

\* A call of the task raises, or the worker is killed.  The broker has been
\* told of the task before it ran, and no task asks to be retried.
Die(w) ==
  /\ ~At(w, "idle")
  /\ GiveUp("dies", task[w])
  /\ stuck' = stuck \cup {r \in RideIds \ ttl : At(w, "expire") /\ task[w].ride = r}
  /\ Return(w)
  /\ UNCHANGED <<table, presence, log, queue, dispatched, ttl, shown, closed, lapsed, late>>

\* Redis deletes a set that has reached its time to live.
KeyExpires(r) ==
  /\ r \in ttl
  /\ Fault("expires")
  /\ dispatched' = [dispatched EXCEPT ![r] = {}]
  /\ ttl' = ttl \ {r}
  /\ lapsed' = lapsed \cup (dispatched[r] \X {r})
  /\ UNCHANGED <<table, presence, log, queue, worker, shown, closed, late, stuck, dropped>>

-----------------------------------------------------------------------------

HandleRequested(w) ==
  \/ ReadRequested(w) \/ GeoSearch(w) \/ Filter(w)
  \/ Record(w) \/ SetTtl(w) \/ Offer(w)

HandleAccepted(w) ==
  ReadAccepted(w) \/ ReadDispatched(w) \/ Withdraw(w) \/ Clear(w)

RetryStale(w) == ReadStale(w) \/ Republish(w)

Work(w) == Take(w) \/ HandleRequested(w) \/ HandleAccepted(w) \/ RetryStale(w)

Next ==
  \/ \E r \in RideIds : Serve(r) \/ Age(r) \/ KeyExpires(r)
  \/ \E d \in Drivers : Move(d)
  \/ \E message \in log : Forward(message)
  \/ Tick
  \/ \E w \in Workers : Work(w) \/ Die(w)

Spec == Init /\ [][Next]_dispatchVars

\* The processes run and time passes; of the services and the drivers nothing
\* is assumed.
FairSpec ==
  /\ Spec
  /\ \A topic \in Topics, r \in RideIds : WF_dispatchVars(Forward(Message(topic, r)))
  /\ \A r \in RideIds : WF_dispatchVars(Age(r))
  /\ WF_dispatchVars(Tick)
  /\ \A w \in Workers : WF_dispatchVars(Work(w))

-----------------------------------------------------------------------------

Task == [kind : Topics, ride : RideIds]

Call == {"idle", "read requested", "geosearch", "smismember", "sadd", "expire",
         "offer", "read accepted", "smembers", "withdraw", "delete",
         "read stale", "republish"}

\* What a worker has in hand at each call.
InHand(call, t, left) ==
  CASE call = "idle" -> t = NoTask /\ left = {}
    [] call = "read stale" -> t = Retry /\ left = {}
    [] call = "republish" -> t = Retry /\ left \in (SUBSET RideIds) \ {{}}
    [] call \in {"read requested", "geosearch", "read accepted", "delete"} ->
         t \in Task /\ left = {}
    [] call = "smembers" -> t \in Task /\ left \subseteq Drivers
    [] OTHER -> t \in Task /\ left \in (SUBSET Drivers) \ {{}}

WorkersOK ==
  /\ wpc \in [Workers -> Call]
  /\ task \in [Workers -> Task \cup {Retry, NoTask}]
  /\ todo \in [Workers -> (SUBSET Drivers) \cup (SUBSET RideIds)]
  /\ \A w \in Workers : InHand(wpc[w], task[w], todo[w])

\* The types of the variables; what a worker has in hand fits its next call,
\* and no call that needs an argument is made without one (SADD of no members
\* is an error in Redis).
TypeOK ==
  /\ LedgerTypeOK
  /\ geo \in [Drivers -> 0..Nowhere] /\ availSet \subseteq Drivers
  /\ log \subseteq Task
  /\ queue \in Seq(Task \cup {Retry})
  /\ WorkersOK
  /\ dispatched \in [RideIds -> SUBSET Drivers]
  /\ ttl \subseteq RideIds
  /\ shown \in [Drivers -> SUBSET RideIds]
  /\ old \subseteq RideIds
  /\ closed \subseteq RideIds /\ stuck \subseteq RideIds /\ dropped \subseteq RideIds
  /\ lapsed \subseteq Drivers \X RideIds /\ late \subseteq Drivers \X RideIds
  /\ writes \in 0..MaxWrites /\ moves \in 0..MaxMoves /\ faults \in 0..MaxFaults

\* As long as nobody has begun to withdraw a ride, every driver who holds an
\* offer of it is in its dispatched set, so the withdrawal will reach him, unless
\* the set expired with him in it: through repeated fan-outs to changing
\* candidates, duplicated messages and tasks that die half way.
OfferedIsRecorded ==
  \A r \in RideIds \ closed : \A d \in Drivers :
    r \in shown[d] => d \in dispatched[r] \/ <<d, r>> \in lapsed

\* A dispatched set without a time to live is about to get one, whatever
\* fan-outs and withdrawals of one ride overlap.  The one exception: the worker
\* that was to set it died between SADD and EXPIRE, and then the set stays until
\* the next fan-out or withdrawal of the ride reaches it.
RecordsExpire ==
  \A r \in RideIds \ stuck : dispatched[r] # {} =>
    r \in ttl \/ \E w \in Workers : At(w, "expire") /\ task[w].ride = r

Quiet == log = {} /\ queue = <<>> /\ \A w \in Workers : At(w, "idle")

FoundDriver(r) == rides[r].status \in {"MATCHED", "IN_PROGRESS", "COMPLETED"}

\* When the pipeline has caught up, whoever still holds an offer of a ride that
\* found another driver (dispatch.py:122-123 has him told) does so for one of
\* three reasons: the ride-accepted of the ride was lost or its task died, the
\* offer was made after the withdrawal had read the set, or the set expired
\* before.  No other order of overlapping fan-outs, withdrawals, retries and
\* requests leaves one behind.
OffersWithdrawn ==
  Quiet => \A r \in RideIds \ dropped : FoundDriver(r) =>
    \A d \in Drivers : r \in shown[d] =>
      d = rides[r].driver \/ <<d, r>> \in late \cup lapsed

\* "every driver who was offered this ride but didn't accept it gets an
\* offer.cancelled" (dispatch.py:122-123), as it stands.
EveryLoserIsTold ==
  Quiet => \A r \in RideIds : FoundDriver(r) =>
    \A d \in Drivers : r \in shown[d] => d = rides[r].driver

\* Fewer than MaxResults others are as near as d, so no search leaves him out.
AmongNearest(d) ==
  d \in Within /\ Cardinality({e \in Within \ {d} : geo[e] <= geo[d]}) < MaxResults

\* A ride that goes on waiting is offered to every driver who stays available
\* and among the MaxResults nearest, whatever was lost before: the retry makes up
\* for it.  A driver behind that many nearer ones, available or not, has no
\* such claim: the search is cut off before it asks who is available.
RequestedIsOffered ==
  \A r \in RideIds, d \in Drivers :
    <>[](rides[r].status = "REQUESTED" /\ d \in availSet /\ AmongNearest(d))
      => <>(r \in shown[d])
=============================================================================

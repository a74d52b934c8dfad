--------------------------- MODULE DispatchProofs ---------------------------
(***************************************************************************)
(* Types of the event pipeline, that every offer is on record, and that    *)
(* records expire: for any number of workers, rides and drivers.           *)
(***************************************************************************)
EXTENDS Dispatch, TLAPS

-----------------------------------------------------------------------------
(* The ride table. *)

LEMMA SuccessorTypes ==
  ASSUME NEW ride \in Ride
  PROVE  Successors(ride) \subseteq Ride
<1>1. ride.version + 1 \in Nat
  BY DEF Ride
<1>2. \A v \in Nat :
        /\ \A d \in Drivers :
             [ride EXCEPT !.driver = d, !.status = "MATCHED", !.version = v] \in Ride
        /\ [ride EXCEPT !.status = "IN_PROGRESS", !.version = v] \in Ride
        /\ [ride EXCEPT !.status = "COMPLETED", !.fare = "set", !.version = v] \in Ride
        /\ [ride EXCEPT !.status = "CANCELLED", !.version = v] \in Ride
  BY DEF Ride, RideStatus
<1>3. /\ \A d \in Drivers : Accepted(ride, d) \in Ride
      /\ Started(ride) \in Ride /\ Completed(ride) \in Ride /\ Cancelled(ride) \in Ride
  BY <1>1, <1>2 DEF Accepted, Started, Completed, Cancelled
<1> QED BY <1>3 DEF Successors

LEMMA StoreTypes ==
  ASSUME LedgerTypeOK, NEW r \in RideIds, NEW ride \in Ride, Store(r, ride)
  PROVE  LedgerTypeOK'
BY DEF Store, LedgerTypeOK

LEMMA LedgerTypes ==
  ASSUME LedgerTypeOK, NEW r \in RideIds, Open(r) \/ Overwrite(r)
  PROVE  LedgerTypeOK'
<1>1. CASE Open(r)
  <2>1. PICK u \in Riders : Store(r, NewRide(u))
    BY <1>1 DEF Open
  <2>2. NewRide(u) \in Ride
    BY DEF NewRide, Ride, RideStatus
  <2> QED BY <2>1, <2>2, StoreTypes
<1>2. CASE Overwrite(r)
  <2>1. PICK before \in past[r] : \E new \in Successors(before) : Store(r, new)
    BY <1>2 DEF Overwrite
  <2>2. before \in Ride
    BY <2>1 DEF LedgerTypeOK
  <2> QED BY <2>1, <2>2, SuccessorTypes, StoreTypes
<1> QED BY <1>1, <1>2

-----------------------------------------------------------------------------
(* The workers. *)

LEMMA MessageTypes ==
  ASSUME NEW topic \in Topics, NEW r \in RideIds
  PROVE  Message(topic, r) \in Task
BY DEF Message, Task

LEMMA RetryIsNoTask == Retry \notin Task /\ NoTask \notin Task /\ Retry # NoTask
BY DEF Retry, NoTask, Task, Topics

LEMMA FirstCalls ==
  ASSUME NEW t \in Task \cup {Retry}
  PROVE  FirstCall[t.kind] \in Call /\ InHand(FirstCall[t.kind], t, {})
<1>1. /\ FirstCall["ride-requested"] = "read requested"
      /\ FirstCall["ride-accepted"] = "read accepted"
      /\ FirstCall["retry"] = "read stale"
  BY DEF FirstCall, Topics
<1>2. CASE t \in Task
  <2>1. t.kind = "ride-requested" \/ t.kind = "ride-accepted"
    BY <1>2 DEF Task, Topics
  <2> QED BY <1>1, <1>2, <2>1 DEF Call, InHand
<1>3. CASE t = Retry
  <2>1. t.kind = "retry"
    BY <1>3 DEF Retry
  <2> QED BY <1>1, <1>3, <2>1 DEF Call, InHand
<1> QED BY <1>2, <1>3

LEMMA ContinueTypes ==
  ASSUME WorkersOK, NEW w \in Workers, NEW call \in Call,
         NEW left \in (SUBSET Drivers) \cup (SUBSET RideIds),
         InHand(call, task[w], left), Continue(w, call, left)
  PROVE  WorkersOK'
<1>1. \A v \in Workers : InHand(wpc'[v], task'[v], todo'[v])
  BY DEF Continue, WorkersOK
<1> QED BY <1>1 DEF Continue, WorkersOK

LEMMA ReturnTypes ==
  ASSUME WorkersOK, NEW w \in Workers, Return(w)
  PROVE  WorkersOK'
<1>1. InHand("idle", NoTask, {})
  BY DEF InHand
<1>2. \A v \in Workers : InHand(wpc'[v], task'[v], todo'[v])
  BY <1>1 DEF Return, WorkersOK
<1> QED BY <1>2 DEF Return, WorkersOK, Call

LEMMA ContinueUnlessEmptyTypes ==
  ASSUME WorkersOK, NEW w \in Workers, NEW call \in Call,
         NEW left \in (SUBSET Drivers) \cup (SUBSET RideIds),
         left # {} => InHand(call, task[w], left), ContinueUnlessEmpty(w, call, left)
  PROVE  WorkersOK'
BY ContinueTypes, ReturnTypes DEF ContinueUnlessEmpty

\* What the task in hand is, and what is left of it, at each kind of call.
LEMMA AtCall ==
  ASSUME WorkersOK, NEW w \in Workers
  PROVE  /\ wpc[w] \in {"read requested", "geosearch", "read accepted", "delete"}
              => task[w] \in Task /\ task[w].ride \in RideIds /\ todo[w] = {}
         /\ wpc[w] \in {"smismember", "sadd", "expire", "offer", "withdraw"}
              => /\ task[w] \in Task /\ task[w].ride \in RideIds
                 /\ todo[w] \subseteq Drivers /\ todo[w] # {}
         /\ wpc[w] = "smembers"
              => task[w] \in Task /\ task[w].ride \in RideIds /\ todo[w] \subseteq Drivers
         /\ wpc[w] = "read stale" => task[w] = Retry /\ todo[w] = {}
         /\ wpc[w] = "republish" => task[w] = Retry /\ todo[w] \subseteq RideIds /\ todo[w] # {}
<1>1. InHand(wpc[w], task[w], todo[w])
  BY DEF WorkersOK
<1>2. \A x \in Task : x.ride \in RideIds
  BY DEF Task
<1>3. CASE wpc[w] \in {"read requested", "geosearch", "read accepted", "delete"}
  BY <1>1, <1>2, <1>3 DEF InHand
<1>4. CASE wpc[w] \in {"smismember", "sadd", "expire", "offer", "withdraw"}
  <2>1. task[w] \in Task /\ todo[w] \in (SUBSET Drivers) \ {{}}
    BY <1>1, <1>4 DEF InHand
  <2>2. todo[w] \subseteq Drivers /\ todo[w] # {} /\ task[w].ride \in RideIds
    BY <1>2, <2>1
  <2> QED BY <1>4, <2>1, <2>2
<1>5. CASE wpc[w] = "smembers"
  BY <1>1, <1>2, <1>5 DEF InHand
<1>6. CASE wpc[w] = "read stale"
  BY <1>1, <1>6 DEF InHand
<1>7. CASE wpc[w] = "republish"
  BY <1>1, <1>7 DEF InHand
<1>8. CASE wpc[w] = "idle"
  BY <1>8
<1>9. wpc[w] \in Call
  BY DEF WorkersOK
<1> QED BY <1>3, <1>4, <1>5, <1>6, <1>7, <1>8, <1>9 DEF Call

-----------------------------------------------------------------------------
(* Types. *)

LEMMA FaultTypes ==
  ASSUME TypeOK, NEW kind, Fault(kind)
  PROVE  faults' \in 0..MaxFaults
BY DispatchAssumption DEF TypeOK, Fault

LEMMA GiveUpTypes ==
  ASSUME TypeOK, NEW kind, NEW message, GiveUp(kind, message)
  PROVE  faults' \in 0..MaxFaults /\ dropped' \subseteq RideIds
BY FaultTypes DEF GiveUp, TypeOK

LEMMA PublishTypes ==
  ASSUME TypeOK, NEW message \in Task, Publish(message)
  PROVE  log' \subseteq Task /\ faults' \in 0..MaxFaults /\ dropped' \subseteq RideIds
BY GiveUpTypes DEF Publish, TypeOK, failures

LEMMA EnqueueTypes ==
  ASSUME TypeOK, NEW t \in Task \cup {Retry}, Enqueue(t)
  PROVE  queue' \in Seq(Task \cup {Retry})
BY DEF Enqueue, TypeOK

LEMMA ServeTypes ==
  ASSUME TypeOK, NEW r \in RideIds, Serve(r)
  PROVE  TypeOK'
<1>1. LedgerTypeOK'
  BY LedgerTypes DEF Serve, TypeOK
<1>2. log' \subseteq Task /\ faults' \in 0..MaxFaults /\ dropped' \subseteq RideIds
  <2>1. CASE rides'[r].status \in DOMAIN TopicOf
    <3>1. TopicOf[rides'[r].status] \in Topics
      BY <2>1 DEF TopicOf, Topics
    <3> QED BY <2>1, <3>1, MessageTypes, PublishTypes DEF Serve
  <2>2. CASE rides'[r].status \notin DOMAIN TopicOf
    BY <2>2 DEF Serve, TypeOK, failures
  <2> QED BY <2>1, <2>2
<1>3. writes' \in 0..MaxWrites
  BY DispatchAssumption DEF Serve, TypeOK
<1> QED
  BY <1>1, <1>2, <1>3 DEF Serve, TypeOK, WorkersOK, presence, worker, offers, history

LEMMA MoveTypes ==
  ASSUME TypeOK, NEW d \in Drivers, Move(d)
  PROVE  TypeOK'
<1>1. geo' \in [Drivers -> 0..Nowhere] /\ availSet' \subseteq Drivers
  BY DEF Move, TypeOK
<1>2. moves' \in 0..MaxMoves
  BY DispatchAssumption DEF Move, TypeOK
<1> QED
  BY <1>1, <1>2
  DEF Move, TypeOK, LedgerTypeOK, WorkersOK, table, worker, offers, history, failures

LEMMA AgeTypes ==
  ASSUME TypeOK, NEW r \in RideIds, Age(r)
  PROVE  TypeOK'
BY DEF Age, TypeOK, LedgerTypeOK, WorkersOK, presence, worker, offers, history, failures

LEMMA ForwardTypes ==
  ASSUME TypeOK, NEW message \in log, Forward(message)
  PROVE  TypeOK'
<1>1. message \in Task
  BY DEF TypeOK
<1>2. queue' \in Seq(Task \cup {Retry})
  BY <1>1, EnqueueTypes DEF Forward, TypeOK
<1>3. faults' \in 0..MaxFaults /\ dropped' \subseteq RideIds
  BY FaultTypes, GiveUpTypes DEF Forward, TypeOK, failures
<1> QED
  BY <1>2, <1>3
  DEF Forward, TypeOK, LedgerTypeOK, WorkersOK, table, presence, worker, offers, history

LEMMA TickTypes ==
  ASSUME TypeOK, Tick
  PROVE  TypeOK'
<1>1. queue' \in Seq(Task \cup {Retry})
  BY EnqueueTypes DEF Tick
<1> QED
  BY <1>1
  DEF Tick, TypeOK, LedgerTypeOK, WorkersOK, table, presence, worker, offers, history, failures

LEMMA TakeTypes ==
  ASSUME TypeOK, NEW w \in Workers, Take(w)
  PROVE  TypeOK'
<1> DEFINE t == Head(queue)
<1>1. t \in Task \cup {Retry} /\ queue' \in Seq(Task \cup {Retry})
  BY DEF Take, TypeOK
<1>2. todo[w] = {}
  BY DEF Take, At, TypeOK, WorkersOK, InHand
<1>3. FirstCall[t.kind] \in Call /\ InHand(FirstCall[t.kind], t, {})
  BY <1>1, FirstCalls
<1>4. WorkersOK'
  <2> HIDE DEF t
  <2>1. /\ wpc' = [wpc EXCEPT ![w] = FirstCall[t.kind]]
        /\ task' = [task EXCEPT ![w] = t]
        /\ todo' = todo
    BY DEF Take, t
  <2>2. \A v \in Workers : InHand(wpc'[v], task'[v], todo'[v])
    BY <1>2, <1>3, <2>1 DEF TypeOK, WorkersOK
  <2> QED BY <1>1, <1>3, <2>1, <2>2 DEF TypeOK, WorkersOK
<1> QED
  BY <1>1, <1>4 DEF Take, TypeOK, LedgerTypeOK, table, presence, offers, history, failures

OffersOK ==
  /\ dispatched \in [RideIds -> SUBSET Drivers] /\ ttl \subseteq RideIds
  /\ shown \in [Drivers -> SUBSET RideIds]
  /\ closed \subseteq RideIds /\ stuck \subseteq RideIds
  /\ lapsed \subseteq Drivers \X RideIds /\ late \subseteq Drivers \X RideIds

\* A step of a handler is typed if what it does to the workers and to its own
\* variables is.
LEMMA WorkerStepTypes ==
  ASSUME TypeOK, WorkersOK', UNCHANGED <<table, presence, queue>>,
         log' \subseteq Task, faults' \in 0..MaxFaults, dropped' \subseteq RideIds,
         UNCHANGED offers \/ OffersOK'
  PROVE  TypeOK'
BY DEF TypeOK, LedgerTypeOK, table, presence, offers, history, OffersOK

LEMMA RequestedTypes ==
  ASSUME TypeOK, NEW w \in Workers, HandleRequested(w)
  PROVE  TypeOK'
<1> USE DEF At
<1>0. WorkersOK /\ wpc[w] \in Call
  BY DEF TypeOK, WorkersOK
<1>1. CASE ReadRequested(w)
  <2>1. InHand("geosearch", task[w], {})
    BY <1>0, <1>1, AtCall DEF ReadRequested, InHand
  <2>2. WorkersOK'
    BY <1>0, <1>1, <2>1, ContinueTypes, ReturnTypes DEF ReadRequested, Call
  <2> QED BY <1>1, <2>2, WorkerStepTypes DEF ReadRequested, TypeOK, failures
<1>2. CASE GeoSearch(w)
  <2>1. PICK found \in SUBSET Within : ContinueUnlessEmpty(w, "smismember", found)
    BY <1>2 DEF GeoSearch
  <2>2. found \subseteq Drivers /\ (found # {} => InHand("smismember", task[w], found))
    BY <1>0, <1>2, AtCall DEF GeoSearch, InHand, Within
  <2>3. WorkersOK'
    BY <1>0, <2>1, <2>2, ContinueUnlessEmptyTypes DEF Call
  <2> QED BY <1>2, <2>3, WorkerStepTypes DEF GeoSearch, TypeOK, failures
<1>3. CASE Filter(w)
  <2> DEFINE left == todo[w] \cap availSet
  <2>1. left \subseteq Drivers /\ (left # {} => InHand("sadd", task[w], left))
    BY <1>0, <1>3, AtCall DEF Filter, InHand, TypeOK
  <2>2. WorkersOK'
    BY <1>0, <1>3, <2>1, ContinueUnlessEmptyTypes DEF Filter, FanOut, Call
  <2> QED BY <1>3, <2>2, WorkerStepTypes DEF Filter, TypeOK, failures
<1>4. CASE Record(w)
  <2>1. todo[w] \subseteq Drivers /\ task[w].ride \in RideIds /\ InHand("expire", task[w], todo[w])
    BY <1>0, <1>4, AtCall DEF Record, InHand
  <2>2. WorkersOK'
    BY <1>0, <1>4, <2>1, ContinueTypes DEF Record, FanOut, Call
  <2>3. dispatched' \in [RideIds -> SUBSET Drivers]
    BY <1>4, <2>1 DEF Record, Recorded, TypeOK
  <2> QED
    BY <1>4, <2>2, <2>3, WorkerStepTypes DEF Record, TypeOK, OffersOK, history, failures
<1>5. CASE SetTtl(w)
  <2>1. todo[w] \subseteq Drivers /\ task[w].ride \in RideIds /\ InHand("offer", task[w], todo[w])
    BY <1>0, <1>5, AtCall DEF SetTtl, InHand
  <2>2. WorkersOK'
    BY <1>0, <1>5, <2>1, ContinueTypes DEF SetTtl, FanOut, Call
  <2>3. OffersOK'
    BY <1>5, <2>1 DEF SetTtl, OffersOK, TypeOK
  <2> QED BY <1>5, <2>2, <2>3, WorkerStepTypes DEF SetTtl, TypeOK, failures
<1>6. CASE Offer(w)
  <2>1. /\ todo[w] \subseteq Drivers /\ task[w].ride \in RideIds
        /\ \A left \in SUBSET todo[w] : left # {} => InHand("offer", task[w], left)
    BY <1>0, <1>6, AtCall DEF Offer, InHand
  <2>2. PICK d \in todo[w] :
          /\ shown' = [shown EXCEPT ![d] = @ \cup {task[w].ride}]
          /\ late' = late \cup ({d} \X ({task[w].ride} \cap closed))
          /\ ContinueUnlessEmpty(w, "offer", todo[w] \ {d})
    BY <1>6 DEF Offer
  <2>3. WorkersOK'
    BY <1>0, <2>1, <2>2, ContinueUnlessEmptyTypes DEF Call
  <2>4. shown' \in [Drivers -> SUBSET RideIds] /\ late' \subseteq Drivers \X RideIds
    BY <2>1, <2>2 DEF TypeOK
  <2>5. OffersOK'
    BY <1>6, <2>4 DEF Offer, OffersOK, TypeOK
  <2> QED BY <1>6, <2>3, <2>5, WorkerStepTypes DEF Offer, TypeOK, failures
<1> QED BY <1>1, <1>2, <1>3, <1>4, <1>5, <1>6 DEF HandleRequested

LEMMA WithdrawThenClearTypes ==
  ASSUME TypeOK, NEW w \in Workers, task[w] \in Task, NEW left \in SUBSET Drivers,
         WithdrawThenClear(w, left)
  PROVE  WorkersOK'
<1>1. left # {} => InHand("withdraw", task[w], left)
  BY DEF InHand
<1>2. InHand("delete", task[w], {})
  BY DEF InHand
<1> QED BY <1>1, <1>2, ContinueTypes DEF WithdrawThenClear, TypeOK, Call

LEMMA AcceptedTypes ==
  ASSUME TypeOK, NEW w \in Workers, HandleAccepted(w)
  PROVE  TypeOK'
<1> USE DEF At
<1>0. WorkersOK /\ wpc[w] \in Call
  BY DEF TypeOK, WorkersOK
<1>1. CASE ReadAccepted(w)
  <2> DEFINE ride == rides[task[w].ride]
  <2>1. task[w] \in Task /\ task[w].ride \in RideIds
    BY <1>0, <1>1, AtCall DEF ReadAccepted
  <2>2. ride # NoRide => {ride.driver} \ {None} \subseteq Drivers
    BY <2>1 DEF TypeOK, LedgerTypeOK, Ride
  <2>3. ride # NoRide => InHand("smembers", task[w], {ride.driver} \ {None})
    BY <2>1, <2>2 DEF InHand
  <2>4. WorkersOK'
    BY <1>0, <1>1, <2>2, <2>3, ContinueTypes, ReturnTypes DEF ReadAccepted, Call
  <2> QED BY <1>1, <2>4, WorkerStepTypes DEF ReadAccepted, TypeOK, failures
<1>2. CASE ReadDispatched(w)
  <2>1. task[w] \in Task /\ task[w].ride \in RideIds
    BY <1>0, <1>2, AtCall DEF ReadDispatched
  <2>2. dispatched[task[w].ride] \ todo[w] \subseteq Drivers
    BY <2>1 DEF TypeOK
  <2>3. WorkersOK'
    BY <1>2, <2>1, <2>2, WithdrawThenClearTypes DEF ReadDispatched
  <2>4. OffersOK'
    BY <1>2, <2>1 DEF ReadDispatched, OffersOK, TypeOK
  <2> QED BY <1>2, <2>3, <2>4, WorkerStepTypes DEF ReadDispatched, TypeOK, failures
<1>3. CASE Withdraw(w)
  <2>1. task[w] \in Task /\ task[w].ride \in RideIds /\ todo[w] \subseteq Drivers
    BY <1>0, <1>3, AtCall DEF Withdraw
  <2>2. PICK d \in todo[w] :
          /\ shown' = [shown EXCEPT ![d] = @ \ {task[w].ride}]
          /\ late' = late \ {<<d, task[w].ride>>}
          /\ WithdrawThenClear(w, todo[w] \ {d})
    BY <1>3 DEF Withdraw
  <2>3. WorkersOK'
    BY <2>1, <2>2, WithdrawThenClearTypes
  <2>4. shown' \in [Drivers -> SUBSET RideIds] /\ late' \subseteq Drivers \X RideIds
    BY <2>2 DEF TypeOK
  <2>5. OffersOK'
    BY <1>3, <2>4 DEF Withdraw, OffersOK, TypeOK
  <2> QED BY <1>3, <2>3, <2>5, WorkerStepTypes DEF Withdraw, TypeOK, failures
<1>4. CASE Clear(w)
  <2>1. WorkersOK'
    BY <1>0, <1>4, ReturnTypes DEF Clear
  <2>2. OffersOK'
    BY <1>4 DEF Clear, OffersOK, TypeOK
  <2> QED BY <1>4, <2>1, <2>2, WorkerStepTypes DEF Clear, TypeOK, failures
<1> QED BY <1>1, <1>2, <1>3, <1>4 DEF HandleAccepted

LEMMA RetryTypes ==
  ASSUME TypeOK, NEW w \in Workers, RetryStale(w)
  PROVE  TypeOK'
<1> USE DEF At
<1>0. WorkersOK
  BY DEF TypeOK
<1>1. CASE ReadStale(w)
  <2> DEFINE stale == {r \in RideIds : IsStale(r)}
  <2>1. stale # {} => InHand("republish", task[w], stale)
    BY <1>0, <1>1, AtCall DEF ReadStale, InHand
  <2>2. WorkersOK'
    BY <1>0, <1>1, <2>1, ContinueUnlessEmptyTypes DEF ReadStale, Call
  <2> QED BY <1>1, <2>2, WorkerStepTypes DEF ReadStale, TypeOK, failures
<1>2. CASE Republish(w)
  <2>1. /\ todo[w] \subseteq RideIds
        /\ \A left \in SUBSET todo[w] : left # {} => InHand("republish", task[w], left)
    BY <1>0, <1>2, AtCall DEF Republish, InHand
  <2>2. PICK r \in todo[w] :
          /\ Publish(Message("ride-requested", r))
          /\ ContinueUnlessEmpty(w, "republish", todo[w] \ {r})
    BY <1>2 DEF Republish
  <2>3. WorkersOK'
    BY <1>0, <2>1, <2>2, ContinueUnlessEmptyTypes DEF Call
  <2>4. log' \subseteq Task /\ faults' \in 0..MaxFaults /\ dropped' \subseteq RideIds
    BY <2>1, <2>2, MessageTypes, PublishTypes DEF Topics
  <2> QED BY <1>2, <2>3, <2>4, WorkerStepTypes DEF Republish
<1> QED BY <1>1, <1>2 DEF RetryStale

LEMMA FaultStepTypes ==
  ASSUME TypeOK, \/ \E w \in Workers : Die(w)
                 \/ \E r \in RideIds : KeyExpires(r)
  PROVE  TypeOK'
<1>1. ASSUME NEW w \in Workers, Die(w)
      PROVE  TypeOK'
  <2>1. WorkersOK' /\ faults' \in 0..MaxFaults /\ dropped' \subseteq RideIds
    BY <1>1, ReturnTypes, GiveUpTypes DEF Die, TypeOK
  <2>2. OffersOK'
    BY <1>1 DEF Die, OffersOK, TypeOK
  <2> QED BY <1>1, <2>1, <2>2, WorkerStepTypes DEF Die, TypeOK
<1>2. ASSUME NEW r \in RideIds, KeyExpires(r)
      PROVE  TypeOK'
  <2>1. faults' \in 0..MaxFaults
    BY <1>2, FaultTypes DEF KeyExpires
  <2>2. WorkersOK'
    BY <1>2 DEF KeyExpires, worker, TypeOK, WorkersOK
  <2>3. OffersOK'
    <3>1. dispatched[r] \X {r} \subseteq Drivers \X RideIds
      BY DEF TypeOK
    <3> QED BY <1>2, <3>1 DEF KeyExpires, OffersOK, TypeOK
  <2> QED BY <1>2, <2>1, <2>2, <2>3, WorkerStepTypes DEF KeyExpires, TypeOK
<1> QED BY <1>1, <1>2

LEMMA InitTypes == Init => TypeOK
<1> SUFFICES ASSUME Init
             PROVE  TypeOK
  OBVIOUS
<1>1. LedgerTypeOK
  BY DEF Init, LedgerInit, LedgerTypeOK
<1>2. InHand("idle", NoTask, {})
  BY DEF InHand
<1>3. WorkersOK
  BY <1>2 DEF Init, WorkersOK, Call
<1> QED BY <1>1, <1>3, DispatchAssumption DEF Init, TypeOK

LEMMA NextTypes == TypeOK /\ [Next]_dispatchVars => TypeOK'
<1> SUFFICES ASSUME TypeOK, [Next]_dispatchVars
             PROVE  TypeOK'
  OBVIOUS
<1>1. CASE UNCHANGED dispatchVars
  BY <1>1 DEF dispatchVars, table, presence, worker, offers, history, failures, TypeOK,
     LedgerTypeOK, WorkersOK
<1>2. ASSUME NEW w \in Workers, Work(w)
      PROVE  TypeOK'
  BY <1>2, TakeTypes, RequestedTypes, AcceptedTypes, RetryTypes DEF Work
<1> QED
  BY <1>1, <1>2, ServeTypes, AgeTypes, MoveTypes, ForwardTypes, TickTypes, FaultStepTypes
  DEF Next

\* Every variable of the pipeline keeps its type, and no worker makes a call
\* without what it needs.
THEOREM TypeCorrect == Spec => []TypeOK
BY InitTypes, NextTypes, PTL DEF Spec

-----------------------------------------------------------------------------
(* Every offer is on record. *)

\* OfferedIsRecorded is not inductive: it needs to know that the candidates a
\* worker is about to offer the ride to were recorded, and that a worker that
\* deletes the record has read it.
RecordInv ==
  /\ OfferedIsRecorded
  /\ \A w \in Workers :
       /\ wpc[w] \in {"expire", "offer"} =>
            \/ task[w].ride \in closed
            \/ \A d \in todo[w] :
                 d \in dispatched[task[w].ride] \/ <<d, task[w].ride>> \in lapsed
       /\ wpc[w] \in {"withdraw", "delete"} => task[w].ride \in closed

\* What a step of a worker does to its own next call.
LEMMA ContinueMoves ==
  ASSUME TypeOK, NEW w \in Workers, NEW call, NEW left,
         Continue(w, call, left) \/ ContinueUnlessEmpty(w, call, left) \/ Return(w)
  PROVE  /\ \A v \in Workers \ {w} :
              wpc'[v] = wpc[v] /\ task'[v] = task[v] /\ todo'[v] = todo[v]
         /\ \/ wpc'[w] = "idle"
            \/ wpc'[w] = call /\ task'[w] = task[w] /\ todo'[w] = left
BY DEF Continue, ContinueUnlessEmpty, Return, TypeOK, WorkersOK

\* A step that leaves the offers alone, and whose worker does not go on to a call
\* the invariant speaks of.
LEMMA RecordKept ==
  ASSUME RecordInv, UNCHANGED <<dispatched, shown, closed, lapsed>>,
         \A w \in Workers :
           \/ wpc'[w] = wpc[w] /\ task'[w] = task[w] /\ todo'[w] = todo[w]
           \/ wpc'[w] \notin {"expire", "offer", "withdraw", "delete"}
  PROVE  RecordInv'
BY DEF RecordInv, OfferedIsRecorded

LEMMA NextRecord == TypeOK /\ RecordInv /\ [Next]_dispatchVars => RecordInv'
<1> SUFFICES ASSUME TypeOK, RecordInv, [Next]_dispatchVars
             PROVE  RecordInv'
  OBVIOUS
<1>1. ASSUME UNCHANGED <<worker, offers>>
      PROVE  RecordInv'
  BY <1>1, RecordKept DEF worker, offers, history
<1>2. ASSUME NEW r \in RideIds, Serve(r) \/ Age(r)
      PROVE  RecordInv'
  BY <1>1, <1>2 DEF Serve, Age
<1>3. ASSUME NEW r \in RideIds, KeyExpires(r)
      PROVE  RecordInv'
  <2>1. /\ dispatched' = [dispatched EXCEPT ![r] = {}]
        /\ lapsed' = lapsed \cup (dispatched[r] \X {r})
        /\ UNCHANGED <<wpc, task, todo, shown, closed>>
    BY <1>3 DEF KeyExpires, worker
  <2>2. \A s \in RideIds : \A d :
          d \in dispatched[s] \/ <<d, s>> \in lapsed
            => d \in dispatched'[s] \/ <<d, s>> \in lapsed'
    BY <2>1 DEF TypeOK
  <2>3. \A v \in Workers : wpc[v] \in {"expire", "offer"} => task[v].ride \in RideIds
    BY AtCall DEF TypeOK
  <2> QED BY <2>1, <2>2, <2>3 DEF RecordInv, OfferedIsRecorded
<1>4. ASSUME NEW w \in Workers, Take(w)
      PROVE  RecordInv'
  <2>1. FirstCall[Head(queue).kind] \in {"read requested", "read accepted", "read stale"}
    <3>1. Head(queue) \in Task \cup {Retry}
      BY <1>4 DEF Take, TypeOK
    <3>2. Head(queue).kind \in Topics \cup {"retry"}
      BY <3>1 DEF Task, Retry
    <3> QED BY <3>2 DEF FirstCall, Topics
  <2>2. \A v \in Workers \ {w} : wpc'[v] = wpc[v] /\ task'[v] = task[v] /\ todo'[v] = todo[v]
    BY <1>4 DEF Take, TypeOK, WorkersOK
  <2>3. wpc'[w] \notin {"expire", "offer", "withdraw", "delete"} /\ UNCHANGED offers
    BY <1>4, <2>1 DEF Take, TypeOK, WorkersOK
  <2> QED BY <2>2, <2>3, RecordKept DEF offers, history
<1>5. ASSUME NEW w \in Workers,
             \/ ReadRequested(w) \/ GeoSearch(w) \/ Filter(w) \/ ReadAccepted(w)
             \/ ReadStale(w) \/ Republish(w) \/ Die(w)
      PROVE  RecordInv'
  <2>1. /\ UNCHANGED <<dispatched, shown, closed, lapsed>>
        /\ \E call \in {"geosearch", "smismember", "sadd", "smembers", "republish"} : \E left :
             Continue(w, call, left) \/ ContinueUnlessEmpty(w, call, left) \/ Return(w)
    BY <1>5 DEF ReadRequested, GeoSearch, Filter, FanOut, ReadAccepted, ReadStale,
       Republish, Die, offers, history
  <2> QED BY <2>1, ContinueMoves, RecordKept
<1>6. ASSUME NEW w \in Workers, Record(w)
      PROVE  RecordInv'
  <2>1. task[w].ride \in RideIds
    BY <1>6, AtCall DEF Record, At, TypeOK
  <2>2. /\ dispatched' = [dispatched EXCEPT ![task[w].ride] = @ \cup todo[w]]
        /\ Continue(w, "expire", todo[w])
        /\ UNCHANGED <<shown, closed, lapsed>>
    BY <1>6 DEF Record, Recorded, FanOut, history
  <2>3. OfferedIsRecorded'
    BY <2>1, <2>2 DEF RecordInv, OfferedIsRecorded, TypeOK
  <2>4. \A r \in RideIds : dispatched[r] \subseteq dispatched'[r]
    BY <2>1, <2>2 DEF TypeOK
  <2>5. todo[w] \subseteq dispatched'[task[w].ride]
    BY <2>1, <2>2 DEF TypeOK
  <2>6. \A v \in Workers \ {w} : wpc[v] \in {"expire", "offer"} => task[v].ride \in RideIds
    BY AtCall DEF TypeOK
  <2> QED BY <2>2, <2>3, <2>4, <2>5, <2>6, ContinueMoves DEF RecordInv
<1>7. ASSUME NEW w \in Workers, SetTtl(w)
      PROVE  RecordInv'
  <2>1. /\ Continue(w, "offer", todo[w]) /\ wpc[w] = "expire"
        /\ UNCHANGED <<dispatched, shown, closed, lapsed>>
    BY <1>7 DEF SetTtl, FanOut, At
  <2> QED BY <2>1, ContinueMoves DEF RecordInv, OfferedIsRecorded
<1>8. ASSUME NEW w \in Workers, Offer(w)
      PROVE  RecordInv'
  <2>1. PICK d \in todo[w] :
          /\ shown' = [shown EXCEPT ![d] = @ \cup {task[w].ride}]
          /\ ContinueUnlessEmpty(w, "offer", todo[w] \ {d})
    BY <1>8 DEF Offer
  <2>2. wpc[w] = "offer" /\ UNCHANGED <<dispatched, closed, lapsed>>
    BY <1>8 DEF Offer, At
  <2>3. OfferedIsRecorded'
    BY <2>1, <2>2 DEF RecordInv, OfferedIsRecorded, TypeOK
  <2> QED BY <2>1, <2>2, <2>3, ContinueMoves DEF RecordInv
<1>9. ASSUME NEW w \in Workers, ReadDispatched(w)
      PROVE  RecordInv'
  <2>1. /\ closed' = closed \cup {task[w].ride}
        /\ UNCHANGED <<dispatched, shown, lapsed>>
        /\ \E call, left : Continue(w, call, left)
    BY <1>9 DEF ReadDispatched, WithdrawThenClear
  <2> QED BY <2>1, ContinueMoves DEF RecordInv, OfferedIsRecorded
<1>10. ASSUME NEW w \in Workers, Withdraw(w)
      PROVE  RecordInv'
  <2>1. PICK d \in todo[w] :
          /\ shown' = [shown EXCEPT ![d] = @ \ {task[w].ride}]
          /\ WithdrawThenClear(w, todo[w] \ {d})
    BY <1>10 DEF Withdraw
  <2>2. wpc[w] = "withdraw" /\ UNCHANGED <<dispatched, closed, lapsed>>
    BY <1>10 DEF Withdraw, At
  <2>3. OfferedIsRecorded'
    BY <2>1, <2>2 DEF RecordInv, OfferedIsRecorded, TypeOK
  <2>4. \E call, left : Continue(w, call, left)
    BY <2>1 DEF WithdrawThenClear
  <2> QED BY <2>2, <2>3, <2>4, ContinueMoves DEF RecordInv
<1>11. ASSUME NEW w \in Workers, Clear(w)
      PROVE  RecordInv'
  <2>1. task[w].ride \in RideIds /\ task[w].ride \in closed
    BY <1>11, AtCall DEF Clear, At, TypeOK, RecordInv
  <2>2. /\ dispatched' = [dispatched EXCEPT ![task[w].ride] = {}]
        /\ Return(w) /\ UNCHANGED <<shown, closed, lapsed>>
    BY <1>11 DEF Clear
  <2>3. \A r \in RideIds \ closed : dispatched'[r] = dispatched[r]
    BY <2>1, <2>2 DEF TypeOK
  <2>4. OfferedIsRecorded'
    BY <2>2, <2>3 DEF RecordInv, OfferedIsRecorded
  <2>5. \A v \in Workers : wpc[v] \in {"expire", "offer"} => task[v].ride \in RideIds
    BY AtCall DEF TypeOK
  <2> QED BY <2>2, <2>3, <2>4, <2>5, ContinueMoves DEF RecordInv
<1>12. ASSUME \/ Tick
              \/ \E d \in Drivers : Move(d)
              \/ \E message \in log : Forward(message)
              \/ UNCHANGED dispatchVars
       PROVE  RecordInv'
  BY <1>1, <1>12 DEF Tick, Move, Forward, dispatchVars
<1> QED
  BY <1>2, <1>3, <1>4, <1>5, <1>6, <1>7, <1>8, <1>9, <1>10, <1>11, <1>12
  DEF Next, Work, HandleRequested, HandleAccepted, RetryStale

LEMMA InitRecord == Init => RecordInv
BY DEF Init, RecordInv, OfferedIsRecorded

\* As long as no withdrawal of a ride has begun, every driver who holds an offer
\* of it is on record, unless the record expired with him in it: for any number
\* of workers and under every fault the model knows.
THEOREM RecordCorrect == Spec => []OfferedIsRecorded
<1>1. RecordInv => OfferedIsRecorded
  BY DEF RecordInv
<1> QED BY <1>1, InitRecord, NextRecord, TypeCorrect, PTL DEF Spec

-----------------------------------------------------------------------------
(* Every record expires. *)

\* A step that touches neither the sets nor a worker about to set a time to live.
LEMMA ExpiryKept ==
  ASSUME RecordsExpire, UNCHANGED <<dispatched, ttl, stuck>>,
         \A w \in Workers : wpc[w] = "expire" => wpc'[w] = "expire" /\ task'[w] = task[w]
  PROVE  RecordsExpire'
BY DEF RecordsExpire, At

LEMMA NextExpiry ==
  ASSUME TypeOK, RecordsExpire, [Next]_dispatchVars
  PROVE  RecordsExpire'
<1>1. ASSUME UNCHANGED <<worker, dispatched, ttl, stuck>>
      PROVE  RecordsExpire'
  BY <1>1, ExpiryKept DEF worker
<1>2. ASSUME \/ \E r \in RideIds : Serve(r) \/ Age(r)
             \/ \E d \in Drivers : Move(d)
             \/ \E message \in log : Forward(message)
             \/ Tick
             \/ UNCHANGED dispatchVars
      PROVE  RecordsExpire'
  BY <1>1, <1>2 DEF Serve, Age, Move, Forward, Tick, offers, history, dispatchVars
<1>3. ASSUME NEW r \in RideIds, KeyExpires(r)
      PROVE  RecordsExpire'
  <2>1. /\ dispatched' = [dispatched EXCEPT ![r] = {}]
        /\ ttl' = ttl \ {r}
        /\ UNCHANGED <<wpc, task, stuck>>
    BY <1>3 DEF KeyExpires, worker
  <2> QED BY <2>1 DEF RecordsExpire, At, TypeOK
<1>4. ASSUME NEW w \in Workers, Take(w)
      PROVE  RecordsExpire'
  <2>1. /\ wpc[w] = "idle" /\ UNCHANGED <<dispatched, ttl, stuck>>
        /\ \A v \in Workers \ {w} : wpc'[v] = wpc[v] /\ task'[v] = task[v]
    BY <1>4 DEF Take, At, offers, history, TypeOK, WorkersOK
  <2> QED BY <2>1, ExpiryKept
<1>5. ASSUME NEW w \in Workers,
             \/ ReadRequested(w) \/ GeoSearch(w) \/ Filter(w) \/ Offer(w)
             \/ ReadAccepted(w) \/ ReadDispatched(w) \/ Withdraw(w)
             \/ ReadStale(w) \/ Republish(w)
      PROVE  RecordsExpire'
  <2>1. wpc[w] # "expire" /\ UNCHANGED <<dispatched, ttl, stuck>>
    BY <1>5 DEF ReadRequested, GeoSearch, Filter, Offer, ReadAccepted, ReadDispatched,
       Withdraw, ReadStale, Republish, At, offers, history
  <2>2. \E call, left :
          Continue(w, call, left) \/ ContinueUnlessEmpty(w, call, left) \/ Return(w)
    BY <1>5 DEF ReadRequested, GeoSearch, Filter, Offer, ReadAccepted, ReadDispatched,
       Withdraw, ReadStale, Republish, WithdrawThenClear
  <2> QED BY <2>1, <2>2, ContinueMoves, ExpiryKept
<1>6. ASSUME NEW w \in Workers, Record(w)
      PROVE  RecordsExpire'
  <2>1. task[w].ride \in RideIds
    BY <1>6, AtCall DEF Record, At, TypeOK
  <2>2. /\ wpc[w] = "sadd" /\ wpc'[w] = "expire" /\ task'[w] = task[w]
        /\ UNCHANGED <<ttl, stuck>>
        /\ dispatched' = [dispatched EXCEPT ![task[w].ride] = @ \cup todo[w]]
    BY <1>6 DEF Record, Recorded, FanOut, Continue, At, TypeOK, WorkersOK, history
  <2>3. \A v \in Workers \ {w} : wpc'[v] = wpc[v] /\ task'[v] = task[v]
    BY <1>6 DEF Record, Continue, TypeOK, WorkersOK
  <2>4. \A r \in RideIds \ {task[w].ride} : dispatched'[r] = dispatched[r]
    BY <2>1, <2>2 DEF TypeOK
  <2> QED BY <2>2, <2>3, <2>4 DEF RecordsExpire, At
<1>7. ASSUME NEW w \in Workers, SetTtl(w)
      PROVE  RecordsExpire'
  <2>1. /\ UNCHANGED dispatched
        /\ ttl' = ttl \cup {r \in {task[w].ride} : dispatched[r] # {}}
        /\ stuck' = stuck \ {task[w].ride}
    BY <1>7 DEF SetTtl
  <2>2. \A v \in Workers \ {w} : wpc'[v] = wpc[v] /\ task'[v] = task[v]
    BY <1>7 DEF SetTtl, Continue, TypeOK, WorkersOK
  <2> QED BY <2>1, <2>2 DEF RecordsExpire, At
<1>8. ASSUME NEW w \in Workers, Clear(w)
      PROVE  RecordsExpire'
  <2>1. /\ wpc[w] = "delete"
        /\ dispatched' = [dispatched EXCEPT ![task[w].ride] = {}]
        /\ ttl' = ttl \ {task[w].ride}
        /\ stuck' = stuck \ {task[w].ride}
    BY <1>8 DEF Clear, At
  <2>2. \A v \in Workers \ {w} : wpc'[v] = wpc[v] /\ task'[v] = task[v]
    BY <1>8 DEF Clear, Return, TypeOK, WorkersOK
  <2> QED BY <2>1, <2>2 DEF RecordsExpire, At, TypeOK
<1>9. ASSUME NEW w \in Workers, Die(w)
      PROVE  RecordsExpire'
  <2>1. /\ UNCHANGED <<dispatched, ttl>> /\ stuck \subseteq stuck'
        /\ wpc[w] = "expire" => \A r \in RideIds \ ttl : task[w].ride = r => r \in stuck'
    BY <1>9 DEF Die, At
  <2>2. \A v \in Workers \ {w} : wpc'[v] = wpc[v] /\ task'[v] = task[v]
    BY <1>9 DEF Die, Return, TypeOK, WorkersOK
  <2> QED BY <2>1, <2>2 DEF RecordsExpire, At
<1> QED
  BY <1>2, <1>3, <1>4, <1>5, <1>6, <1>7, <1>8, <1>9
  DEF Next, Work, HandleRequested, HandleAccepted, RetryStale

\* A dispatched set that has no time to live is about to get one, or the worker
\* that was to set it died between SADD and EXPIRE: whatever fan-outs,
\* withdrawals and expiries of one ride overlap on however many workers, and
\* under every fault the model knows.
THEOREM ExpiryCorrect == Spec => []RecordsExpire
<1>1. Init => RecordsExpire
  BY DEF Init, RecordsExpire
<1> QED BY <1>1, NextExpiry, TypeCorrect, PTL DEF Spec
=============================================================================

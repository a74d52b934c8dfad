-------------------------- MODULE WithdrawalProofs --------------------------
(***************************************************************************)
(* Offers are withdrawn: whatever the workers, rides, faults and overlaps, *)
(* whoever still holds an offer of a ride that found another driver does   *)
(* so for one of the reasons OffersWithdrawn names.                        *)
(*                                                                         *)
(* What it takes of the ride table is proved first, of the ledger's steps. *)
(***************************************************************************)
EXTENDS DispatchProofs

-----------------------------------------------------------------------------
(* The rows of a ride. *)

Matched(r) == \E row \in past[r] : row.status = "MATCHED"

Drives(d, r) == \E row \in past[r] : row.driver = d

(* The current row is one of the past, a ride that is REQUESTED has had no   *)
(* other row, and the driver of any row is the one of the MATCHED row.       *)
RowsOf(ride, rows) ==
  /\ ride = NoRide => rows = {}
  /\ ride # NoRide => ride \in rows
  /\ ride.status = "REQUESTED" => \A row \in rows : row.status = "REQUESTED"
  /\ \A row \in rows :
       /\ row.status \in {"MATCHED", "IN_PROGRESS", "COMPLETED"} => row.driver # None
       /\ row.driver # None =>
            \E m \in rows : m.status = "MATCHED" /\ m.driver = row.driver
  /\ \A a, b \in rows : a.status = "MATCHED" /\ b.status = "MATCHED" => a = b

TableInv == \A r \in RideIds : RowsOf(rides[r], past[r])

\* What a successor has of the row it succeeds.
LEMMA SuccessorRows ==
  ASSUME NEW before \in Ride, NEW new \in Successors(before)
  PROVE  /\ new \in Ride /\ new.status # "REQUESTED"
         /\ \/ new.status = "MATCHED" /\ new.driver # None
            \/ /\ new.status # "MATCHED" /\ new.driver = before.driver
               /\ new.status \in {"IN_PROGRESS", "COMPLETED"}
                    => before.status \in {"MATCHED", "IN_PROGRESS"}
<1>1. new \in Ride
  BY SuccessorTypes
<1>2. CASE \E d \in Drivers : new = Accepted(before, d)
  <2>1. PICK d \in Drivers : new = Accepted(before, d)
    BY <1>2
  <2>2. new.status = "MATCHED" /\ new.driver = d
    BY <2>1 DEF Accepted, Ride
  <2> QED BY <1>1, <2>2, DomainAssumption
<1>3. CASE CanStart(before, before.driver) /\ new = Started(before)
  BY <1>1, <1>3 DEF Started, CanStart, Ride
<1>4. CASE CanComplete(before, before.driver) /\ new = Completed(before)
  BY <1>1, <1>4 DEF Completed, CanComplete, Ride
<1>5. CASE new = Cancelled(before)
  BY <1>1, <1>5 DEF Cancelled, Ride
<1> QED BY <1>2, <1>3, <1>4, <1>5 DEF Successors

\* What a request does to the table.
LEMMA TableWrite ==
  ASSUME LedgerTypeOK, TableInv, NEW r \in RideIds, Open(r) \/ Overwrite(r)
  PROVE  /\ TableInv'
         /\ past' = [past EXCEPT ![r] = @ \cup {rides'[r]}]
<1>1. CASE Open(r)
  <2>1. PICK u \in Riders : Store(r, NewRide(u))
    BY <1>1 DEF Open
  <2> DEFINE new == NewRide(u)
  <2>2. new.status = "REQUESTED" /\ new.driver = None /\ new # NoRide
    BY DEF NewRide, NoRide
  <2>3. past[r] = {}
    BY <1>1 DEF Open, TableInv, RowsOf
  <2> HIDE DEF new
  <2>4. /\ rides'[r] = new /\ past' = [past EXCEPT ![r] = @ \cup {new}]
        /\ past'[r] = {new}
        /\ \A s \in RideIds \ {r} : rides'[s] = rides[s] /\ past'[s] = past[s]
    BY <2>1, <2>3 DEF Store, LedgerTypeOK, new
  <2>5. RowsOf(new, {new})
    BY <2>2 DEF RowsOf
  <2>6. \A s \in RideIds : RowsOf(rides'[s], past'[s])
    BY <2>4, <2>5 DEF TableInv
  <2> QED BY <2>4, <2>6 DEF TableInv
<1>2. CASE Overwrite(r)
  <2>1. PICK before \in past[r] : \E new \in Successors(before) :
          /\ new.status = "MATCHED" => \A row \in past[r] : row.status # "MATCHED"
          /\ Store(r, new)
    BY <1>2 DEF Overwrite
  <2>2. PICK new \in Successors(before) :
          /\ new.status = "MATCHED" => \A row \in past[r] : row.status # "MATCHED"
          /\ Store(r, new)
    BY <2>1
  <2>3. before \in Ride
    BY DEF LedgerTypeOK
  <2>4. /\ new \in Ride /\ new.status # "REQUESTED" /\ new # NoRide
        /\ \/ new.status = "MATCHED" /\ new.driver # None
           \/ /\ new.status # "MATCHED" /\ new.driver = before.driver
              /\ new.status \in {"IN_PROGRESS", "COMPLETED"}
                   => before.status \in {"MATCHED", "IN_PROGRESS"}
    BY <2>3, SuccessorRows DEF Ride, RideStatus, NoRide
  <2>5. /\ rides'[r] = new /\ past' = [past EXCEPT ![r] = @ \cup {new}]
        /\ past'[r] = past[r] \cup {new}
        /\ \A s \in RideIds \ {r} : rides'[s] = rides[s] /\ past'[s] = past[s]
    BY <2>2 DEF Store, LedgerTypeOK
  <2>6. RowsOf(rides[r], past[r])
    BY DEF TableInv
  <2>7. RowsOf(new, past[r] \cup {new})
    <3> DEFINE rows == past[r] \cup {new}
    <3>1. \A row \in past[r] : row.driver # None =>
            \E m \in rows : m.status = "MATCHED" /\ m.driver = row.driver
      BY <2>6 DEF RowsOf
    <3>2. /\ new.status \in {"MATCHED", "IN_PROGRESS", "COMPLETED"} => new.driver # None
          /\ new.driver # None =>
               \E m \in rows : m.status = "MATCHED" /\ m.driver = new.driver
      BY <2>4, <2>6, <3>1 DEF RowsOf
    <3>3. \A row \in rows :
            /\ row.status \in {"MATCHED", "IN_PROGRESS", "COMPLETED"} => row.driver # None
            /\ row.driver # None =>
                 \E m \in rows : m.status = "MATCHED" /\ m.driver = row.driver
      BY <2>6, <3>1, <3>2 DEF RowsOf
    <3>4. \A a, b \in rows : a.status = "MATCHED" /\ b.status = "MATCHED" => a = b
      BY <2>2, <2>6 DEF RowsOf
    <3> QED BY <2>4, <3>3, <3>4 DEF RowsOf
  <2>8. \A s \in RideIds : RowsOf(rides'[s], past'[s])
    BY <2>5, <2>7 DEF TableInv
  <2> QED BY <2>5, <2>8 DEF TableInv
<1> QED BY <1>1, <1>2

\* A ride that waits for a driver has not found one before.
LEMMA WaitingIsUnmatched ==
  ASSUME TableInv, NEW r \in RideIds, rides[r] = NoRide \/ rides[r].status = "REQUESTED"
  PROVE  ~Matched(r)
BY DEF TableInv, RowsOf, Matched

-----------------------------------------------------------------------------
(* The inductive invariant. *)

InQueue(message) == \E i \in 1..Len(queue) : queue[i] = message

(* The handler of the accept has yet to be run, ... *)
Announced(r) ==
  LET accepted == Message("ride-accepted", r) IN accepted \in log \/ InQueue(accepted)

(* ... or is at one of these calls.                                          *)
On(w, calls, r) == wpc[w] \in calls /\ task[w].ride = r

Reading == {"read accepted", "smembers"}
Withdrawing == {"withdraw", "delete"}

(* The drivers who hold an offer of a ride that is not theirs, and neither   *)
(* came too late nor fell off the record.                                    *)
Losers(r) ==
  {d \in Drivers : r \in shown[d] /\ ~Drives(d, r) /\ <<d, r>> \notin late \cup lapsed}

(* Before the set is read, the losers are in it: that is RecordInv.  Once it *)
(* is, each of them is on the list of a worker that is telling them.         *)
LosersReached ==
  \A r \in closed \ dropped : \A d \in Losers(r) :
    \E w \in Workers : On(w, {"withdraw"}, r) /\ d \in todo[w]

WithdrawalDue ==
  \A r \in RideIds \ (closed \cup dropped) : Matched(r) =>
    Announced(r) \/ \E w \in Workers : On(w, Reading, r)

HandlersFit ==
  \A w \in Workers : wpc[w] \in Reading \cup Withdrawing => task[w].kind = "ride-accepted"

SparedDrives ==
  \A w \in Workers : wpc[w] = "smembers" => \A d \in todo[w] : Drives(d, task[w].ride)

WithdrawInv ==
  /\ LosersReached
  /\ WithdrawalDue
  /\ HandlersFit
  /\ SparedDrives

-----------------------------------------------------------------------------
(* The queue. *)

LEMMA EnqueuedStays ==
  ASSUME TypeOK, NEW t \in Task \cup {Retry}, Enqueue(t)
  PROVE  /\ \A message : InQueue(message) => InQueue(message)'
         /\ InQueue(t)'
<1>1. /\ Len(queue') = Len(queue) + 1 /\ Len(queue) \in Nat
      /\ \A i \in 1..Len(queue) : queue'[i] = queue[i]
      /\ queue'[Len(queue) + 1] = t
  BY DEF Enqueue, TypeOK
<1> QED BY <1>1 DEF InQueue

LEMMA TakenOrStays ==
  ASSUME TypeOK, queue # <<>>, queue' = Tail(queue), NEW message, InQueue(message)
  PROVE  message = Head(queue) \/ InQueue(message)'
<1>1. PICK i \in 1..Len(queue) : queue[i] = message
  BY DEF InQueue
<1>2. /\ Len(queue) \in Nat /\ Len(queue') = Len(queue) - 1
      /\ Head(queue) = queue[1]
      /\ \A j \in 1..Len(queue) - 1 : queue'[j] = queue[j + 1]
  BY DEF TypeOK
<1>3. CASE i = 1
  BY <1>1, <1>2, <1>3
<1>4. CASE i # 1
  <2>1. i - 1 \in 1..Len(queue') /\ queue'[i - 1] = message
    BY <1>1, <1>2, <1>4
  <2> QED BY <2>1 DEF InQueue
<1> QED BY <1>3, <1>4

-----------------------------------------------------------------------------
(* Steps of the rest of the system. *)

\* A step that leaves the workers and the offers alone and gives up the rides
\* whose message it loses.
LEMMA OthersStep ==
  ASSUME TypeOK, WithdrawInv,
         UNCHANGED <<wpc, task, todo, shown, closed, late>>,
         lapsed \subseteq lapsed', dropped \subseteq dropped',
         \A r \in RideIds : past[r] \subseteq past'[r],
         \A r \in RideIds : Announced(r) => Announced(r)' \/ r \in dropped',
         \A r \in RideIds : Matched(r)' => Matched(r) \/ Announced(r)' \/ r \in dropped'
  PROVE  WithdrawInv'
<1>1. \A r \in RideIds : \A d : Drives(d, r) => Drives(d, r)'
  BY DEF Drives
<1>2. \A r \in RideIds : Losers(r)' \subseteq Losers(r)
  BY <1>1 DEF Losers
<1>3. closed \subseteq RideIds
  BY DEF TypeOK
<1>4. LosersReached'
  BY <1>2, <1>3 DEF WithdrawInv, LosersReached, On
<1>5. WithdrawalDue'
  BY DEF WithdrawInv, WithdrawalDue, On
<1>6. \A w \in Workers : wpc[w] = "smembers" => task[w].ride \in RideIds
  BY AtCall DEF TypeOK
<1>7. HandlersFit' /\ SparedDrives'
  BY <1>1, <1>6 DEF WithdrawInv, HandlersFit, SparedDrives
<1> QED BY <1>4, <1>5, <1>7 DEF WithdrawInv

\* Losing a message gives up the ride it announced.
LEMMA LostIsDropped ==
  ASSUME NEW r \in RideIds, NEW kind, GiveUp(kind, Message("ride-accepted", r))
  PROVE  r \in dropped'
BY DEF GiveUp

LEMMA GiveUpGrows ==
  ASSUME NEW kind, NEW message, GiveUp(kind, message)
  PROVE  dropped \subseteq dropped'
BY DEF GiveUp

LEMMA PublishKeeps ==
  ASSUME NEW message, Publish(message)
  PROVE  log \subseteq log' /\ dropped \subseteq dropped'
BY GiveUpGrows DEF Publish, failures

LEMMA SystemStep ==
  ASSUME TypeOK, TableInv, WithdrawInv,
         \/ \E r \in RideIds : Serve(r) \/ Age(r) \/ KeyExpires(r)
         \/ \E d \in Drivers : Move(d)
         \/ \E message \in log : Forward(message)
         \/ Tick
         \/ UNCHANGED dispatchVars
  PROVE  TableInv' /\ WithdrawInv'
<1>1. ASSUME NEW r \in RideIds, Serve(r)
      PROVE  TableInv' /\ WithdrawInv'
  <2>1. TableInv' /\ past' = [past EXCEPT ![r] = @ \cup {rides'[r]}]
    BY <1>1, TableWrite DEF Serve, TypeOK
  <2>2. log \subseteq log' /\ UNCHANGED queue /\ dropped \subseteq dropped'
    BY <1>1, PublishKeeps DEF Serve, failures
  <2>3. \A s \in RideIds : Announced(s) => Announced(s)'
    BY <2>2 DEF Announced, InQueue
  <2>4. \A s \in RideIds : past[s] \subseteq past'[s]
    BY <2>1 DEF TypeOK, LedgerTypeOK
  <2>5. ASSUME NEW s \in RideIds, Matched(s)', ~Matched(s)
        PROVE  Announced(s)' \/ s \in dropped'
    <3>1. s = r /\ rides'[r].status = "MATCHED"
      BY <2>1, <2>5 DEF Matched, TypeOK, LedgerTypeOK
    <3>2. Publish(Message("ride-accepted", r))
      BY <1>1, <3>1 DEF Serve, TopicOf
    <3> QED BY <3>1, <3>2, LostIsDropped DEF Publish, Announced
  <2> QED
    BY <1>1, <2>1, <2>2, <2>3, <2>4, <2>5, OthersStep DEF Serve, worker, offers, history
<1>2. ASSUME UNCHANGED <<rides, past, wpc, task, todo, shown, closed, late>>,
             lapsed \subseteq lapsed', dropped \subseteq dropped',
             \A r \in RideIds : Announced(r) => Announced(r)' \/ r \in dropped'
      PROVE  TableInv' /\ WithdrawInv'
  <2>1. TableInv'
    BY <1>2 DEF TableInv
  <2>2. \A r \in RideIds : Matched(r)' => Matched(r)
    BY <1>2 DEF Matched
  <2> QED BY <1>2, <2>1, <2>2, OthersStep
<1>3. ASSUME \/ \E r \in RideIds : Age(r) \/ KeyExpires(r)
             \/ \E d \in Drivers : Move(d)
             \/ UNCHANGED dispatchVars
      PROVE  TableInv' /\ WithdrawInv'
  <2>1. /\ UNCHANGED <<rides, past, wpc, task, todo, shown, closed, late, log, queue, dropped>>
        /\ lapsed \subseteq lapsed'
    BY <1>3 DEF Age, Move, KeyExpires, dispatchVars, table, worker, offers, history, failures
  <2>2. \A r \in RideIds : Announced(r) => Announced(r)'
    BY <2>1 DEF Announced, InQueue
  <2> QED BY <1>2, <2>1, <2>2
<1>4. ASSUME NEW message \in log, Forward(message)
      PROVE  TableInv' /\ WithdrawInv'
  <2>1. message \in Task \cup {Retry}
    BY DEF TypeOK
  <2>2. log \ {message} \subseteq log' /\ dropped \subseteq dropped'
    BY <1>4, GiveUpGrows DEF Forward, failures
  <2>3. \A t : InQueue(t) => InQueue(t)'
    BY <1>4, <2>1, EnqueuedStays DEF Forward, InQueue
  <2>4. InQueue(message)' \/ GiveUp("lost", message)
    BY <1>4, <2>1, EnqueuedStays DEF Forward
  <2>5. \A r \in RideIds : Announced(r) => Announced(r)' \/ r \in dropped'
    BY <2>2, <2>3, <2>4, LostIsDropped DEF Announced
  <2> QED
    BY <1>2, <1>4, <2>2, <2>5 DEF Forward, table, worker, offers, history
<1>5. ASSUME Tick
      PROVE  TableInv' /\ WithdrawInv'
  <2>1. Enqueue(Retry) /\ UNCHANGED log
    BY <1>5 DEF Tick
  <2>2. \A r \in RideIds : Announced(r) => Announced(r)'
    BY <2>1, EnqueuedStays DEF Announced
  <2> QED
    BY <1>2, <1>5, <2>2 DEF Tick, table, worker, offers, history, failures
<1> QED BY <1>1, <1>3, <1>4, <1>5

-----------------------------------------------------------------------------
(* Steps of a worker that is not withdrawing. *)

Same(v) == wpc'[v] = wpc[v] /\ task'[v] = task[v] /\ todo'[v] = todo[v]

\* A step of a worker that is at no call of the accept handler, and goes on at
\* most to its first one.
LEMMA QuietStep ==
  ASSUME TypeOK, TableInv, WithdrawInv, NEW w \in Workers,
         UNCHANGED <<rides, past, closed, lapsed>>,
         dropped \subseteq dropped',
         \A v \in Workers \ {w} : Same(v),
         \A r \in closed : Losers(r)' \subseteq Losers(r),
         wpc[w] \notin Reading \cup Withdrawing,
         wpc'[w] \notin Withdrawing \cup {"smembers"},
         wpc'[w] = "read accepted" => task'[w].kind = "ride-accepted",
         \A r \in RideIds :
           Announced(r) => Announced(r)' \/ On(w, Reading, r)' \/ r \in dropped'
  PROVE  TableInv' /\ WithdrawInv'
<1>1. TableInv' /\ \A r \in RideIds : Matched(r)' = Matched(r)
  BY DEF TableInv, Matched
<1>2. LosersReached'
  <2> SUFFICES ASSUME NEW r \in closed \ dropped', NEW d \in Losers(r)'
               PROVE  \E v \in Workers : On(v, {"withdraw"}, r)' /\ d \in todo'[v]
    BY DEF LosersReached
  <2>1. PICK v \in Workers : On(v, {"withdraw"}, r) /\ d \in todo[v]
    BY DEF WithdrawInv, LosersReached
  <2>2. v # w
    BY <2>1 DEF On, Withdrawing
  <2> QED BY <2>1, <2>2 DEF On, Same
<1>3. WithdrawalDue'
  <2> SUFFICES ASSUME NEW r \in RideIds \ (closed \cup dropped'), Matched(r), ~Announced(r)'
               PROVE  \E v \in Workers : On(v, Reading, r)'
    BY <1>1 DEF WithdrawalDue
  <2>1. CASE Announced(r)
    BY <2>1
  <2>2. CASE ~Announced(r)
    <3>1. PICK v \in Workers : On(v, Reading, r)
      BY <2>2 DEF WithdrawInv, WithdrawalDue
    <3>2. v # w
      BY <3>1 DEF On
    <3> QED BY <3>1, <3>2 DEF On, Same
  <2> QED BY <2>1, <2>2
<1>4. HandlersFit'
  BY DEF WithdrawInv, HandlersFit, Same, Reading, Withdrawing
<1>5. SparedDrives'
  BY DEF WithdrawInv, SparedDrives, Same, Drives
<1> QED BY <1>1, <1>2, <1>3, <1>4, <1>5 DEF WithdrawInv

\* Such a step, of a worker that changes no offer and takes no message.
LEMMA CalmStep ==
  ASSUME TypeOK, TableInv, WithdrawInv, NEW w \in Workers,
         UNCHANGED <<rides, past, closed, lapsed, late, shown, queue>>,
         log \subseteq log', dropped \subseteq dropped',
         \A v \in Workers \ {w} : Same(v),
         wpc[w] \notin Reading \cup Withdrawing,
         wpc'[w] \notin Reading \cup Withdrawing
  PROVE  TableInv' /\ WithdrawInv'
<1>1. \A r \in RideIds : Losers(r)' = Losers(r)
  BY DEF Losers, Drives
<1>2. closed \subseteq RideIds
  BY DEF TypeOK
<1>3. \A r \in RideIds : Announced(r) => Announced(r)'
  BY DEF Announced, InQueue
<1> QED BY <1>1, <1>2, <1>3, QuietStep DEF Reading

LEMMA TakeStep ==
  ASSUME TypeOK, TableInv, WithdrawInv, NEW w \in Workers, Take(w)
  PROVE  TableInv' /\ WithdrawInv'
<1> DEFINE t == Head(queue)
<1>1. /\ wpc[w] = "idle" /\ queue # <<>> /\ queue' = Tail(queue)
      /\ wpc'[w] = FirstCall[t.kind] /\ task'[w] = t
      /\ UNCHANGED <<rides, past, closed, lapsed, late, shown, log, dropped>>
      /\ \A v \in Workers \ {w} : Same(v)
  BY DEF Take, At, TypeOK, WorkersOK, table, offers, history, failures, Same
<1>2. t.kind \in Topics \cup {"retry"}
  <2>1. t \in Task \cup {Retry}
    BY <1>1 DEF TypeOK
  <2> QED BY <2>1 DEF Task, Retry
<1>3. /\ wpc'[w] \in {"read requested", "read accepted", "read stale"}
      /\ wpc'[w] = "read accepted" <=> t.kind = "ride-accepted"
  BY <1>1, <1>2 DEF FirstCall, Topics
<1>4. \A r \in RideIds : Announced(r) => Announced(r)' \/ On(w, Reading, r)'
  <2> SUFFICES ASSUME NEW r \in RideIds, Announced(r), ~Announced(r)'
               PROVE  On(w, Reading, r)'
    OBVIOUS
  <2>1. t = Message("ride-accepted", r)
    BY <1>1, TakenOrStays DEF Announced
  <2>2. t.kind = "ride-accepted" /\ t.ride = r
    BY <2>1 DEF Message
  <2> QED BY <1>1, <1>3, <2>2 DEF On, Reading
<1>5. \A r \in RideIds : Losers(r)' = Losers(r)
  BY <1>1 DEF Losers, Drives
<1>6. closed \subseteq RideIds
  BY DEF TypeOK
<1> QED BY <1>1, <1>3, <1>4, <1>5, <1>6, QuietStep DEF Reading, Withdrawing

LEMMA RequestedStep ==
  ASSUME TypeOK, TableInv, WithdrawInv, NEW w \in Workers, HandleRequested(w)
  PROVE  TableInv' /\ WithdrawInv'
<1> DEFINE r == task[w].ride
<1>0. UNCHANGED <<rides, past, log, queue, closed, lapsed, dropped>>
  BY DEF HandleRequested, ReadRequested, GeoSearch, Filter, Record, SetTtl, Offer, table,
     offers, history, failures
<1>1. CASE ReadRequested(w) \/ GeoSearch(w) \/ Filter(w) \/ Record(w) \/ SetTtl(w)
  <2>1. /\ wpc[w] \in {"read requested", "geosearch", "smismember", "sadd", "expire"}
        /\ UNCHANGED <<shown, late>>
    BY <1>1 DEF ReadRequested, GeoSearch, Filter, Record, SetTtl, At, offers, history
  <2>2. \E call \in {"geosearch", "smismember", "sadd", "expire", "offer"} : \E left :
          Continue(w, call, left) \/ ContinueUnlessEmpty(w, call, left) \/ Return(w)
    BY <1>1 DEF ReadRequested, GeoSearch, Filter, Record, SetTtl, FanOut
  <2>3. /\ \A v \in Workers \ {w} : Same(v)
        /\ wpc'[w] \in {"idle", "geosearch", "smismember", "sadd", "expire", "offer"}
    BY <2>2, ContinueMoves DEF Same
  <2> QED BY <1>0, <2>1, <2>3, CalmStep DEF Reading, Withdrawing
<1>2. CASE Offer(w)
  <2>1. PICK d \in todo[w] :
          /\ shown' = [shown EXCEPT ![d] = @ \cup {r}]
          /\ late' = late \cup ({d} \X ({r} \cap closed))
          /\ ContinueUnlessEmpty(w, "offer", todo[w] \ {d})
    BY <1>2 DEF Offer
  <2>2. wpc[w] = "offer" /\ r \in RideIds /\ d \in Drivers
    BY <1>2, <2>1, AtCall DEF Offer, At, TypeOK
  <2>3. \A v \in Workers \ {w} : Same(v)
    BY <2>1, ContinueMoves DEF Same
  <2>4. wpc'[w] \in {"idle", "offer"}
    BY <2>1, ContinueMoves
  <2>5. \A s \in closed : Losers(s)' \subseteq Losers(s)
    <3>1. \A e \in Drivers : \A s \in RideIds :
            s \in shown'[e] <=> (s \in shown[e] \/ (e = d /\ s = r))
      BY <2>1, <2>2 DEF TypeOK
    <3>2. late \subseteq late' /\ (r \in closed => <<d, r>> \in late')
      BY <2>1
    <3>3. closed \subseteq RideIds
      BY DEF TypeOK
    <3> HIDE DEF r
    <3> QED BY <1>0, <3>1, <3>2, <3>3 DEF Losers, Drives
  <2>6. \A s \in RideIds : Announced(s) => Announced(s)'
    BY <1>0 DEF Announced, InQueue
  <2> QED BY <1>0, <2>2, <2>3, <2>4, <2>5, <2>6, QuietStep DEF Reading, Withdrawing
<1> QED BY <1>1, <1>2 DEF HandleRequested

LEMMA RetryStep ==
  ASSUME TypeOK, TableInv, WithdrawInv, NEW w \in Workers, RetryStale(w)
  PROVE  TableInv' /\ WithdrawInv'
<1>1. wpc[w] \in {"read stale", "republish"}
  BY DEF RetryStale, ReadStale, Republish, At
<1>2. UNCHANGED <<rides, past, closed, lapsed, late, shown, queue>>
  BY DEF RetryStale, ReadStale, Republish, table, offers, history
<1>3. log \subseteq log' /\ dropped \subseteq dropped'
  BY PublishKeeps DEF RetryStale, ReadStale, Republish, failures
<1>4. \E left : ContinueUnlessEmpty(w, "republish", left)
  BY DEF RetryStale, ReadStale, Republish
<1>5. wpc'[w] \in {"idle", "republish"} /\ \A v \in Workers \ {w} : Same(v)
  BY <1>4, ContinueMoves DEF Same
<1> QED BY <1>1, <1>2, <1>3, <1>5, CalmStep DEF Reading, Withdrawing

-----------------------------------------------------------------------------
(* Steps of a worker that is withdrawing, or dies. *)

LEMMA ReadAcceptedStep ==
  ASSUME TypeOK, TableInv, WithdrawInv, NEW w \in Workers, ReadAccepted(w)
  PROVE  TableInv' /\ WithdrawInv'
<1> DEFINE r == task[w].ride
<1>1. /\ wpc[w] = "read accepted" /\ r \in RideIds
      /\ UNCHANGED <<rides, past, closed, lapsed, late, shown, log, queue, dropped>>
  BY AtCall DEF ReadAccepted, At, TypeOK, table, offers, history, failures
<1>2. /\ \A v \in Workers \ {w} : Same(v)
      /\ \/ wpc'[w] = "idle" /\ rides[r] = NoRide
         \/ /\ wpc'[w] = "smembers" /\ task'[w] = task[w] /\ rides[r] # NoRide
            /\ todo'[w] = {rides[r].driver} \ {None}
  BY DEF ReadAccepted, Continue, Return, TypeOK, WorkersOK, Same
<1>3. /\ TableInv'
      /\ \A s \in RideIds : Losers(s)' = Losers(s) /\ Matched(s)' = Matched(s)
      /\ \A s \in RideIds : Announced(s)' = Announced(s)
      /\ \A s \in RideIds : \A d : Drives(d, s)' = Drives(d, s)
  BY <1>1 DEF TableInv, Losers, Drives, Matched, Announced, InQueue
<1>4. closed \subseteq RideIds /\ \A v \in Workers : wpc[v] = "smembers" => task[v].ride \in RideIds
  BY AtCall DEF TypeOK
<1>5. LosersReached'
  <2> SUFFICES ASSUME NEW s \in closed \ dropped, NEW d \in Losers(s)
               PROVE  \E v \in Workers : On(v, {"withdraw"}, s)' /\ d \in todo'[v]
    BY <1>1, <1>3, <1>4 DEF LosersReached
  <2>1. PICK v \in Workers : On(v, {"withdraw"}, s) /\ d \in todo[v]
    BY DEF WithdrawInv, LosersReached
  <2>2. v # w
    BY <1>1, <2>1 DEF On
  <2> QED BY <1>2, <2>1, <2>2 DEF On, Same
<1>6. rides[r] = NoRide => ~Matched(r)
  BY <1>1, WaitingIsUnmatched
<1>7. \A v \in Workers, s \in RideIds : On(v, Reading, s) /\ Matched(s) => On(v, Reading, s)'
  BY <1>2, <1>6 DEF On, Reading, Same
<1>8. WithdrawalDue'
  BY <1>1, <1>3, <1>7 DEF WithdrawInv, WithdrawalDue
<1>9. rides[r] # NoRide => Drives(rides[r].driver, r)
  BY <1>1 DEF TableInv, RowsOf, Drives
<1>10. SparedDrives'
  <2> SUFFICES ASSUME NEW v \in Workers, wpc'[v] = "smembers", NEW d \in todo'[v]
               PROVE  Drives(d, task[v].ride)'
    BY DEF SparedDrives
  <2>1. CASE v = w
    BY <1>1, <1>2, <1>3, <1>9, <2>1
  <2>2. CASE v # w
    <3>1. wpc[v] = "smembers" /\ task'[v] = task[v] /\ d \in todo[v]
      BY <1>2, <2>2 DEF Same
    <3> QED BY <1>1, <3>1 DEF WithdrawInv, SparedDrives, Drives
  <2> QED BY <2>1, <2>2
<1>11. HandlersFit'
  BY <1>1, <1>2 DEF WithdrawInv, HandlersFit, Same, Reading, Withdrawing
<1> QED BY <1>3, <1>5, <1>8, <1>10, <1>11 DEF WithdrawInv

LEMMA ReadDispatchedStep ==
  ASSUME TypeOK, RecordInv, TableInv, WithdrawInv, NEW w \in Workers, ReadDispatched(w)
  PROVE  TableInv' /\ WithdrawInv'
<1> DEFINE r == task[w].ride
<1>1. /\ wpc[w] = "smembers" /\ r \in RideIds
      /\ UNCHANGED <<rides, past, lapsed, late, shown, log, queue, dropped>>
      /\ closed' = closed \cup {r}
  BY AtCall DEF ReadDispatched, At, TypeOK, table, failures
<1>2. /\ \A v \in Workers \ {w} : Same(v)
      /\ wpc'[w] = IF dispatched[r] \ todo[w] = {} THEN "delete" ELSE "withdraw"
      /\ task'[w] = task[w] /\ todo'[w] = dispatched[r] \ todo[w]
  BY DEF ReadDispatched, WithdrawThenClear, Continue, TypeOK, WorkersOK, Same
<1>3. /\ TableInv'
      /\ \A s \in RideIds : Losers(s)' = Losers(s) /\ Matched(s)' = Matched(s)
      /\ \A s \in RideIds : Announced(s)' = Announced(s)
  BY <1>1 DEF TableInv, Losers, Drives, Matched, Announced, InQueue
<1>4. closed \subseteq RideIds
  BY DEF TypeOK
<1>5. LosersReached'
  <2> SUFFICES ASSUME NEW s \in (closed \cup {r}) \ dropped, NEW d \in Losers(s)
               PROVE  \E v \in Workers : On(v, {"withdraw"}, s)' /\ d \in todo'[v]
    BY <1>1, <1>3, <1>4 DEF LosersReached
  <2>1. CASE s \in closed
    <3>1. PICK v \in Workers : On(v, {"withdraw"}, s) /\ d \in todo[v]
      BY <2>1 DEF WithdrawInv, LosersReached
    <3>2. v # w
      BY <1>1, <3>1 DEF On
    <3> QED BY <1>2, <3>1, <3>2 DEF On, Same
  <2>2. CASE s \notin closed
    <3>1. s = r
      BY <2>2
    <3>2. d \in dispatched[r]
      BY <1>1, <2>2, <3>1 DEF RecordInv, OfferedIsRecorded, Losers
    <3>3. d \notin todo[w]
      BY <1>1, <3>1 DEF WithdrawInv, SparedDrives, Losers
    <3> QED BY <1>2, <3>1, <3>2, <3>3 DEF On
  <2> QED BY <2>1, <2>2
<1>6. WithdrawalDue'
  <2> SUFFICES ASSUME NEW s \in RideIds \ (closed' \cup dropped), Matched(s), ~Announced(s)
               PROVE  \E v \in Workers : On(v, Reading, s)'
    BY <1>1, <1>3 DEF WithdrawalDue
  <2>1. s # r /\ s \notin closed
    BY <1>1
  <2>2. PICK v \in Workers : On(v, Reading, s)
    BY <2>1 DEF WithdrawInv, WithdrawalDue
  <2>3. v # w
    BY <2>1, <2>2 DEF On
  <2> QED BY <1>2, <2>2, <2>3 DEF On, Same
<1>7. HandlersFit'
  BY <1>1, <1>2 DEF WithdrawInv, HandlersFit, Same, Reading, Withdrawing
<1>8. SparedDrives'
  BY <1>1, <1>2 DEF WithdrawInv, SparedDrives, Same, Drives
<1> QED BY <1>3, <1>5, <1>6, <1>7, <1>8 DEF WithdrawInv

LEMMA WithdrawStep ==
  ASSUME TypeOK, TableInv, WithdrawInv, NEW w \in Workers, Withdraw(w)
  PROVE  TableInv' /\ WithdrawInv'
<1> DEFINE r == task[w].ride
<1>1. /\ wpc[w] = "withdraw" /\ r \in RideIds
      /\ UNCHANGED <<rides, past, closed, lapsed, log, queue, dropped>>
  BY AtCall DEF Withdraw, At, TypeOK, table, failures
<1>2. PICK d \in todo[w] :
        /\ shown' = [shown EXCEPT ![d] = @ \ {r}]
        /\ late' = late \ {<<d, r>>}
        /\ WithdrawThenClear(w, todo[w] \ {d})
  BY DEF Withdraw
<1>3. d \in Drivers
  BY <1>1, <1>2, AtCall DEF TypeOK
<1>4. /\ \A v \in Workers \ {w} : Same(v)
      /\ wpc'[w] = IF todo[w] \ {d} = {} THEN "delete" ELSE "withdraw"
      /\ task'[w] = task[w] /\ todo'[w] = todo[w] \ {d}
  BY <1>2 DEF WithdrawThenClear, Continue, TypeOK, WorkersOK, Same
<1>5. /\ TableInv'
      /\ \A s \in RideIds : Matched(s)' = Matched(s) /\ Announced(s)' = Announced(s)
  BY <1>1 DEF TableInv, Matched, Announced, InQueue
<1>6. \A s \in RideIds : Losers(s)' \subseteq Losers(s) /\ (s = r => d \notin Losers(s)')
  <2>1. \A e \in Drivers : \A s \in RideIds :
          s \in shown'[e] <=> s \in shown[e] /\ ~(e = d /\ s = r)
    BY <1>2, <1>3 DEF TypeOK
  <2>2. \A e \in Drivers : \A s \in RideIds :
          <<e, s>> \in late /\ ~(e = d /\ s = r) => <<e, s>> \in late'
    BY <1>2
  <2> HIDE DEF r
  <2> QED BY <1>1, <2>1, <2>2 DEF Losers, Drives
<1>7. LosersReached'
  <2> SUFFICES ASSUME NEW s \in closed \ dropped, NEW e \in Losers(s)'
               PROVE  \E v \in Workers : On(v, {"withdraw"}, s)' /\ e \in todo'[v]
    BY <1>1 DEF LosersReached
  <2>1. s \in RideIds /\ e \in Losers(s) /\ (s = r => e # d)
    BY <1>6 DEF TypeOK
  <2>2. PICK v \in Workers : On(v, {"withdraw"}, s) /\ e \in todo[v]
    BY <2>1 DEF WithdrawInv, LosersReached
  <2>3. CASE v = w
    <3>1. s = r /\ e \in todo'[w]
      BY <1>4, <2>1, <2>2, <2>3 DEF On
    <3> QED BY <1>4, <3>1 DEF On
  <2>4. CASE v # w
    BY <1>4, <2>2, <2>4 DEF On, Same
  <2> QED BY <2>3, <2>4
<1>8. \A v \in Workers, s \in RideIds : On(v, Reading, s) => On(v, Reading, s)'
  BY <1>1, <1>4 DEF On, Reading, Same
<1>9. WithdrawalDue'
  BY <1>1, <1>5, <1>8 DEF WithdrawInv, WithdrawalDue
<1>10. HandlersFit'
  BY <1>1, <1>4 DEF WithdrawInv, HandlersFit, Same, Reading, Withdrawing
<1>11. SparedDrives'
  BY <1>1, <1>4 DEF WithdrawInv, SparedDrives, Same, Drives
<1> QED BY <1>5, <1>7, <1>9, <1>10, <1>11 DEF WithdrawInv

\* The worker forgets its task, of which nobody is left to tell, or is given up.
LEMMA ReturnStep ==
  ASSUME TypeOK, TableInv, WithdrawInv, NEW w \in Workers, Return(w),
         UNCHANGED <<rides, past, closed, lapsed, late, shown, log, queue>>,
         dropped \subseteq dropped',
         wpc[w] \in Reading \cup {"withdraw"} => task[w].ride \in dropped'
  PROVE  TableInv' /\ WithdrawInv'
<1>1. wpc'[w] = "idle" /\ \A v \in Workers \ {w} : Same(v)
  BY DEF Return, TypeOK, WorkersOK, Same
<1>2. /\ TableInv'
      /\ \A s \in RideIds : Losers(s)' = Losers(s) /\ Matched(s)' = Matched(s)
      /\ \A s \in RideIds : Announced(s)' = Announced(s)
  BY DEF TableInv, Losers, Drives, Matched, Announced, InQueue
<1>3. \A v \in Workers, s \in RideIds \ dropped' :
        On(v, Reading \cup {"withdraw"}, s) => v # w /\ Same(v)
  BY <1>1 DEF On
<1>4. closed \subseteq RideIds
  BY DEF TypeOK
<1>5. LosersReached'
  <2> SUFFICES ASSUME NEW s \in closed \ dropped', NEW d \in Losers(s)
               PROVE  \E v \in Workers : On(v, {"withdraw"}, s)' /\ d \in todo'[v]
    BY <1>2, <1>4 DEF LosersReached
  <2>1. PICK v \in Workers : On(v, {"withdraw"}, s) /\ d \in todo[v]
    BY DEF WithdrawInv, LosersReached
  <2>2. Same(v)
    BY <1>3, <1>4, <2>1 DEF On
  <2> QED BY <2>1, <2>2 DEF On, Same
<1>6. WithdrawalDue'
  <2> SUFFICES ASSUME NEW s \in RideIds \ (closed \cup dropped'), Matched(s), ~Announced(s)
               PROVE  \E v \in Workers : On(v, Reading, s)'
    BY <1>2 DEF WithdrawalDue
  <2>1. PICK v \in Workers : On(v, Reading, s)
    BY DEF WithdrawInv, WithdrawalDue
  <2>2. Same(v)
    BY <1>3, <2>1 DEF On
  <2> QED BY <2>1, <2>2 DEF On, Same
<1>7. HandlersFit'
  BY <1>1 DEF WithdrawInv, HandlersFit, Same, Reading, Withdrawing
<1>8. SparedDrives'
  BY <1>1 DEF WithdrawInv, SparedDrives, Same, Drives
<1> QED BY <1>2, <1>5, <1>6, <1>7, <1>8 DEF WithdrawInv

LEMMA AcceptedStep ==
  ASSUME TypeOK, RecordInv, TableInv, WithdrawInv, NEW w \in Workers, HandleAccepted(w)
  PROVE  TableInv' /\ WithdrawInv'
<1>1. CASE Clear(w)
  <2>1. /\ wpc[w] = "delete" /\ Return(w)
        /\ UNCHANGED <<rides, past, closed, lapsed, late, shown, log, queue, dropped>>
    BY <1>1 DEF Clear, At, table, failures
  <2> QED BY <2>1, ReturnStep DEF Reading
<1> QED
  BY <1>1, ReadAcceptedStep, ReadDispatchedStep, WithdrawStep DEF HandleAccepted

LEMMA DieStep ==
  ASSUME TypeOK, TableInv, WithdrawInv, NEW w \in Workers, Die(w)
  PROVE  TableInv' /\ WithdrawInv'
<1>1. /\ Return(w) /\ GiveUp("dies", task[w]) /\ dropped \subseteq dropped'
      /\ UNCHANGED <<rides, past, closed, lapsed, late, shown, log, queue>>
  BY GiveUpGrows DEF Die, table
<1>2. ASSUME wpc[w] \in Reading \cup {"withdraw"}
      PROVE  task[w].ride \in dropped'
  <2>1. task[w] \in Task /\ task[w].kind = "ride-accepted"
    BY <1>2, AtCall DEF WithdrawInv, HandlersFit, Reading, Withdrawing, TypeOK
  <2>2. task[w].ride \in RideIds /\ task[w] = Message("ride-accepted", task[w].ride)
    BY <2>1 DEF Task, Message
  <2> QED BY <1>1, <2>2, LostIsDropped
<1> QED BY <1>1, <1>2, ReturnStep

-----------------------------------------------------------------------------

LEMMA NextWithdraw ==
  ASSUME TypeOK, RecordInv, TableInv, WithdrawInv, [Next]_dispatchVars
  PROVE  TableInv' /\ WithdrawInv'
<1>1. ASSUME NEW w \in Workers, Work(w) \/ Die(w)
      PROVE  TableInv' /\ WithdrawInv'
  BY <1>1, TakeStep, RequestedStep, AcceptedStep, RetryStep, DieStep DEF Work
<1> QED BY <1>1, SystemStep DEF Next

LEMMA InitWithdraw == Init => TableInv /\ WithdrawInv
BY DEF Init, LedgerInit, TableInv, RowsOf, NoRide, WithdrawInv, LosersReached, WithdrawalDue,
   HandlersFit, SparedDrives, Matched, Reading, Withdrawing

\* Whatever fan-outs, withdrawals, retries and requests overlap on however many
\* workers, and whatever is lost, repeated, killed or expired: when the pipeline
\* has caught up, nobody holds an offer of a ride that found another driver, but
\* where its ride-accepted was lost or its task died, the offer was made after
\* the withdrawal had read the set, or the set expired before.
THEOREM OffersWithdrawnCorrect == Spec => []OffersWithdrawn
<1> DEFINE Inv == TypeOK /\ RecordInv /\ TableInv /\ WithdrawInv
<1>1. Init => Inv
  BY InitTypes, InitRecord, InitWithdraw
<1>2. Inv /\ [Next]_dispatchVars => Inv'
  BY NextTypes, NextRecord, NextWithdraw
<1>3. Inv => OffersWithdrawn
  <2> SUFFICES ASSUME Inv, Quiet, NEW r \in RideIds \ dropped, FoundDriver(r),
                      NEW d \in Drivers, r \in shown[d], <<d, r>> \notin late \cup lapsed
               PROVE  d = rides[r].driver
    BY DEF OffersWithdrawn
  <2>1. ~Announced(r) /\ \A w \in Workers : wpc[w] = "idle"
    BY DEF Quiet, Announced, InQueue, At
  <2>2. rides[r] \in past[r] /\ rides[r].driver # None
    BY DEF TableInv, RowsOf, NoRide, FoundDriver
  <2>3. Matched(r)
    BY <2>2 DEF TableInv, RowsOf, Matched
  <2>4. r \in closed
    BY <2>1, <2>3 DEF WithdrawInv, WithdrawalDue, On, Reading
  <2>5. Losers(r) = {}
    BY <2>1, <2>4 DEF WithdrawInv, LosersReached, On
  <2>6. PICK row \in past[r] : row.driver = d
    BY <2>5 DEF Losers, Drives
  <2>7. d # None
    BY DomainAssumption
  <2> QED BY <2>2, <2>6, <2>7 DEF TableInv, RowsOf
<1> QED BY <1>1, <1>2, <1>3, PTL DEF Spec
=============================================================================

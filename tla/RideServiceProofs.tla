------------------------- MODULE RideServiceProofs -------------------------
(***************************************************************************)
(* Proofs about RideService, for any number of riders, drivers, rides,     *)
(* threads, requests and failures.                                         *)
(*                                                                         *)
(* The inductive invariant has parts, each inductive given the ones before *)
(* it: the types and the locals each step of a request relies on           *)
(* (ShapeOf), the lock, the ride table and its history, the matches, the   *)
(* credits and the events.                                                 *)
(***************************************************************************)
EXTENDS RideService, TLAPS

(* The steps each operation goes through. *)
StepOf(op, step) ==
  \/ op = "none" /\ step = "idle"
  \/ op = "request" /\ step \in {"save", "publish"}
  \/ op = "accept" /\ step \in {"lock", "ride", "driver", "mark_pg", "mark_redis",
                               "save", "publish"}
  \/ op = "start" /\ step = "save"
  \/ op = "complete" /\ step \in {"save", "mark_pg", "mark_redis", "publish"}
  \/ op = "cancel" /\ step \in {"mark_pg", "mark_redis", "save", "publish"}
  \/ op \in {"online", "offline"} /\ step \in {"mark_pg", "mark_redis"}
  \/ op = "rate" /\ step \in {"rating", "driver", "mark_pg", "mark_redis"}

(* What the locals of a request are at each of its steps. *)
ShapeOf(step, q) ==
  /\ q.op \in Ops \cup {"none"}
  /\ StepOf(q.op, step)
  /\ q.op = "request" => q.user \in Riders
  /\ q.op \in {"accept", "start", "complete", "online", "offline"} => q.user \in Drivers
  /\ q.op \in {"cancel", "rate"} => q.user \in Users
  /\ q.op \in {"request", "accept", "start", "complete", "cancel", "rate"} => q.rid \in RideIds
  /\ q.op \in {"start", "complete", "cancel", "rate"} => q.row \in Ride
  /\ q.op = "accept" /\ step \notin {"lock", "ride"} => q.row \in Ride
  /\ step \in {"mark_pg", "mark_redis"} => Target(q) \in Drivers
  /\ q.op = "rate" /\ step # "rating" => Target(q) \in Drivers
  /\ q.op \in {"accept", "offline"} => ~q.flag

Shapes == \A t \in Threads : ShapeOf(pc[t], req[t])

(* A request overwrites a row with a successor of a row it read, whose guard *)
(* that row passed; a new ride's id is its own.                              *)
GuardPassed(q) ==
  /\ q.op = "start" => CanStart(q.row, q.user)
  /\ q.op = "complete" => CanComplete(q.row, q.user)
  /\ q.op = "cancel" => CanCancel(q.row, q.user)

PastDecision(t) ==
  InAccept(t) /\ pc[t] \in {"driver", "mark_pg", "mark_redis", "save"}

RowsFromPast ==
  \A t \in Threads :
    /\ req[t].op \in {"start", "complete", "cancel"}
         => req[t].row \in past[req[t].rid] /\ GuardPassed(req[t])
    /\ PastDecision(t) => req[t].row \in past[req[t].rid] /\ CanAccept(req[t].row)

NewIdsAreFresh ==
  \A t \in Threads : req[t].op = "request" /\ pc[t] = "save" =>
    /\ rides[req[t].rid] = NoRide
    /\ \A s \in Threads \ {t} : req[s].op = "request" => req[s].rid # req[t].rid

History ==
  \A r \in RideIds :
    /\ rides[r] = NoRide => past[r] = {}
    /\ rides[r] # NoRide => rides[r] \in past[r]

(* What the accept lock buys: at most one row of a ride is MATCHED, a ride    *)
(* that has had one has left REQUESTED for good, and an accept that is past   *)
(* its status check is about to write the first one.                          *)
NoMatch(rows) == \A row \in rows : row.status # "MATCHED"

Disciplined(rows, ride) ==
  /\ NoMatch(rows) => \A row \in rows : row.status \in {"REQUESTED", "CANCELLED"}
  /\ ~NoMatch(rows) => ride.status # "REQUESTED"
  /\ \A a, b \in rows : a.status = "MATCHED" /\ b.status = "MATCHED" => a = b

MatchInv ==
  /\ \A r \in RideIds : Disciplined(past[r], rides[r])
  /\ \A t \in Threads : PastDecision(t) => NoMatch(past[req[t].rid])

(* Every availability not yet spent is still counted, including the one an    *)
(* accept has seen and is about to spend.                                     *)
Covered ==
  /\ \A d \in Drivers : credit[d] >= 0 /\ (d \in available => credit[d] >= 1)
  /\ \A t \in Threads :
       req[t].op = "accept" /\ pc[t] = "mark_pg" => credit[req[t].user] >= 1

RatersHaveRated ==
  \A t \in Threads : req[t].op = "rate" /\ pc[t] # "rating" => rated # {}

CreditInv == RatersHaveRated /\ (rated = {} => Covered)

-----------------------------------------------------------------------------
(* Types and locals. *)

\* The constants are what the proofs need them to be.
LEMMA Constants ==
  /\ None \notin Users /\ None \notin RideIds /\ None \notin Threads
  /\ Riders \subseteq Users /\ Drivers \subseteq Users
  /\ ProcOf \in [Threads -> Procs]
  /\ Ops \subseteq AllOps /\ "none" \notin Ops
  /\ MaxRequests \in Nat /\ MaxFailures \in Nat
BY DomainAssumption, ServiceAssumption DEF Users, AllOps

\* An idle thread holds no request, and only an idle thread does.
LEMMA IdleShape ==
  /\ NoRequest \in Request
  /\ ShapeOf("idle", NoRequest)
  /\ \A step, q : ShapeOf(step, q) => (step = "idle" <=> q.op = "none")
<1>1. NoRequest \in Request
  BY DEF NoRequest, Request
<1>2. ShapeOf("idle", NoRequest)
  BY DEF NoRequest, ShapeOf, StepOf
<1>3. ASSUME NEW step, NEW q, ShapeOf(step, q)
      PROVE  step = "idle" <=> q.op = "none"
  BY <1>3, Constants DEF ShapeOf, StepOf, AllOps
<1> QED BY <1>1, <1>2, <1>3

\* A step that gives one thread well-shaped locals keeps all locals well shaped.
LEMMA OneThreadMoves ==
  ASSUME TypeOK, Shapes, NEW t \in Threads, NEW step \in Steps, NEW q \in Request,
         ShapeOf(step, q),
         pc' = [pc EXCEPT ![t] = step], req' = [req EXCEPT ![t] = q]
  PROVE  pc' \in [Threads -> Steps] /\ req' \in [Threads -> Request] /\ Shapes'
<1>1. pc' \in [Threads -> Steps] /\ req' \in [Threads -> Request]
  BY DEF TypeOK
<1>2. ASSUME NEW s \in Threads PROVE ShapeOf(pc'[s], req'[s])
  <2>1. CASE s = t
    BY <2>1 DEF TypeOK
  <2>2. CASE s # t
    <3>1. pc'[s] = pc[s] /\ req'[s] = req[s]
      BY <2>2 DEF TypeOK
    <3> QED BY <3>1 DEF Shapes
  <2> QED BY <2>1, <2>2
<1> QED BY <1>1, <1>2 DEF Shapes

\* Goto keeps the locals, unless the request returns.
LEMMA GotoMoves ==
  ASSUME TypeOK, Shapes, NEW t \in Threads, NEW step \in Steps, Goto(t, step),
         step # "idle" => ShapeOf(step, req[t])
  PROVE  pc' \in [Threads -> Steps] /\ req' \in [Threads -> Request] /\ Shapes'
<1>1. CASE step = "idle"
  BY <1>1, IdleShape, OneThreadMoves DEF Goto
<1>2. CASE step # "idle"
  <2>1. req[t] \in Request /\ req' = [req EXCEPT ![t] = req[t]]
    BY <1>2 DEF Goto, TypeOK
  <2> QED BY <1>2, <2>1, OneThreadMoves DEF Goto
<1> QED BY <1>1, <1>2

\* Every request begins with well-shaped locals.
LEMMA ArriveMoves ==
  ASSUME TypeOK, Shapes, NEW t \in Threads, Arrive(t)
  PROVE  pc' \in [Threads -> Steps] /\ req' \in [Threads -> Request] /\ Shapes'
<1> DEFINE Locals(op, user, rid, row, flag) ==
      [op |-> op, user |-> user, rid |-> rid, row |-> row, flag |-> flag]
<1> USE Constants
<1>1. ASSUME NEW op, NEW user, NEW rid, NEW row, NEW flag, NEW step \in Steps,
             Begin(t, op, user, rid, row, flag, step),
             Locals(op, user, rid, row, flag) \in Request,
             op \in Ops => ShapeOf(step, Locals(op, user, rid, row, flag))
      PROVE  pc' \in [Threads -> Steps] /\ req' \in [Threads -> Request] /\ Shapes'
  <2>1. op \in Ops
    BY <1>1 DEF Begin, Serve
  <2> QED BY <1>1, <2>1, OneThreadMoves DEF Begin
<1>2. CASE BeginRequest(t)
  <2>1. PICK u \in Riders, r \in RideIds : Begin(t, "request", u, r, NoRide, FALSE, "save")
    BY <1>2 DEF BeginRequest
  <2>2. Locals("request", u, r, NoRide, FALSE) \in Request
    BY DEF Request, AllOps
  <2>3. "request" \in Ops => ShapeOf("save", Locals("request", u, r, NoRide, FALSE))
    BY DEF ShapeOf, StepOf
  <2> QED BY <1>1, <2>1, <2>2, <2>3 DEF Steps
<1>3. CASE BeginAccept(t)
  <2>1. PICK d \in Drivers, r \in RideIds : Begin(t, "accept", d, r, NoRide, FALSE, "lock")
    BY <1>3 DEF BeginAccept
  <2>2. Locals("accept", d, r, NoRide, FALSE) \in Request
    BY DEF Request, AllOps
  <2>3. "accept" \in Ops => ShapeOf("lock", Locals("accept", d, r, NoRide, FALSE))
    BY DEF ShapeOf, StepOf
  <2> QED BY <1>1, <2>1, <2>2, <2>3 DEF Steps
<1>4. CASE BeginStart(t)
  <2>1. PICK d \in Drivers, r \in RideIds :
           CanStart(rides[r], d) /\ Begin(t, "start", d, r, rides[r], FALSE, "save")
    BY <1>4 DEF BeginStart
  <2>2. rides[r] \in Ride
    BY <2>1 DEF CanStart, TypeOK, NoRide
  <2>3. Locals("start", d, r, rides[r], FALSE) \in Request
    BY <2>2 DEF Request, AllOps
  <2>4. "start" \in Ops => ShapeOf("save", Locals("start", d, r, rides[r], FALSE))
    BY <2>2 DEF ShapeOf, StepOf
  <2> QED BY <1>1, <2>1, <2>3, <2>4 DEF Steps
<1>5. CASE BeginComplete(t)
  <2>1. PICK d \in Drivers, r \in RideIds :
           CanComplete(rides[r], d) /\ Begin(t, "complete", d, r, rides[r], TRUE, "save")
    BY <1>5 DEF BeginComplete
  <2>2. rides[r] \in Ride
    BY <2>1 DEF CanComplete, TypeOK, NoRide
  <2>3. Locals("complete", d, r, rides[r], TRUE) \in Request
    BY <2>2 DEF Request, AllOps
  <2>4. "complete" \in Ops => ShapeOf("save", Locals("complete", d, r, rides[r], TRUE))
    BY <2>2 DEF ShapeOf, StepOf
  <2> QED BY <1>1, <2>1, <2>3, <2>4 DEF Steps
<1>6. CASE BeginCancel(t)
  <2>1. PICK u \in Users, r \in RideIds :
           /\ CanCancel(rides[r], u)
           /\ Begin(t, "cancel", u, r, rides[r], TRUE, CancelFirst(rides[r]))
    BY <1>6 DEF BeginCancel
  <2>2. rides[r] \in Ride
    BY <2>1 DEF CanCancel, TypeOK, NoRide, RideStatus
  <2>3. Locals("cancel", u, r, rides[r], TRUE) \in Request
    BY <2>2 DEF Request, AllOps
  <2>4. "cancel" \in Ops
          => ShapeOf(CancelFirst(rides[r]), Locals("cancel", u, r, rides[r], TRUE))
    BY <2>2 DEF ShapeOf, StepOf, CancelFirst, Target, Ride
  <2> QED BY <1>1, <2>1, <2>3, <2>4 DEF Steps, CancelFirst
<1>7. CASE BeginOnline(t)
  <2>1. PICK d \in Drivers : Begin(t, "online", d, None, NoRide, TRUE, "mark_pg")
    BY <1>7 DEF BeginOnline
  <2>2. Locals("online", d, None, NoRide, TRUE) \in Request
    BY DEF Request, AllOps
  <2>3. "online" \in Ops => ShapeOf("mark_pg", Locals("online", d, None, NoRide, TRUE))
    BY DEF ShapeOf, StepOf, Target
  <2> QED BY <1>1, <2>1, <2>2, <2>3 DEF Steps
<1>8. CASE BeginOffline(t)
  <2>1. PICK d \in Drivers : Begin(t, "offline", d, None, NoRide, FALSE, "mark_pg")
    BY <1>8 DEF BeginOffline
  <2>2. Locals("offline", d, None, NoRide, FALSE) \in Request
    BY DEF Request, AllOps
  <2>3. "offline" \in Ops => ShapeOf("mark_pg", Locals("offline", d, None, NoRide, FALSE))
    BY DEF ShapeOf, StepOf, Target
  <2> QED BY <1>1, <2>1, <2>2, <2>3 DEF Steps
<1>9. CASE UpdateLocation(t)
  BY <1>9 DEF UpdateLocation, TypeOK, Shapes
<1>10. CASE BeginRate(t)
  <2>1. PICK u \in Users, r \in RideIds :
           /\ rides[r].status = "COMPLETED"
           /\ Begin(t, "rate", u, r, rides[r], FALSE, "rating")
    BY <1>10 DEF BeginRate
  <2>2. rides[r] \in Ride
    BY <2>1 DEF TypeOK, NoRide
  <2>3. Locals("rate", u, r, rides[r], FALSE) \in Request
    BY <2>2 DEF Request, AllOps
  <2>4. "rate" \in Ops => ShapeOf("rating", Locals("rate", u, r, rides[r], FALSE))
    BY <2>2 DEF ShapeOf, StepOf
  <2> QED BY <1>1, <2>1, <2>3, <2>4 DEF Steps
<1> QED
  BY <1>2, <1>3, <1>4, <1>5, <1>6, <1>7, <1>8, <1>9, <1>10 DEF Arrive

\* Every successor of a row of the table is a row of the table.
LEMMA SuccessorTypes ==
  ASSUME NEW ride \in Ride
  PROVE  /\ \A d \in Drivers : Accepted(ride, d) \in Ride
         /\ Started(ride) \in Ride
         /\ Completed(ride) \in Ride
         /\ Cancelled(ride) \in Ride
<1>1. ride.version + 1 \in Nat
  BY DEF Ride
<1>2. \A v \in Nat :
        /\ \A d \in Drivers :
             [ride EXCEPT !.driver = d, !.status = "MATCHED", !.version = v] \in Ride
        /\ [ride EXCEPT !.status = "IN_PROGRESS", !.version = v] \in Ride
        /\ [ride EXCEPT !.status = "COMPLETED", !.fare = "set", !.version = v] \in Ride
        /\ [ride EXCEPT !.status = "CANCELLED", !.version = v] \in Ride
  BY DEF Ride, RideStatus
<1> QED BY <1>1, <1>2 DEF Accepted, Started, Completed, Cancelled

\* The row a request saves, by operation; it is a row of the table.
LEMMA SavedRow ==
  ASSUME NEW q \in Request, ShapeOf("save", q)
  PROVE  /\ q.op \in {"request", "accept", "start", "complete", "cancel"}
         /\ q.rid \in RideIds
         /\ q.op = "request" => RowToSave(q) = NewRide(q.user)
         /\ q.op = "accept" => RowToSave(q) = Accepted(q.row, q.user)
         /\ q.op = "start" => RowToSave(q) = Started(q.row)
         /\ q.op = "complete" => RowToSave(q) = Completed(q.row)
         /\ q.op = "cancel" => RowToSave(q) = Cancelled(q.row)
         /\ RowToSave(q) \in Ride
<1>1. q.op \in {"request", "accept", "start", "complete", "cancel"} /\ q.rid \in RideIds
  BY DEF ShapeOf, StepOf
<1>2. /\ q.op = "request" => RowToSave(q) = NewRide(q.user)
      /\ q.op = "accept" => RowToSave(q) = Accepted(q.row, q.user)
      /\ q.op = "start" => RowToSave(q) = Started(q.row)
      /\ q.op = "complete" => RowToSave(q) = Completed(q.row)
      /\ q.op = "cancel" => RowToSave(q) = Cancelled(q.row)
  BY DEF RowToSave
<1>3. CASE q.op = "request"
  BY <1>2, <1>3 DEF NewRide, ShapeOf, Ride, RideStatus
<1>4. CASE q.op # "request"
  <2>1. q.row \in Ride
    BY <1>1, <1>4 DEF ShapeOf
  <2>2. q.op = "accept" => q.user \in Drivers
    BY DEF ShapeOf
  <2>3. /\ q.op = "accept" => Accepted(q.row, q.user) \in Ride
        /\ Started(q.row) \in Ride
        /\ Completed(q.row) \in Ride
        /\ Cancelled(q.row) \in Ride
    BY <2>1, <2>2, SuccessorTypes
  <2> QED BY <1>1, <1>2, <1>4, <2>3
<1> QED BY <1>1, <1>2, <1>3, <1>4

\* Leaving the accept block keeps the lock's type.
LEMMA LeaveLockType ==
  ASSUME TypeOK, NEW t \in Threads, LeaveLock(t)
  PROVE  acceptLock' \in [Procs -> Threads \cup {None}]
BY Constants DEF TypeOK, LeaveLock

\* Arrivals keep the rest of the types.
LEMMA ArriveTypes ==
  ASSUME TypeOK, Shapes, NEW t \in Threads, Arrive(t)
  PROVE  TypeOK' /\ Shapes'
<1>1. pc' \in [Threads -> Steps] /\ req' \in [Threads -> Request] /\ Shapes'
  BY ArriveMoves
<1>2. /\ started' = started + 1 /\ started < MaxRequests /\ UNCHANGED failures
      /\ UNCHANGED <<tables, events, acceptLock, available, availSet, credit>>
  BY DEF Arrive, BeginRequest, BeginAccept, BeginStart, BeginComplete, BeginCancel,
         BeginOnline, BeginOffline, UpdateLocation, BeginRate, Begin, Serve, presence
<1>3. geo' \in SUBSET Drivers
  BY DEF Arrive, BeginRequest, BeginAccept, BeginStart, BeginComplete, BeginCancel,
         BeginOnline, BeginOffline, UpdateLocation, BeginRate, presence, TypeOK
<1>4. started' \in 0..MaxRequests /\ failures' \in 0..MaxFailures
  BY <1>2, Constants DEF TypeOK
<1> QED
  BY <1>1, <1>2, <1>3, <1>4 DEF TypeOK, tables, events

\* The steps of a request keep the types.
LEMMA StepTypes ==
  ASSUME TypeOK, Shapes, NEW t \in Threads, Step(t)
  PROVE  TypeOK' /\ Shapes'
<1> DEFINE q == req[t]
<1>a. q \in Request /\ ShapeOf(pc[t], q) /\ pc[t] \in Steps
  BY DEF TypeOK, Shapes
<1>b. UNCHANGED <<started, failures>>
  BY DEF Step, AcquireLock, AcceptReadRide, AcceptReadDriver, SaveRide, MarkPg,
         MarkRedis, Publish, SaveRating, RateReadDriver
<1>1. CASE AcquireLock(t)
  <2>1. ShapeOf("ride", q)
    BY <1>1, <1>a DEF AcquireLock, ShapeOf, StepOf
  <2>2. pc' \in [Threads -> Steps] /\ req' \in [Threads -> Request] /\ Shapes'
    BY <1>1, <2>1, GotoMoves DEF AcquireLock, Steps
  <2>3. acceptLock' \in [Procs -> Threads \cup {None}]
    BY <1>1 DEF AcquireLock, TypeOK
  <2> QED BY <1>1, <1>b, <2>2, <2>3 DEF AcquireLock, TypeOK, tables, presence, events
<1>2. CASE AcceptReadRide(t)
  <2>1. CASE CanAccept(rides[q.rid]) /\ pc' = [pc EXCEPT ![t] = "driver"]
             /\ req' = [req EXCEPT ![t].row = rides[q.rid]] /\ UNCHANGED acceptLock
    <3> DEFINE q2 == [q EXCEPT !.row = rides[q.rid]]
    <3>1. q.op = "accept" /\ q.rid \in RideIds
      BY <1>2, <1>a DEF AcceptReadRide, ShapeOf, StepOf
    <3>2. rides[q.rid] \in Ride
      BY <2>1, <3>1 DEF CanAccept, TypeOK, NoRide
    <3>3. q2 \in Request /\ ShapeOf("driver", q2)
      BY <1>a, <3>1, <3>2 DEF ShapeOf, StepOf, Request
    <3>4. req' = [req EXCEPT ![t] = q2]
      BY <2>1, <1>a DEF TypeOK
    <3>5. pc' \in [Threads -> Steps] /\ req' \in [Threads -> Request] /\ Shapes'
      BY <2>1, <3>3, <3>4, OneThreadMoves DEF Steps
    <3> QED
      BY <1>2, <1>b, <2>1, <3>5 DEF AcceptReadRide, TypeOK, tables, presence, events
  <2>2. CASE RefuseAccept(t)
    <3>1. pc' \in [Threads -> Steps] /\ req' \in [Threads -> Request] /\ Shapes'
      BY <2>2, GotoMoves DEF RefuseAccept, Steps
    <3>2. acceptLock' \in [Procs -> Threads \cup {None}]
      BY <2>2, LeaveLockType DEF RefuseAccept
    <3> QED
      BY <1>2, <1>b, <3>1, <3>2 DEF AcceptReadRide, TypeOK, tables, presence, events
  <2> QED BY <1>2, <2>1, <2>2 DEF AcceptReadRide
<1>3. CASE AcceptReadDriver(t)
  <2>1. CASE Goto(t, "mark_pg") /\ UNCHANGED acceptLock
    <3>1. ShapeOf("mark_pg", q)
      BY <1>3, <1>a DEF AcceptReadDriver, ShapeOf, StepOf, Target
    <3>2. pc' \in [Threads -> Steps] /\ req' \in [Threads -> Request] /\ Shapes'
      BY <2>1, <3>1, GotoMoves DEF Steps
    <3> QED
      BY <1>3, <1>b, <2>1, <3>2 DEF AcceptReadDriver, TypeOK, tables, presence, events
  <2>2. CASE RefuseAccept(t)
    <3>1. pc' \in [Threads -> Steps] /\ req' \in [Threads -> Request] /\ Shapes'
      BY <2>2, GotoMoves DEF RefuseAccept, Steps
    <3>2. acceptLock' \in [Procs -> Threads \cup {None}]
      BY <2>2, LeaveLockType DEF RefuseAccept
    <3> QED
      BY <1>3, <1>b, <3>1, <3>2 DEF AcceptReadDriver, TypeOK, tables, presence, events
  <2> QED BY <1>3, <2>1, <2>2 DEF AcceptReadDriver
<1>4. CASE SaveRide(t)
  <2>0. ShapeOf("save", q)
    BY <1>4, <1>a DEF SaveRide
  <2>1. /\ q.op \in {"request", "accept", "start", "complete", "cancel"}
        /\ q.rid \in RideIds /\ RowToSave(q) \in Ride
    BY <1>a, <2>0, SavedRow
  <2>2. rides' \in [RideIds -> Ride \cup {NoRide}] /\ past' \in [RideIds -> SUBSET Ride]
    BY <1>4, <2>1 DEF SaveRide, Write, TypeOK
  <2>3. AfterSave[q.op] # "idle" => ShapeOf(AfterSave[q.op], q)
    BY <1>a, <2>0, <2>1 DEF AfterSave, ShapeOf, StepOf, Target
  <2>4. pc' \in [Threads -> Steps] /\ req' \in [Threads -> Request] /\ Shapes'
    BY <1>4, <2>1, <2>3, GotoMoves DEF SaveRide, Steps, AfterSave
  <2> QED BY <1>4, <1>b, <2>2, <2>4 DEF SaveRide, TypeOK, presence, events
<1>5. CASE MarkPg(t)
  <2>1. Target(q) \in Drivers /\ ShapeOf("mark_redis", q)
    BY <1>5, <1>a DEF MarkPg, ShapeOf, StepOf
  <2>2. available' \in SUBSET Drivers /\ credit' \in [Drivers -> Int]
    BY <1>5, <2>1 DEF MarkPg, TypeOK, Credited
  <2>3. pc' \in [Threads -> Steps] /\ req' \in [Threads -> Request] /\ Shapes'
    BY <1>5, <2>1, GotoMoves DEF MarkPg, Steps
  <2> QED BY <1>5, <1>b, <2>2, <2>3 DEF MarkPg, TypeOK, tables, events
<1>6. CASE MarkRedis(t)
  <2>0. ShapeOf("mark_redis", q)
    BY <1>6, <1>a DEF MarkRedis
  <2>1. Target(q) \in Drivers
        /\ q.op \in {"accept", "complete", "cancel", "online", "offline", "rate"}
    BY <2>0 DEF ShapeOf, StepOf
  <2>2. availSet' \in SUBSET Drivers
    BY <1>6, <2>1 DEF MarkRedis, TypeOK
  <2>3. AfterMark[q.op] # "idle" => ShapeOf(AfterMark[q.op], q)
    BY <2>0, <2>1 DEF AfterMark, ShapeOf, StepOf
  <2>4. pc' \in [Threads -> Steps] /\ req' \in [Threads -> Request] /\ Shapes'
    BY <1>6, <2>1, <2>3, GotoMoves DEF MarkRedis, Steps, AfterMark
  <2> QED BY <1>6, <1>b, <2>2, <2>4 DEF MarkRedis, TypeOK, tables, events
<1>7. CASE Publish(t)
  <2>1. q.rid \in RideIds /\ q.op \in {"request", "accept", "complete", "cancel"}
    BY <1>7, <1>a DEF Publish, ShapeOf, StepOf
  <2>2. published' \in [RideIds -> SUBSET Topics]
    BY <1>7, <2>1 DEF Publish, TypeOK, TopicOf, Topics
  <2>3. acceptLock' \in [Procs -> Threads \cup {None}]
    BY <1>7, LeaveLockType DEF Publish
  <2>4. pc' \in [Threads -> Steps] /\ req' \in [Threads -> Request] /\ Shapes'
    BY <1>7, GotoMoves DEF Publish, Steps
  <2> QED BY <1>7, <1>b, <2>2, <2>3, <2>4 DEF Publish, TypeOK, tables, presence
<1>8. CASE SaveRating(t)
  <2>1. q.op = "rate" /\ q.rid \in RideIds /\ q.user \in Users
    <3>1. q.op = "rate" /\ q.rid \in RideIds
      BY <1>8, <1>a DEF SaveRating, ShapeOf, StepOf
    <3>2. q.user \in Users
      BY <3>1, <1>a DEF ShapeOf
    <3> QED BY <3>1, <3>2
  <2>2. rated' \in SUBSET (RideIds \X Users)
    BY <1>8, <2>1 DEF SaveRating, TypeOK
  <2>3. Target(q) \in Drivers => ShapeOf("driver", q)
    BY <1>8, <1>a, <2>1 DEF SaveRating, ShapeOf, StepOf
  <2>4. pc' \in [Threads -> Steps] /\ req' \in [Threads -> Request] /\ Shapes'
    <3>1. CASE Goto(t, "idle")
      BY <3>1, GotoMoves DEF Steps
    <3>2. CASE Target(q) \in Drivers /\ Goto(t, "driver")
      BY <3>2, <2>3, GotoMoves DEF Steps
    <3> QED BY <1>8, <3>1, <3>2 DEF SaveRating
  <2> QED BY <1>8, <1>b, <2>2, <2>4 DEF SaveRating, TypeOK, tables, presence
<1>9. CASE RateReadDriver(t)
  <2> DEFINE q2 == [q EXCEPT !.flag = IsAvailable(Target(q))]
  <2>1. q.op = "rate" /\ Target(q) \in Drivers
    BY <1>9, <1>a DEF RateReadDriver, ShapeOf, StepOf
  <2>2. q2 \in Request
    <3>1. \A b \in BOOLEAN : [q EXCEPT !.flag = b] \in Request
      BY <1>a DEF Request
    <3>2. IsAvailable(Target(q)) \in BOOLEAN
      BY DEF IsAvailable
    <3> QED BY <3>1, <3>2
  <2>3. Target(q2) = Target(q)
    BY <1>a DEF Request, Target
  <2>4. ShapeOf("mark_pg", q2)
    BY <1>a, <2>1, <2>3 DEF ShapeOf, StepOf, Request
  <2>5. req' = [req EXCEPT ![t] = q2] /\ pc' = [pc EXCEPT ![t] = "mark_pg"]
    BY <1>9, <1>a DEF RateReadDriver, TypeOK
  <2>6. pc' \in [Threads -> Steps] /\ req' \in [Threads -> Request] /\ Shapes'
    BY <2>2, <2>4, <2>5, OneThreadMoves DEF Steps
  <2> QED
    BY <1>9, <1>b, <2>6 DEF RateReadDriver, TypeOK, tables, presence, events
<1> QED
  BY <1>1, <1>2, <1>3, <1>4, <1>5, <1>6, <1>7, <1>8, <1>9 DEF Step

\* A request that fails keeps the types.
LEMMA FailTypes ==
  ASSUME TypeOK, Shapes, NEW t \in Threads, Fail(t)
  PROVE  TypeOK' /\ Shapes'
<1>1. pc' \in [Threads -> Steps] /\ req' \in [Threads -> Request] /\ Shapes'
  BY GotoMoves DEF Fail, Steps
<1>2. acceptLock' \in [Procs -> Threads \cup {None}]
  BY LeaveLockType DEF Fail
<1>3. started' \in 0..MaxRequests /\ failures' \in 0..MaxFailures
  BY Constants DEF Fail, TypeOK
<1> QED BY <1>1, <1>2, <1>3 DEF Fail, TypeOK, tables, presence, events

LEMMA InitTypes == Init => TypeOK /\ Shapes
<1> SUFFICES ASSUME Init PROVE TypeOK /\ Shapes
  OBVIOUS
<1>1. started \in 0..MaxRequests /\ failures \in 0..MaxFailures
  BY Constants DEF Init
<1>2. pc \in [Threads -> Steps] /\ req \in [Threads -> Request]
  BY IdleShape DEF Init, Steps
<1>3. TypeOK
  BY <1>1, <1>2 DEF Init, TypeOK
<1>4. Shapes
  BY IdleShape DEF Init, Shapes
<1> QED BY <1>3, <1>4

LEMMA NextTypes == TypeOK /\ Shapes /\ [Next]_vars => TypeOK' /\ Shapes'
<1> SUFFICES ASSUME TypeOK, Shapes, [Next]_vars PROVE TypeOK' /\ Shapes'
  OBVIOUS
<1>1. CASE UNCHANGED vars
  BY <1>1 DEF vars, tables, presence, events, TypeOK, Shapes
<1>2. CASE \E t \in Threads : Arrive(t) \/ Step(t) \/ Fail(t)
  BY <1>2, ArriveTypes, StepTypes, FailTypes
<1> QED BY <1>1, <1>2 DEF Next, Rest

\* Every variable keeps its type, and the locals of a request are what its next
\* step expects: no save uses a row that was not read, no availability write
\* concerns a missing driver.
THEOREM TypeCorrect == Spec => []TypeOK
<1>1. Spec => [](TypeOK /\ Shapes)
  BY InitTypes, NextTypes, PTL DEF Spec
<1> QED BY <1>1, PTL

LEMMA ShapeCorrect == Spec => [](TypeOK /\ Shapes)
BY InitTypes, NextTypes, PTL DEF Spec

\* What a request holds when it begins: an accept has read nothing yet, a new
\* ride has an id of its own, and any other request has passed its guard on the
\* current row.
LEMMA ArriveLocals ==
  ASSUME TypeOK, NEW t \in Threads, Arrive(t)
  PROVE  /\ pc[t] = "idle"
         /\ UNCHANGED <<rides, past, acceptLock, available, credit>>
         /\ \/ UNCHANGED <<pc, req>>
            \/ req'[t].op = "request" /\ Fresh(req'[t].rid)
            \/ req'[t].op = "accept" /\ pc'[t] = "lock"
            \/ /\ req'[t].op \in {"start", "complete", "cancel"}
               /\ req'[t].row = rides[req'[t].rid]
               /\ req'[t].row # NoRide
               /\ GuardPassed(req'[t])
            \/ req'[t].op = "rate" /\ pc'[t] = "rating"
            \/ req'[t].op \in {"online", "offline"}
<1>0. /\ pc[t] = "idle"
      /\ UNCHANGED <<rides, past, acceptLock, available, credit>>
  BY DEF Arrive, BeginRequest, BeginAccept, BeginStart, BeginComplete, BeginCancel,
     BeginOnline, BeginOffline, UpdateLocation, BeginRate, Begin, Serve, tables, presence
<1>1. ASSUME NEW op, NEW user, NEW rid, NEW row, NEW flag, NEW step,
             Begin(t, op, user, rid, row, flag, step)
      PROVE  /\ pc'[t] = step
             /\ req'[t].op = op /\ req'[t].user = user
             /\ req'[t].rid = rid /\ req'[t].row = row
  BY <1>1 DEF Begin, TypeOK
<1>2. CASE BeginRequest(t)
  BY <1>0, <1>1, <1>2 DEF BeginRequest
<1>3. CASE BeginAccept(t)
  BY <1>0, <1>1, <1>3 DEF BeginAccept
<1>4. CASE BeginStart(t)
  <2>1. PICK d \in Drivers, r \in RideIds :
           CanStart(rides[r], d) /\ Begin(t, "start", d, r, rides[r], FALSE, "save")
    BY <1>4 DEF BeginStart
  <2>2. rides[r] # NoRide
    BY <2>1 DEF CanStart, NoRide
  <2>3. req'[t].op = "start" /\ req'[t].user = d /\ req'[t].rid = r /\ req'[t].row = rides[r]
    BY <2>1 DEF Begin, TypeOK
  <2>4. GuardPassed(req'[t])
    BY <2>1, <2>3 DEF GuardPassed
  <2> QED BY <1>0, <2>2, <2>3, <2>4
<1>5. CASE BeginComplete(t)
  <2>1. PICK d \in Drivers, r \in RideIds :
           CanComplete(rides[r], d) /\ Begin(t, "complete", d, r, rides[r], TRUE, "save")
    BY <1>5 DEF BeginComplete
  <2>2. rides[r] # NoRide
    BY <2>1 DEF CanComplete, NoRide
  <2>3. req'[t].op = "complete" /\ req'[t].user = d /\ req'[t].rid = r /\ req'[t].row = rides[r]
    BY <2>1 DEF Begin, TypeOK
  <2>4. GuardPassed(req'[t])
    BY <2>1, <2>3 DEF GuardPassed
  <2> QED BY <1>0, <2>2, <2>3, <2>4
<1>6. CASE BeginCancel(t)
  <2>1. PICK u \in Users, r \in RideIds :
           /\ CanCancel(rides[r], u)
           /\ Begin(t, "cancel", u, r, rides[r], TRUE, CancelFirst(rides[r]))
    BY <1>6 DEF BeginCancel
  <2>2. rides[r] # NoRide
    BY <2>1 DEF CanCancel, NoRide, RideStatus
  <2>3. req'[t].op = "cancel" /\ req'[t].user = u /\ req'[t].rid = r /\ req'[t].row = rides[r]
    BY <2>1 DEF Begin, TypeOK
  <2>4. GuardPassed(req'[t])
    BY <2>1, <2>3 DEF GuardPassed
  <2> QED BY <1>0, <2>2, <2>3, <2>4
<1>7. CASE BeginOnline(t)
  BY <1>0, <1>1, <1>7 DEF BeginOnline
<1>8. CASE BeginOffline(t)
  BY <1>0, <1>1, <1>8 DEF BeginOffline
<1>9. CASE UpdateLocation(t)
  BY <1>0, <1>9 DEF UpdateLocation
<1>10. CASE BeginRate(t)
  BY <1>0, <1>1, <1>10 DEF BeginRate
<1> QED
  BY <1>2, <1>3, <1>4, <1>5, <1>6, <1>7, <1>8, <1>9, <1>10 DEF Arrive

-----------------------------------------------------------------------------
(* The accept lock. *)

OthersStay(t) ==
  \A s \in Threads \ {t} : pc'[s] = pc[s] /\ req'[s] = req[s]

\* A step of one thread moves no other thread.
LEMMA OneThreadAtATime ==
  ASSUME TypeOK, NEW t \in Threads, Arrive(t) \/ Step(t) \/ Fail(t)
  PROVE  OthersStay(t)
<1>1. ASSUME NEW step, Goto(t, step) PROVE OthersStay(t)
  BY <1>1 DEF Goto, OthersStay, TypeOK
<1>2. ASSUME NEW op, NEW user, NEW rid, NEW row, NEW flag, NEW step,
             Begin(t, op, user, rid, row, flag, step)
      PROVE  OthersStay(t)
  BY <1>2 DEF Begin, OthersStay, TypeOK
<1>3. CASE Arrive(t)
  <2>1. CASE UpdateLocation(t)
    BY <2>1 DEF UpdateLocation, OthersStay
  <2> QED
    BY <1>2, <1>3, <2>1 DEF Arrive, BeginRequest, BeginAccept, BeginStart, BeginComplete,
       BeginCancel, BeginOnline, BeginOffline, BeginRate
<1>4. CASE Step(t)
  <2>1. CASE AcceptReadRide(t)
    BY <1>1, <2>1 DEF AcceptReadRide, RefuseAccept, OthersStay, TypeOK
  <2>2. CASE RateReadDriver(t)
    BY <2>2 DEF RateReadDriver, OthersStay, TypeOK
  <2> QED
    BY <1>1, <1>4, <2>1, <2>2 DEF Step, AcquireLock, AcceptReadDriver, RefuseAccept,
       SaveRide, MarkPg, MarkRedis, Publish, SaveRating
<1>5. CASE Fail(t)
  BY <1>1, <1>5 DEF Fail
<1> QED BY <1>3, <1>4, <1>5

\* A step that neither takes nor leaves the lock keeps it right.
LEMMA LockKept ==
  ASSUME LockHeldExactlyInAccept, NEW t \in Threads, OthersStay(t),
         UNCHANGED acceptLock, InAccept(t)' <=> InAccept(t)
  PROVE  LockHeldExactlyInAccept'
BY DEF LockHeldExactlyInAccept, InAccept, HoldsLock, OthersStay

\* A request that ends leaves the lock right.
LEMMA LockLeft ==
  ASSUME TypeOK, TypeOK', LockHeldExactlyInAccept, NEW t \in Threads, OthersStay(t),
         LeaveLock(t), Goto(t, "idle")
  PROVE  LockHeldExactlyInAccept'
<1>1. ~InAccept(t)'
  BY DEF InAccept, Goto, TypeOK
<1>2. ~HoldsLock(t)'
  BY Constants DEF LeaveLock, HoldsLock, TypeOK
<1>3. ASSUME NEW s \in Threads \ {t} PROVE HoldsLock(s)' <=> HoldsLock(s)
  BY Constants DEF LeaveLock, HoldsLock, TypeOK
<1> QED BY <1>1, <1>2, <1>3 DEF LockHeldExactlyInAccept, InAccept, OthersStay

LEMMA NextLock ==
  ASSUME TypeOK, Shapes, TypeOK', LockHeldExactlyInAccept,
         NEW t \in Threads, Arrive(t) \/ Step(t) \/ Fail(t)
  PROVE  LockHeldExactlyInAccept'
<1> DEFINE q == req[t]
<1>a. OthersStay(t)
  BY OneThreadAtATime
<1>b. ShapeOf(pc[t], q)
  BY DEF Shapes
<1>c. ASSUME NEW step, Goto(t, step), step # "idle"
      PROVE  pc'[t] = step /\ req'[t] = q
  BY <1>c DEF Goto, TypeOK
<1>d. ASSUME Goto(t, "idle") PROVE ~InAccept(t)'
  BY <1>d DEF Goto, InAccept, TypeOK
<1>1. CASE Arrive(t)
  <2>1. pc[t] = "idle" /\ UNCHANGED acceptLock
    BY <1>1 DEF Arrive, BeginRequest, BeginAccept, BeginStart, BeginComplete, BeginCancel,
       BeginOnline, BeginOffline, UpdateLocation, BeginRate, Begin, Serve
  <2>2. ~InAccept(t)'
    BY <1>1, <2>1, ArriveLocals DEF InAccept
  <2> QED BY <1>a, <2>1, <2>2, LockKept DEF InAccept
<1>2. CASE AcquireLock(t)
  <2>1. q.op = "accept" /\ pc'[t] = "ride" /\ req'[t] = q
    BY <1>2, <1>b, <1>c DEF AcquireLock, ShapeOf, StepOf
  <2>2. acceptLock'[ProcOf[t]] = t
    BY <1>2, Constants DEF AcquireLock, TypeOK
  <2>3. ASSUME NEW s \in Threads \ {t} PROVE HoldsLock(s)' <=> HoldsLock(s)
    BY <1>2, Constants DEF AcquireLock, LockFree, HoldsLock, TypeOK
  <2> QED
    BY <1>a, <2>1, <2>2, <2>3 DEF LockHeldExactlyInAccept, InAccept, OthersStay, HoldsLock
<1>3. CASE AcceptReadRide(t)
  <2>1. CASE RefuseAccept(t)
    BY <1>a, <2>1, LockLeft DEF RefuseAccept
  <2>2. CASE ~RefuseAccept(t)
    <3>1. UNCHANGED acceptLock /\ InAccept(t) /\ InAccept(t)'
      BY <1>3, <1>b, <2>2 DEF AcceptReadRide, InAccept, ShapeOf, StepOf, TypeOK, Request
    <3> QED BY <1>a, <3>1, LockKept
  <2> QED BY <2>1, <2>2
<1>4. CASE AcceptReadDriver(t)
  <2>1. CASE RefuseAccept(t)
    BY <1>a, <2>1, LockLeft DEF RefuseAccept
  <2>2. CASE ~RefuseAccept(t)
    <3>1. UNCHANGED acceptLock /\ InAccept(t) /\ InAccept(t)'
      BY <1>4, <1>b, <1>c, <2>2 DEF AcceptReadDriver, InAccept, ShapeOf, StepOf
    <3> QED BY <1>a, <3>1, LockKept
  <2> QED BY <2>1, <2>2
<1>5. CASE SaveRide(t)
  <2>1. UNCHANGED acceptLock /\ pc[t] = "save" /\ Goto(t, AfterSave[q.op])
        /\ q.op \in {"request", "accept", "start", "complete", "cancel"}
    BY <1>5, <1>b DEF SaveRide, ShapeOf, StepOf
  <2>2. InAccept(t)' <=> InAccept(t)
    BY <1>c, <1>d, <2>1 DEF InAccept, AfterSave
  <2> QED BY <1>a, <2>1, <2>2, LockKept
<1>6. CASE MarkPg(t)
  <2>1. UNCHANGED acceptLock /\ pc[t] = "mark_pg" /\ Goto(t, "mark_redis")
    BY <1>6 DEF MarkPg
  <2>2. InAccept(t)' <=> InAccept(t)
    BY <1>c, <2>1 DEF InAccept
  <2> QED BY <1>a, <2>1, <2>2, LockKept
<1>7. CASE MarkRedis(t)
  <2>1. UNCHANGED acceptLock /\ pc[t] = "mark_redis" /\ Goto(t, AfterMark[q.op])
        /\ q.op \in {"accept", "complete", "cancel", "online", "offline", "rate"}
    BY <1>7, <1>b DEF MarkRedis, ShapeOf, StepOf
  <2>2. InAccept(t)' <=> InAccept(t)
    BY <1>c, <1>d, <2>1 DEF InAccept, AfterMark
  <2> QED BY <1>a, <2>1, <2>2, LockKept
<1>8. CASE Publish(t)
  BY <1>8, <1>a, LockLeft DEF Publish
<1>9. CASE SaveRating(t)
  <2>1. UNCHANGED acceptLock /\ q.op = "rate"
        /\ (Goto(t, "driver") \/ Goto(t, "idle"))
    BY <1>9, <1>b DEF SaveRating, ShapeOf, StepOf
  <2>2. InAccept(t)' <=> InAccept(t)
    BY <1>c, <1>d, <2>1 DEF InAccept
  <2> QED BY <1>a, <2>1, <2>2, LockKept
<1>10. CASE RateReadDriver(t)
  <2>1. UNCHANGED acceptLock /\ q.op = "rate" /\ req'[t].op = "rate"
    BY <1>10, <1>b DEF RateReadDriver, ShapeOf, StepOf, TypeOK, Request
  <2> QED BY <1>a, <2>1, LockKept DEF InAccept
<1>11. CASE Fail(t)
  BY <1>11, <1>a, LockLeft DEF Fail
<1> QED
  BY <1>1, <1>2, <1>3, <1>4, <1>5, <1>6, <1>7, <1>8, <1>9, <1>10, <1>11 DEF Step

LEMMA InitLock == Init => LockHeldExactlyInAccept
BY Constants DEF Init, LockHeldExactlyInAccept, InAccept, HoldsLock, NoRequest

LEMMA BoxNextLock ==
  TypeOK /\ Shapes /\ TypeOK' /\ LockHeldExactlyInAccept /\ [Next]_vars
    => LockHeldExactlyInAccept'
<1> SUFFICES ASSUME TypeOK, Shapes, TypeOK', LockHeldExactlyInAccept, [Next]_vars
             PROVE  LockHeldExactlyInAccept'
  OBVIOUS
<1>1. CASE UNCHANGED vars
  BY <1>1 DEF vars, LockHeldExactlyInAccept, InAccept, HoldsLock
<1>2. CASE \E t \in Threads : Arrive(t) \/ Step(t) \/ Fail(t)
  BY <1>2, NextLock
<1> QED BY <1>1, <1>2 DEF Next, Rest

\* No path through accept_ride, refused, failed or returned, leaves the lock
\* held, and no thread is inside without it.
THEOREM LockCorrect == Spec => []LockHeldExactlyInAccept
BY InitLock, BoxNextLock, ShapeCorrect, PTL DEF Spec

-----------------------------------------------------------------------------
(* The ride table and its history. *)

TableInv == History /\ RowsFromPast /\ NewIdsAreFresh

\* What a step other than SaveRide does to the locals of its thread: the request
\* ends, or accept_ride reads the ride, or what was read is kept.
LEMMA StepLocals ==
  ASSUME TypeOK, Shapes, NEW t \in Threads, Step(t) \/ Fail(t), ~SaveRide(t)
  PROVE  /\ UNCHANGED <<rides, past>>
         /\ \/ pc'[t] = "idle" /\ req'[t] = NoRequest
            \/ /\ req[t].op = "accept" /\ pc[t] = "ride" /\ pc'[t] = "driver"
               /\ CanAccept(rides[req[t].rid])
               /\ req'[t].op = "accept" /\ req'[t].user = req[t].user
               /\ req'[t].rid = req[t].rid /\ req'[t].row = rides[req[t].rid]
            \/ /\ req'[t].op = req[t].op /\ req'[t].user = req[t].user
               /\ req'[t].rid = req[t].rid /\ req'[t].row = req[t].row
               /\ PastDecision(t)' => PastDecision(t)
               /\ req[t].op = "request" => pc'[t] # "save"
<1> DEFINE q == req[t]
<1>a. ShapeOf(pc[t], q) /\ q \in Request
  BY DEF Shapes, TypeOK
<1>b. UNCHANGED <<rides, past>>
  BY DEF Step, AcquireLock, AcceptReadRide, AcceptReadDriver, MarkPg, MarkRedis, Publish,
     SaveRating, RateReadDriver, Fail, tables
<1>c. ASSUME Goto(t, "idle") PROVE pc'[t] = "idle" /\ req'[t] = NoRequest
  BY <1>c DEF Goto, TypeOK
<1>d. ASSUME NEW step, Goto(t, step), step # "idle"
      PROVE  pc'[t] = step /\ req'[t] = q
  BY <1>d DEF Goto, TypeOK
<1>1. CASE AcquireLock(t)
  <2>1. q.op = "accept" /\ pc'[t] = "ride" /\ req'[t] = q
    BY <1>1, <1>a, <1>d DEF AcquireLock, ShapeOf, StepOf
  <2> QED BY <1>b, <2>1 DEF PastDecision
<1>2. CASE AcceptReadRide(t)
  <2>1. CASE RefuseAccept(t)
    BY <1>b, <1>c, <2>1 DEF RefuseAccept
  <2>2. CASE ~RefuseAccept(t)
    <3>1. /\ q.op = "accept" /\ pc[t] = "ride" /\ pc'[t] = "driver"
          /\ CanAccept(rides[q.rid])
          /\ req' = [req EXCEPT ![t].row = rides[q.rid]]
      BY <1>2, <1>a, <2>2 DEF AcceptReadRide, ShapeOf, StepOf, TypeOK
    <3>2. /\ req'[t].op = "accept" /\ req'[t].user = q.user
          /\ req'[t].rid = q.rid /\ req'[t].row = rides[q.rid]
      BY <3>1, <1>a DEF TypeOK, Request
    <3> QED BY <1>b, <3>1, <3>2
  <2> QED BY <2>1, <2>2
<1>3. CASE AcceptReadDriver(t)
  <2>1. CASE RefuseAccept(t)
    BY <1>b, <1>c, <2>1 DEF RefuseAccept
  <2>2. CASE ~RefuseAccept(t)
    <3>1. pc[t] = "driver" /\ q.op = "accept" /\ pc'[t] = "mark_pg" /\ req'[t] = q
      BY <1>3, <1>d, <2>2 DEF AcceptReadDriver
    <3> QED BY <1>b, <3>1 DEF PastDecision, InAccept
  <2> QED BY <2>1, <2>2
<1>4. CASE MarkPg(t)
  <2>1. pc[t] = "mark_pg" /\ pc'[t] = "mark_redis" /\ req'[t] = q
    BY <1>4, <1>d DEF MarkPg
  <2> QED BY <1>b, <2>1 DEF PastDecision, InAccept
<1>5. CASE MarkRedis(t)
  <2>1. /\ pc[t] = "mark_redis" /\ Goto(t, AfterMark[q.op])
        /\ q.op \in {"accept", "complete", "cancel", "online", "offline", "rate"}
    BY <1>5, <1>a DEF MarkRedis, ShapeOf, StepOf
  <2>2. \/ pc'[t] = "idle" /\ req'[t] = NoRequest
        \/ pc'[t] \in {"save", "publish"} /\ req'[t] = q
    BY <1>c, <1>d, <2>1 DEF AfterMark
  <2> QED BY <1>b, <2>1, <2>2 DEF PastDecision, InAccept
<1>6. CASE Publish(t)
  BY <1>6, <1>b, <1>c DEF Publish
<1>7. CASE SaveRating(t)
  <2>1. q.op = "rate" /\ (Goto(t, "driver") \/ Goto(t, "idle"))
    BY <1>7, <1>a DEF SaveRating, ShapeOf, StepOf
  <2>2. \/ pc'[t] = "idle" /\ req'[t] = NoRequest
        \/ pc'[t] = "driver" /\ req'[t] = q
    BY <1>c, <1>d, <2>1
  <2> QED BY <1>b, <2>1, <2>2 DEF PastDecision, InAccept
<1>8. CASE RateReadDriver(t)
  <2>1. /\ q.op = "rate"
        /\ req'[t].op = q.op /\ req'[t].user = q.user
        /\ req'[t].rid = q.rid /\ req'[t].row = q.row
    <3> HIDE DEF q
    <3>1. req' = [req EXCEPT ![t] = [@ EXCEPT !.flag = req'[t].flag]]
      BY <1>8, <1>a DEF RateReadDriver, TypeOK, Request, q
    <3> QED BY <1>8, <1>a, <3>1 DEF RateReadDriver, TypeOK, Request, q
  <2> QED BY <1>b, <2>1 DEF PastDecision, InAccept
<1>9. CASE Fail(t)
  BY <1>9, <1>b, <1>c DEF Fail
<1> QED
  BY <1>1, <1>2, <1>3, <1>4, <1>5, <1>6, <1>7, <1>8, <1>9 DEF Step

\* What SaveRide does: it opens a ride under an id no row has, or it writes a
\* successor of a row the ride has had.
LEMMA SaveRideEffect ==
  ASSUME TypeOK, Shapes, TableInv, NEW t \in Threads, SaveRide(t)
  PROVE  LET q == req[t]
             row == RowToSave(q) IN
         /\ q.rid \in RideIds /\ row \in Ride
         /\ rides' = [rides EXCEPT ![q.rid] = row]
         /\ past' = [past EXCEPT ![q.rid] = @ \cup {row}]
         /\ \/ /\ q.op = "request" /\ q.user \in Riders
               /\ rides[q.rid] = NoRide /\ past[q.rid] = {}
               /\ row = NewRide(q.user)
            \/ /\ q.op = "accept" /\ PastDecision(t) /\ q.user \in Drivers
               /\ q.row \in past[q.rid] /\ CanAccept(q.row)
               /\ row = Accepted(q.row, q.user)
            \/ /\ q.op = "start" /\ q.row \in past[q.rid] /\ CanStart(q.row, q.user)
               /\ row = Started(q.row)
            \/ /\ q.op = "complete" /\ q.row \in past[q.rid] /\ CanComplete(q.row, q.user)
               /\ row = Completed(q.row)
            \/ /\ q.op = "cancel" /\ q.row \in past[q.rid] /\ CanCancel(q.row, q.user)
               /\ row = Cancelled(q.row)
         /\ \/ pc'[t] = "idle" /\ req'[t] = NoRequest
            \/ pc'[t] \in {"publish", "mark_pg"} /\ req'[t] = q /\ ~PastDecision(t)'
<1> DEFINE q == req[t]
<1>1. pc[t] = "save" /\ ShapeOf("save", q) /\ q \in Request
  BY DEF SaveRide, Shapes, TypeOK
<1>2. /\ q.op \in {"request", "accept", "start", "complete", "cancel"}
      /\ q.rid \in RideIds /\ RowToSave(q) \in Ride
      /\ q.op = "request" => RowToSave(q) = NewRide(q.user)
      /\ q.op = "accept" => RowToSave(q) = Accepted(q.row, q.user)
      /\ q.op = "start" => RowToSave(q) = Started(q.row)
      /\ q.op = "complete" => RowToSave(q) = Completed(q.row)
      /\ q.op = "cancel" => RowToSave(q) = Cancelled(q.row)
  BY <1>1, SavedRow
<1>3. /\ rides' = [rides EXCEPT ![q.rid] = RowToSave(q)]
      /\ past' = [past EXCEPT ![q.rid] = @ \cup {RowToSave(q)}]
  BY DEF SaveRide, Write
<1>4. CASE q.op = "request"
  <2>1. q.user \in Riders
    BY <1>1, <1>4 DEF ShapeOf
  <2>2. rides[q.rid] = NoRide
    BY <1>1, <1>4 DEF TableInv, NewIdsAreFresh
  <2>3. past[q.rid] = {}
    BY <1>2, <2>2 DEF TableInv, History
  <2>4. pc'[t] = "publish" /\ req'[t] = q
    BY <1>4 DEF SaveRide, Goto, AfterSave, TypeOK
  <2> QED BY <1>2, <1>3, <1>4, <2>1, <2>2, <2>3, <2>4 DEF PastDecision
<1>5. CASE q.op = "accept"
  <2>1. PastDecision(t) /\ q.user \in Drivers
    BY <1>1, <1>5 DEF PastDecision, InAccept, ShapeOf
  <2>2. q.row \in past[q.rid] /\ CanAccept(q.row)
    BY <2>1 DEF TableInv, RowsFromPast
  <2>3. pc'[t] = "publish" /\ req'[t] = q
    BY <1>5 DEF SaveRide, Goto, AfterSave, TypeOK
  <2> QED BY <1>2, <1>3, <1>5, <2>1, <2>2, <2>3 DEF PastDecision
<1>6. CASE q.op \in {"start", "complete", "cancel"}
  <2>1. q.row \in past[q.rid] /\ GuardPassed(q)
    BY <1>6 DEF TableInv, RowsFromPast
  <2>2. \/ pc'[t] = "idle" /\ req'[t] = NoRequest
        \/ pc'[t] \in {"publish", "mark_pg"} /\ req'[t] = q
    BY <1>6 DEF SaveRide, Goto, AfterSave, TypeOK
  <2>3. q.op # "accept"
    BY <1>6
  <2> HIDE DEF q
  <2>4. \/ pc'[t] = "idle" /\ req'[t] = NoRequest
        \/ pc'[t] \in {"publish", "mark_pg"} /\ req'[t] = q /\ ~PastDecision(t)'
    BY <2>2, <2>3 DEF PastDecision, InAccept
  <2> QED BY <1>2, <1>3, <1>6, <2>1, <2>4 DEF GuardPassed, q
<1> QED BY <1>2, <1>4, <1>5, <1>6

\* No row of the history is ever lost.
LEMMA PastGrows ==
  ASSUME TypeOK, Shapes, TableInv, NEW t \in Threads,
         Arrive(t) \/ Step(t) \/ Fail(t)
  PROVE  \A r \in RideIds : past[r] \subseteq past'[r]
<1>1. CASE SaveRide(t)
  BY <1>1, SaveRideEffect DEF TypeOK
<1>2. CASE ~SaveRide(t)
  BY <1>2, ArriveLocals, StepLocals
<1> QED BY <1>1, <1>2

LEMMA NextHistory ==
  ASSUME TypeOK, Shapes, TableInv, NEW t \in Threads,
         Arrive(t) \/ Step(t) \/ Fail(t)
  PROVE  History'
<1>1. CASE SaveRide(t)
  <2> DEFINE q == req[t]
             row == RowToSave(q)
  <2>1. /\ q.rid \in RideIds /\ row \in Ride
        /\ rides' = [rides EXCEPT ![q.rid] = row]
        /\ past' = [past EXCEPT ![q.rid] = @ \cup {row}]
    BY <1>1, SaveRideEffect
  <2>2. row # NoRide
    BY <2>1 DEF Ride, RideStatus, NoRide
  <2> HIDE DEF row
  <2> QED BY <2>1, <2>2 DEF History, TableInv, TypeOK
<1>2. CASE ~SaveRide(t)
  <2>1. UNCHANGED <<rides, past>>
    BY <1>2, ArriveLocals, StepLocals
  <2> QED BY <2>1 DEF History, TableInv
<1> QED BY <1>1, <1>2

LEMMA NextRowsFromPast ==
  ASSUME TypeOK, Shapes, TypeOK', Shapes', TableInv, NEW t \in Threads,
         Arrive(t) \/ Step(t) \/ Fail(t)
  PROVE  RowsFromPast'
<1> DEFINE Good(s) ==
      /\ req[s].op \in {"start", "complete", "cancel"}
           => req[s].row \in past[req[s].rid] /\ GuardPassed(req[s])
      /\ PastDecision(s) => req[s].row \in past[req[s].rid] /\ CanAccept(req[s].row)
<1>0. OthersStay(t) /\ \A r \in RideIds : past[r] \subseteq past'[r]
  BY OneThreadAtATime, PastGrows
<1>h. Good(t) /\ History
  BY DEF TableInv, RowsFromPast
<1>r. \A s \in Threads : /\ req[s].op \in {"start", "complete", "cancel"} => req[s].rid \in RideIds
                         /\ PastDecision(s) => req[s].rid \in RideIds
  BY DEF Shapes, ShapeOf, PastDecision, InAccept
<1>1. ASSUME NEW s \in Threads \ {t} PROVE Good(s)'
  <2>1. pc'[s] = pc[s] /\ req'[s] = req[s]
    BY <1>0 DEF OthersStay
  <2>2. Good(s)
    BY DEF TableInv, RowsFromPast
  <2> QED BY <1>0, <1>r, <2>1, <2>2 DEF PastDecision, InAccept
<1>2. Good(t)'
  <2>0. CASE req'[t] = NoRequest
    BY <2>0 DEF NoRequest, PastDecision, InAccept
  <2>1. CASE Arrive(t)
    <3>1. CASE UNCHANGED <<pc, req>>
      BY <1>h, <2>1, <3>1, ArriveLocals DEF PastDecision, InAccept
    <3>2. CASE req'[t].op \in {"request", "accept", "online", "offline", "rate"}
               /\ (req'[t].op = "accept" => pc'[t] = "lock")
      BY <3>2 DEF PastDecision, InAccept
    <3>3. CASE /\ req'[t].op \in {"start", "complete", "cancel"}
               /\ req'[t].row = rides[req'[t].rid]
               /\ req'[t].row # NoRide
               /\ GuardPassed(req'[t])
      <4>1. req'[t].rid \in RideIds
        BY <3>3 DEF Shapes, ShapeOf
      <4>2. req'[t].row \in past[req'[t].rid]
        BY <1>h, <3>3, <4>1 DEF History
      <4> QED BY <1>0, <3>3, <4>1, <4>2 DEF PastDecision, InAccept
    <3> QED BY <2>1, <3>1, <3>2, <3>3, ArriveLocals
  <2>2. CASE SaveRide(t) /\ req'[t] # NoRequest
    <3>1. req'[t] = req[t] /\ ~PastDecision(t)'
      BY <2>2, SaveRideEffect
    <3> QED BY <1>0, <1>h, <1>r, <3>1
  <2>3. CASE (Step(t) \/ Fail(t)) /\ ~SaveRide(t) /\ req'[t] # NoRequest
    <3>1. CASE /\ req[t].op = "accept" /\ pc[t] = "ride" /\ pc'[t] = "driver"
               /\ CanAccept(rides[req[t].rid])
               /\ req'[t].op = "accept" /\ req'[t].user = req[t].user
               /\ req'[t].rid = req[t].rid /\ req'[t].row = rides[req[t].rid]
      <4>1. req[t].rid \in RideIds
        BY <3>1 DEF Shapes, ShapeOf
      <4>2. rides[req[t].rid] # NoRide
        BY <3>1 DEF CanAccept, NoRide
      <4>3. req'[t].row \in past[req'[t].rid]
        BY <1>h, <3>1, <4>1, <4>2 DEF History
      <4> QED BY <1>0, <3>1, <4>1, <4>3 DEF PastDecision
    <3>2. CASE /\ req'[t].op = req[t].op /\ req'[t].user = req[t].user
               /\ req'[t].rid = req[t].rid /\ req'[t].row = req[t].row
               /\ PastDecision(t)' => PastDecision(t)
      BY <1>0, <1>h, <1>r, <3>2 DEF GuardPassed
    <3> QED BY <2>3, <3>1, <3>2, StepLocals
  <2> QED BY <2>0, <2>1, <2>2, <2>3
<1> QED BY <1>1, <1>2 DEF RowsFromPast

LEMMA NextNewIds ==
  ASSUME TypeOK, Shapes, TypeOK', Shapes', TableInv, NEW t \in Threads,
         Arrive(t) \/ Step(t) \/ Fail(t)
  PROVE  NewIdsAreFresh'
<1> DEFINE Saving(s) == req[s].op = "request" /\ pc[s] = "save"
<1> SUFFICES ASSUME NEW s \in Threads, Saving(s)'
             PROVE  /\ rides'[req'[s].rid] = NoRide
                    /\ \A u \in Threads \ {s} :
                         req'[u].op = "request" => req'[u].rid # req'[s].rid
  BY DEF NewIdsAreFresh
<1>0. OthersStay(t)
  BY OneThreadAtATime
<1>1. CASE Arrive(t)
  <2>1. UNCHANGED rides /\ pc[t] = "idle" /\ req[t].op = "none"
    BY <1>1, ArriveLocals, IdleShape DEF Shapes
  <2>2. CASE s = t
    <3>1. req'[t].op = "request" /\ Fresh(req'[t].rid)
      BY <1>1, <2>1, <2>2, ArriveLocals
    <3> QED BY <1>0, <2>1, <2>2, <3>1 DEF Fresh, OthersStay
  <2>3. CASE s # t
    <3>1. Saving(s) /\ req'[s] = req[s]
      BY <1>0, <2>3 DEF OthersStay
    <3>2. rides'[req'[s].rid] = NoRide
      BY <2>1, <3>1 DEF TableInv, NewIdsAreFresh
    <3>3. ASSUME NEW u \in Threads \ {s}, req'[u].op = "request"
          PROVE  req'[u].rid # req'[s].rid
      <4>1. CASE u # t
        BY <1>0, <3>1, <3>3, <4>1 DEF OthersStay, TableInv, NewIdsAreFresh
      <4>2. CASE u = t
        <5>1. Fresh(req'[t].rid)
          BY <1>1, <2>1, <3>3, <4>2, ArriveLocals
        <5> QED BY <3>1, <4>2, <5>1 DEF Fresh
      <4> QED BY <4>1, <4>2
    <3> QED BY <3>2, <3>3
  <2> QED BY <2>2, <2>3
<1>2. CASE Step(t) \/ Fail(t)
  <2>1. s # t /\ Saving(s) /\ req'[s] = req[s]
    <3>1. s # t
      <4>1. CASE SaveRide(t)
        BY <4>1, SaveRideEffect DEF NoRequest
      <4>2. CASE ~SaveRide(t)
        BY <1>2, <4>2, StepLocals DEF NoRequest
      <4> QED BY <4>1, <4>2
    <3> QED BY <1>0, <3>1 DEF OthersStay
  <2>2. \A u \in Threads : req'[u].op = "request"
                             => req[u].op = "request" /\ req'[u].rid = req[u].rid
    <3>1. req'[t].op = "request" => req[t].op = "request" /\ req'[t].rid = req[t].rid
      <4>1. CASE SaveRide(t)
        BY <4>1, SaveRideEffect DEF NoRequest
      <4>2. CASE ~SaveRide(t)
        BY <1>2, <4>2, StepLocals DEF NoRequest
      <4> QED BY <4>1, <4>2
    <3> QED BY <1>0, <3>1 DEF OthersStay
  <2>3. \A u \in Threads \ {s} : req'[u].op = "request" => req'[u].rid # req'[s].rid
    BY <2>1, <2>2 DEF TableInv, NewIdsAreFresh
  <2>4. rides[req[s].rid] = NoRide
    BY <2>1 DEF TableInv, NewIdsAreFresh
  <2>5. rides'[req'[s].rid] = NoRide
    <3>1. CASE SaveRide(t)
      <4>0. req[s].rid \in RideIds
        BY <2>1 DEF Shapes, ShapeOf
      <4>1. req[t].rid # req[s].rid
        <5>2. past[req[s].rid] = {}
          BY <2>4, <4>0 DEF TableInv, History
        <5>3. CASE req[t].op = "request"
          BY <2>1, <5>3 DEF TableInv, NewIdsAreFresh
        <5>4. CASE req[t].op # "request"
          <6>1. req[t].row \in past[req[t].rid]
            BY <3>1, <5>4, SaveRideEffect
          <6> QED BY <5>2, <6>1
        <5> QED BY <5>3, <5>4
      <4>2. rides' = [rides EXCEPT ![req[t].rid] = RowToSave(req[t])]
        BY <3>1, SaveRideEffect
      <4> QED BY <2>1, <2>4, <4>0, <4>1, <4>2 DEF TypeOK
    <3>2. CASE ~SaveRide(t)
      BY <1>2, <2>1, <2>4, <3>2, StepLocals
    <3> QED BY <3>1, <3>2
  <2> QED BY <2>3, <2>5
<1> QED BY <1>1, <1>2

LEMMA InitTable == Init => TableInv
BY DEF Init, TableInv, History, RowsFromPast, NewIdsAreFresh, PastDecision, InAccept, NoRequest

LEMMA NextTable ==
  TypeOK /\ Shapes /\ TypeOK' /\ Shapes' /\ TableInv /\ [Next]_vars => TableInv'
<1> SUFFICES ASSUME TypeOK, Shapes, TypeOK', Shapes', TableInv, [Next]_vars
             PROVE  TableInv'
  OBVIOUS
<1>1. CASE UNCHANGED vars
  BY <1>1 DEF vars, tables, TableInv, History, RowsFromPast, NewIdsAreFresh,
     PastDecision, InAccept, GuardPassed
<1>2. CASE \E t \in Threads : Arrive(t) \/ Step(t) \/ Fail(t)
  BY <1>2, NextHistory, NextRowsFromPast, NextNewIds DEF TableInv
<1> QED BY <1>1, <1>2 DEF Next, Rest

-----------------------------------------------------------------------------
(* What the accept lock buys, when there is one lock. *)

\* One lock admits one thread.
LEMMA OneAcceptAtATime ==
  ASSUME SingleProcess, LockHeldExactlyInAccept,
         NEW s \in Threads, NEW t \in Threads, InAccept(s), InAccept(t)
  PROVE  s = t
BY DEF SingleProcess, LockHeldExactlyInAccept, HoldsLock

\* The statuses of the rows a save may write.
LEMMA SuccessorStatus ==
  ASSUME NEW ride \in Ride, NEW d
  PROVE  /\ Accepted(ride, d).status = "MATCHED"
         /\ Started(ride).status = "IN_PROGRESS"
         /\ Completed(ride).status = "COMPLETED"
         /\ Cancelled(ride).status = "CANCELLED"
BY DEF Accepted, Started, Completed, Cancelled, Ride

LEMMA NextMatch ==
  ASSUME SingleProcess, TypeOK, Shapes, TypeOK', Shapes', LockHeldExactlyInAccept,
         TableInv, MatchInv, NEW t \in Threads, Arrive(t) \/ Step(t) \/ Fail(t)
  PROVE  MatchInv'
<1>0. OthersStay(t)
  BY OneThreadAtATime
<1>r. ASSUME NEW s \in Threads, PastDecision(s)
      PROVE  /\ req[s].rid \in RideIds /\ req[s].row \in past[req[s].rid]
             /\ NoMatch(past[req[s].rid]) /\ InAccept(s)
  <2>1. req[s].op = "accept" /\ InAccept(s)
    BY <1>r DEF PastDecision, InAccept
  <2>2. req[s].rid \in RideIds
    BY <2>1 DEF Shapes, ShapeOf
  <2> QED BY <1>r, <2>1, <2>2 DEF TableInv, RowsFromPast, MatchInv
<1>1. CASE SaveRide(t)
  <2>1. PICK r \in RideIds, row \in Ride :
          /\ r = req[t].rid /\ row = RowToSave(req[t])
          /\ rides'[r] = row /\ past'[r] = past[r] \cup {row}
          /\ \A x \in RideIds \ {r} : rides'[x] = rides[x] /\ past'[x] = past[x]
    <3>1. /\ req[t].rid \in RideIds /\ RowToSave(req[t]) \in Ride
          /\ rides' = [rides EXCEPT ![req[t].rid] = RowToSave(req[t])]
          /\ past' = [past EXCEPT ![req[t].rid] = @ \cup {RowToSave(req[t])}]
      BY <1>1, SaveRideEffect
    <3> QED BY <3>1 DEF TypeOK
  <2>2. ASSUME NEW s \in Threads, PastDecision(s)'
        PROVE  s # t /\ PastDecision(s) /\ req'[s] = req[s]
    <3>1. s # t
      BY <1>1, <2>2, SaveRideEffect DEF PastDecision, InAccept, NoRequest
    <3> QED BY <1>0, <2>2, <3>1 DEF OthersStay, PastDecision, InAccept
  <2>3. Disciplined(past[r], rides[r])
    BY DEF MatchInv
  <2>4. past[r] \subseteq Ride
    BY DEF TypeOK
  <2>5. /\ Disciplined(past[r] \cup {row}, row)
        /\ \A s \in Threads : s # t /\ PastDecision(s) /\ req[s].rid = r
              => NoMatch(past[r] \cup {row})
    <3>1. CASE req[t].op = "request"
      <4>1. past[req[t].rid] = {} /\ RowToSave(req[t]) = NewRide(req[t].user)
        BY <1>1, <3>1, SaveRideEffect
      <4>2. past[r] = {} /\ row.status = "REQUESTED"
        BY <2>1, <4>1 DEF NewRide
      <4>3. \A s \in Threads : PastDecision(s) => req[s].rid # r
        BY <1>r, <4>2
      <4> QED BY <4>2, <4>3 DEF Disciplined, NoMatch
    <3>2. CASE req[t].op = "accept"
      <4>1. PastDecision(t) /\ req[t].row \in past[r]
            /\ row = Accepted(req[t].row, req[t].user)
        BY <1>1, <2>1, <3>2, SaveRideEffect
      <4>2. NoMatch(past[r]) /\ row.status = "MATCHED"
        BY <1>r, <2>1, <2>4, <4>1, SuccessorStatus
      <4>3. \A s \in Threads : PastDecision(s) => s = t
        BY <1>r, <4>1, OneAcceptAtATime
      <4> QED BY <4>2, <4>3 DEF Disciplined, NoMatch
    <3>3. CASE req[t].op = "start"
      <4>1. req[t].row \in past[r] /\ CanStart(req[t].row, req[t].user)
            /\ row = Started(req[t].row)
        BY <1>1, <2>1, <3>3, SaveRideEffect
      <4>2. ~NoMatch(past[r]) /\ row.status = "IN_PROGRESS"
        BY <2>4, <4>1, SuccessorStatus DEF NoMatch, CanStart
      <4> QED BY <1>r, <2>3, <4>2 DEF Disciplined, NoMatch
    <3>4. CASE req[t].op = "complete"
      <4>1. req[t].row \in past[r] /\ CanComplete(req[t].row, req[t].user)
            /\ row = Completed(req[t].row)
        BY <1>1, <2>1, <3>4, SaveRideEffect
      <4>2. ~NoMatch(past[r]) /\ row.status = "COMPLETED"
        BY <2>3, <2>4, <4>1, SuccessorStatus DEF Disciplined, CanComplete
      <4> QED BY <1>r, <2>3, <4>2 DEF Disciplined, NoMatch
    <3>5. CASE req[t].op = "cancel"
      <4>1. req[t].row \in past[r] /\ row = Cancelled(req[t].row)
        BY <1>1, <2>1, <3>5, SaveRideEffect
      <4>2. row.status = "CANCELLED"
        BY <2>4, <4>1, SuccessorStatus
      <4> QED BY <1>r, <2>3, <4>2 DEF Disciplined, NoMatch
    <3> QED BY <1>1, <3>1, <3>2, <3>3, <3>4, <3>5, SaveRideEffect
  <2>6. \A x \in RideIds : Disciplined(past'[x], rides'[x])
    BY <2>1, <2>5 DEF MatchInv
  <2>7. ASSUME NEW s \in Threads, PastDecision(s)' PROVE NoMatch(past'[req'[s].rid])
    <3>1. s # t /\ PastDecision(s) /\ req'[s] = req[s]
      BY <2>2, <2>7
    <3>2. req[s].rid \in RideIds /\ NoMatch(past[req[s].rid])
      BY <1>r, <3>1
    <3> QED BY <2>1, <2>5, <3>1, <3>2
  <2> QED BY <2>6, <2>7 DEF MatchInv
<1>2. CASE ~SaveRide(t)
  <2>1. UNCHANGED <<rides, past>>
    BY <1>2, ArriveLocals, StepLocals
  <2>2. ASSUME NEW s \in Threads, PastDecision(s)' PROVE NoMatch(past[req'[s].rid])
    <3>1. CASE s # t
      <4>1. PastDecision(s) /\ req'[s] = req[s]
        BY <1>0, <2>2, <3>1 DEF OthersStay, PastDecision, InAccept
      <4> QED BY <1>r, <4>1
    <3>2. CASE s = t /\ Arrive(t)
      <4>1. UNCHANGED <<pc, req>>
        BY <2>2, <3>2, ArriveLocals DEF PastDecision, InAccept
      <4>2. PastDecision(s)
        BY <2>2, <4>1 DEF PastDecision, InAccept
      <4> QED BY <1>r, <4>1, <4>2
    <3>3. CASE s = t /\ (Step(t) \/ Fail(t))
      <4>1. CASE CanAccept(rides[req[t].rid]) /\ req[t].op = "accept"
                 /\ req'[t].rid = req[t].rid
        <5>1. req[t].rid \in RideIds
          BY <4>1 DEF Shapes, ShapeOf
        <5> QED BY <3>3, <4>1, <5>1 DEF MatchInv, Disciplined, CanAccept
      <4>2. CASE PastDecision(t) /\ req'[t].rid = req[t].rid
        BY <1>r, <3>3, <4>2
      <4>3. req'[t] # NoRequest
        BY <2>2, <3>3 DEF PastDecision, InAccept, NoRequest
      <4> QED BY <1>2, <2>2, <3>3, <4>1, <4>2, <4>3, StepLocals
    <3> QED BY <1>1, <1>2, <3>1, <3>2, <3>3
  <2> QED BY <2>1, <2>2 DEF MatchInv
<1> QED BY <1>1, <1>2

LEMMA InitMatch == Init => MatchInv
BY DEF Init, MatchInv, Disciplined, NoMatch, NoRide, PastDecision, InAccept, NoRequest

\* The four invariants together, inductive when the server is one process.
Together == TypeOK /\ Shapes /\ LockHeldExactlyInAccept /\ TableInv /\ MatchInv

LEMMA TogetherCorrect ==
  ASSUME SingleProcess
  PROVE  Spec => []Together
<1>1. Init => Together
  BY InitTypes, InitLock, InitTable, InitMatch DEF Together
<1>2. Together /\ [Next]_vars => Together'
  <2> SUFFICES ASSUME Together, [Next]_vars PROVE Together'
    OBVIOUS
  <2>1. TypeOK' /\ Shapes'
    BY NextTypes DEF Together
  <2>2. LockHeldExactlyInAccept'
    BY <2>1, BoxNextLock DEF Together
  <2>3. TableInv'
    BY <2>1, NextTable DEF Together
  <2>4. MatchInv'
    <3>1. CASE UNCHANGED vars
      BY <3>1 DEF Together, MatchInv, vars, tables, PastDecision, InAccept
    <3>2. CASE \E t \in Threads : Arrive(t) \/ Step(t) \/ Fail(t)
      BY <2>1, <3>2, NextMatch DEF Together
    <3> QED BY <3>1, <3>2 DEF Next, Rest
  <2> QED BY <2>1, <2>2, <2>3, <2>4 DEF Together
<1> QED BY <1>1, <1>2, PTL DEF Spec

\* In a server of one process, however many threads overlap, a ride is matched
\* once: the accept lock is enough although no row is written conditionally.
THEOREM MatchCorrect ==
  ASSUME SingleProcess
  PROVE  Spec => []MatchedOnce
<1>1. Together => MatchedOnce
  BY DEF Together, MatchInv, Disciplined, MatchedOnce
<1> QED BY <1>1, TogetherCorrect, PTL

\* In a server of one process, an accept that is past its status check
\* overwrites a row that is still REQUESTED or has been cancelled meanwhile.
THEOREM AcceptCorrect ==
  ASSUME SingleProcess
  PROVE  Spec => []AcceptOverwritesOnlyCancel
<1>1. ASSUME Together PROVE AcceptOverwritesOnlyCancel
  <2> SUFFICES ASSUME NEW t \in Threads, PastDecision(t)
               PROVE  rides[req[t].rid].status \in {"REQUESTED", "CANCELLED"}
    BY DEF AcceptOverwritesOnlyCancel, PastDecision
  <2>1. PICK r \in RideIds : r = req[t].rid
    BY <1>1 DEF Together, Shapes, ShapeOf, PastDecision, InAccept
  <2>2. req[t].row \in past[r] /\ NoMatch(past[r])
    BY <1>1, <2>1 DEF Together, TableInv, RowsFromPast, MatchInv
  <2>3. rides[r] \in past[r]
    BY <1>1, <2>2 DEF Together, TableInv, History
  <2> QED BY <1>1, <2>1, <2>2, <2>3 DEF Together, MatchInv, Disciplined
<1> QED BY <1>1, TogetherCorrect, PTL

-----------------------------------------------------------------------------
(* What a driver's availability is spent on. *)

LEMMA InitCredit == Init => CreditInv
BY DEF Init, CreditInv, RatersHaveRated, Covered, NoRequest

\* Ratings are never removed.
LEMMA RatedGrows ==
  ASSUME NEW t \in Threads, Arrive(t) \/ Step(t) \/ Fail(t)
  PROVE  rated \subseteq rated'
BY DEF Arrive, BeginRequest, BeginAccept, BeginStart, BeginComplete, BeginCancel,
   BeginOnline, BeginOffline, UpdateLocation, BeginRate, Begin, Step, AcquireLock,
   AcceptReadRide, AcceptReadDriver, SaveRide, MarkPg, MarkRedis, Publish, SaveRating,
   RateReadDriver, Fail, events

\* A request to rate goes on to the driver's row only after its insert.
LEMMA NextRaters ==
  ASSUME TypeOK, Shapes, TableInv, RatersHaveRated, NEW t \in Threads,
         Arrive(t) \/ Step(t) \/ Fail(t)
  PROVE  RatersHaveRated'
<1> SUFFICES ASSUME NEW s \in Threads, req'[s].op = "rate", pc'[s] # "rating"
             PROVE  rated' # {}
  BY DEF RatersHaveRated
<1>0. OthersStay(t) /\ rated \subseteq rated'
  BY OneThreadAtATime, RatedGrows
<1>1. ASSUME req[s].op = "rate", pc[s] # "rating" PROVE rated' # {}
  BY <1>0, <1>1 DEF RatersHaveRated
<1>2. CASE s # t
  BY <1>0, <1>1, <1>2 DEF OthersStay
<1>3. CASE s = t /\ Arrive(t)
  BY <1>1, <1>3, ArriveLocals
<1>4. CASE s = t /\ SaveRide(t)
  BY <1>1, <1>4, SaveRideEffect DEF NoRequest
<1>5. CASE s = t /\ SaveRating(t)
  <2>1. CASE <<req[t].rid, req[t].user>> \in rated
    BY <1>0, <2>1
  <2>2. CASE <<req[t].rid, req[t].user>> \notin rated
    BY <1>5, <2>2 DEF SaveRating
  <2> QED BY <2>1, <2>2
<1>6. CASE s = t /\ (Step(t) \/ Fail(t)) /\ ~SaveRide(t) /\ ~SaveRating(t)
  <2>1. req[t].op = "rate"
    BY <1>6, StepLocals DEF NoRequest
  <2>2. CASE pc[t] = "rating"
    <3>1. Fail(t)
      BY <1>6, <2>2 DEF Step, AcquireLock, AcceptReadRide, AcceptReadDriver, MarkPg,
         MarkRedis, Publish, RateReadDriver, SaveRide
    <3> QED BY <1>6, <3>1 DEF Fail, Goto, TypeOK, NoRequest
  <2> QED BY <1>1, <1>6, <2>1, <2>2
<1> QED BY <1>2, <1>3, <1>4, <1>5, <1>6

\* A step that leaves the driver rows alone keeps the credits covered, unless it
\* is an accept that has found its driver available.
LEMMA CreditKept ==
  ASSUME TypeOK, Shapes, Covered, NEW t \in Threads, OthersStay(t),
         UNCHANGED <<available, credit>>,
         req'[t].op = "accept" /\ pc'[t] = "mark_pg"
           => /\ req'[t].user \in Drivers
              /\ req'[t].user \in available
  PROVE  Covered'
BY DEF Covered, OthersStay

LEMMA NextCovered ==
  ASSUME SingleProcess, TypeOK, Shapes, LockHeldExactlyInAccept, CreditInv, rated' = {},
         NEW t \in Threads, Arrive(t) \/ Step(t) \/ Fail(t)
  PROVE  Covered'
<1> DEFINE q == req[t]
<1>a. OthersStay(t)
  BY OneThreadAtATime
<1>b. ShapeOf(pc[t], q) /\ q \in Request
  BY DEF Shapes, TypeOK
<1>d. Covered /\ (q.op = "rate" => pc[t] = "rating")
  BY RatedGrows DEF CreditInv, RatersHaveRated
<1>c. ASSUME NEW step, Goto(t, step), step # "mark_pg" PROVE pc'[t] # "mark_pg"
  BY <1>c DEF Goto, TypeOK
<1>1. CASE MarkPg(t)
  <2>1. PICK d \in Drivers : d = Target(q)
    BY <1>1, <1>b DEF MarkPg, ShapeOf
  <2>2. q.op \in {"accept", "complete", "cancel", "online", "offline"}
        /\ (q.op \in {"accept", "offline"} => ~q.flag)
    BY <1>1, <1>b, <1>d DEF MarkPg, ShapeOf, StepOf
  <2>3. /\ credit'[d] = credit[d] + Credited(q.op)
        /\ \A e \in Drivers \ {d} : credit'[e] = credit[e]
        /\ available' = IF q.flag THEN available \cup {d} ELSE available \ {d}
    BY <1>1, <2>1 DEF MarkPg, TypeOK
  <2>4. pc'[t] # "mark_pg"
    BY <1>1, <1>c DEF MarkPg
  <2>5. /\ credit[d] \in Int /\ credit[d] >= 0
        /\ q.op = "accept" => credit[d] >= 1
    BY <1>1, <1>d, <2>1 DEF Covered, TypeOK, Target, MarkPg
  <2>6. credit'[d] >= 0 /\ (d \in available' => credit'[d] >= 1)
    BY <2>2, <2>3, <2>5 DEF Credited
  <2>7. ASSUME NEW s \in Threads, req'[s].op = "accept", pc'[s] = "mark_pg"
        PROVE  credit'[req'[s].user] >= 1
    <3>1. s # t /\ req'[s] = req[s] /\ pc'[s] = pc[s]
      BY <1>a, <2>4, <2>7 DEF OthersStay
    <3>2. credit[req[s].user] >= 1 /\ req[s].user \in Drivers
      BY <1>d, <2>7, <3>1 DEF Covered, Shapes, ShapeOf
    <3>3. q.op # "accept"
      BY <1>1, <2>7, <3>1, OneAcceptAtATime DEF InAccept, MarkPg
    <3>4. Credited(q.op) \in {0, 1}
      BY <3>3 DEF Credited
    <3> QED BY <2>3, <2>5, <3>1, <3>2, <3>4
  <2> QED BY <1>d, <2>3, <2>6, <2>7 DEF Covered
<1>2. CASE ~MarkPg(t)
  <2>1. UNCHANGED <<available, credit>>
    BY <1>2 DEF Arrive, BeginRequest, BeginAccept, BeginStart, BeginComplete, BeginCancel,
       BeginOnline, BeginOffline, UpdateLocation, BeginRate, Step, AcquireLock,
       AcceptReadRide, AcceptReadDriver, SaveRide, MarkRedis, Publish, SaveRating,
       RateReadDriver, Fail, presence
  <2>2. ASSUME req'[t].op = "accept", pc'[t] = "mark_pg"
        PROVE  req'[t].user \in Drivers /\ req'[t].user \in available
    <3>1. CASE Arrive(t)
      BY <1>b, <2>2, <3>1, ArriveLocals DEF ShapeOf, StepOf
    <3>2. CASE AcceptReadDriver(t)
      <4>1. CASE RefuseAccept(t)
        BY <1>c, <2>2, <4>1 DEF RefuseAccept
      <4>2. CASE ~RefuseAccept(t)
        BY <1>b, <3>2, <4>2 DEF AcceptReadDriver, IsAvailable, Goto, ShapeOf, TypeOK
      <4> QED BY <4>1, <4>2
    <3>3. CASE Fail(t)
      BY <1>c, <2>2, <3>3 DEF Fail
    <3>4. CASE SaveRide(t)
      <4>1. q.op = "complete"
        BY <1>b, <1>c, <2>2, <3>4 DEF SaveRide, AfterSave, ShapeOf, StepOf
      <4> QED BY <2>2, <3>4, <4>1 DEF SaveRide, Goto, AfterSave, TypeOK
    <3>5. CASE AcquireLock(t) \/ Publish(t)
      BY <1>c, <2>2, <3>5 DEF AcquireLock, Publish
    <3>6. CASE AcceptReadRide(t)
      BY <1>c, <2>2, <3>6 DEF AcceptReadRide, RefuseAccept, TypeOK
    <3>7. CASE MarkRedis(t)
      BY <1>b, <1>c, <2>2, <3>7 DEF MarkRedis, AfterMark, ShapeOf, StepOf
    <3>8. CASE SaveRating(t)
      BY <1>c, <2>2, <3>8 DEF SaveRating
    <3>9. CASE RateReadDriver(t)
      BY <1>d, <3>9 DEF RateReadDriver
    <3> QED BY <1>2, <3>1, <3>2, <3>3, <3>4, <3>5, <3>6, <3>7, <3>8, <3>9 DEF Step
  <2> QED BY <1>a, <1>d, <2>1, <2>2, CreditKept
<1> QED BY <1>1, <1>2

\* In a server of one process, until a ride is rated, no two accepts spend the
\* same availability of a driver, though each reads the column in one call and
\* clears it in another.
THEOREM CreditCorrect ==
  ASSUME SingleProcess
  PROVE  Spec => []AvailabilitySpentOnce
<1>1. Together /\ CreditInv /\ [Next]_vars => CreditInv'
  <2> SUFFICES ASSUME Together, CreditInv, [Next]_vars PROVE CreditInv'
    OBVIOUS
  <2>1. CASE UNCHANGED vars
    BY <2>1 DEF CreditInv, RatersHaveRated, Covered, vars, presence, events
  <2>2. CASE \E t \in Threads : Arrive(t) \/ Step(t) \/ Fail(t)
    BY <2>2, NextRaters, NextCovered DEF Together, CreditInv
  <2> QED BY <2>1, <2>2 DEF Next, Rest
<1>2. CreditInv => AvailabilitySpentOnce
  BY DEF CreditInv, Covered, AvailabilitySpentOnce
<1> QED BY <1>1, <1>2, InitCredit, TogetherCorrect, PTL DEF Spec

-----------------------------------------------------------------------------
(* Events follow the rows they announce. *)

Had(rows, status) == \E row \in rows : row.status = status

\* The status an operation gives the ride, and its event announces.
Announced == [request |-> "REQUESTED", accept |-> "MATCHED",
              complete |-> "COMPLETED", cancel |-> "CANCELLED"]

(* A request that has its save behind it, and its event before it. *)
Saved(t) ==
  \/ pc[t] = "publish"
  \/ req[t].op = "complete" /\ pc[t] \in {"mark_pg", "mark_redis"}

SavedAreStored ==
  \A t \in Threads : Saved(t) => Had(past[req[t].rid], Announced[req[t].op])

EventsInv == EventsFollowRows /\ SavedAreStored

\* Only the save of the ride's row puts a request between its save and its event.
LEMMA SavedBySave ==
  ASSUME TypeOK, Shapes, NEW t \in Threads, Arrive(t) \/ Step(t) \/ Fail(t),
         ~SaveRide(t), Saved(t)'
  PROVE  Saved(t) /\ req'[t].op = req[t].op /\ req'[t].rid = req[t].rid
<1> DEFINE q == req[t]
<1>a. ShapeOf(pc[t], q)
  BY DEF Shapes
<1>b. ASSUME NEW step, Goto(t, step)
      PROVE  pc'[t] = step /\ (step # "idle" => req'[t] = q)
  BY <1>b DEF Goto, TypeOK
<1>c. ASSUME Goto(t, "idle") PROVE FALSE
  BY <1>c DEF Goto, TypeOK, Saved, NoRequest
<1>1. CASE Arrive(t)
  <2>1. ASSUME NEW op, NEW user, NEW rid, NEW row, NEW flag, NEW step,
               Begin(t, op, user, rid, row, flag, step)
        PROVE  pc'[t] = step /\ req'[t].op = op
    BY <2>1 DEF Begin, TypeOK
  <2>2. CASE UpdateLocation(t)
    BY <2>2 DEF UpdateLocation, Saved
  <2>3. CASE BeginRequest(t) \/ BeginStart(t) \/ BeginComplete(t)
    <3>1. pc'[t] = "save"
      BY <2>1, <2>3 DEF BeginRequest, BeginStart, BeginComplete
    <3> QED BY <3>1 DEF Saved
  <2>4. CASE BeginAccept(t)
    <3>1. pc'[t] = "lock"
      BY <2>1, <2>4 DEF BeginAccept
    <3> QED BY <3>1 DEF Saved
  <2>5. CASE BeginCancel(t)
    <3>1. PICK u \in Users, r \in RideIds :
             Begin(t, "cancel", u, r, rides[r], TRUE, CancelFirst(rides[r]))
      BY <2>5 DEF BeginCancel
    <3>2. pc'[t] = CancelFirst(rides[r]) /\ req'[t].op = "cancel"
      BY <2>1, <3>1
    <3> QED BY <3>2 DEF CancelFirst, Saved
  <2>6. CASE BeginOnline(t) \/ BeginOffline(t)
    <3>1. pc'[t] = "mark_pg" /\ req'[t].op \in {"online", "offline"}
      BY <2>1, <2>6 DEF BeginOnline, BeginOffline
    <3> QED BY <3>1 DEF Saved
  <2>7. CASE BeginRate(t)
    <3>1. pc'[t] = "rating"
      BY <2>1, <2>7 DEF BeginRate
    <3> QED BY <3>1 DEF Saved
  <2> QED BY <1>1, <2>2, <2>3, <2>4, <2>5, <2>6, <2>7 DEF Arrive
<1>2. CASE AcquireLock(t)
  BY <1>2, <1>b DEF AcquireLock, Saved
<1>3. CASE AcceptReadRide(t)
  BY <1>3, <1>c DEF AcceptReadRide, RefuseAccept, TypeOK, Saved
<1>4. CASE AcceptReadDriver(t)
  BY <1>4, <1>b, <1>c DEF AcceptReadDriver, RefuseAccept, Saved
<1>5. CASE MarkPg(t)
  BY <1>5, <1>b DEF MarkPg, Saved
<1>6. CASE MarkRedis(t)
  <2>1. q.op \in {"accept", "complete", "cancel", "online", "offline", "rate"}
    BY <1>6, <1>a DEF MarkRedis, ShapeOf, StepOf
  <2>2. pc'[t] = AfterMark[q.op] /\ AfterMark[q.op] # "idle" /\ req'[t] = q
    BY <1>6, <1>b, <1>c, <2>1 DEF MarkRedis
  <2>3. q.op = "complete"
    BY <2>1, <2>2 DEF Saved, AfterMark
  <2> QED BY <1>6, <2>2, <2>3 DEF MarkRedis, Saved
<1>7. CASE Publish(t)
  BY <1>7, <1>c DEF Publish
<1>8. CASE SaveRating(t)
  BY <1>8, <1>a, <1>b, <1>c DEF SaveRating, Saved, ShapeOf, StepOf
<1>9. CASE RateReadDriver(t)
  <2>1. q.op = "rate" /\ pc'[t] = "mark_pg" /\ req'[t].op = "rate"
    <3>1. req[t] \in Request
      BY DEF TypeOK
    <3> QED BY <1>9, <3>1 DEF RateReadDriver, TypeOK, Request
  <2> QED BY <2>1 DEF Saved
<1>10. CASE Fail(t)
  BY <1>10, <1>c DEF Fail
<1> QED
  BY <1>1, <1>2, <1>3, <1>4, <1>5, <1>6, <1>7, <1>8, <1>9, <1>10 DEF Step

LEMMA NextSaved ==
  ASSUME TypeOK, Shapes, TableInv, SavedAreStored, NEW t \in Threads,
         Arrive(t) \/ Step(t) \/ Fail(t)
  PROVE  SavedAreStored'
<1>0. OthersStay(t) /\ \A r \in RideIds : past[r] \subseteq past'[r]
  BY OneThreadAtATime, PastGrows
<1>r. \A s \in Threads : Saved(s) => req[s].rid \in RideIds
  BY DEF Shapes, ShapeOf, StepOf, Saved
<1>1. ASSUME NEW s \in Threads, Saved(s), req'[s].op = req[s].op, req'[s].rid = req[s].rid
      PROVE  Had(past'[req'[s].rid], Announced[req'[s].op])
  BY <1>0, <1>r, <1>1 DEF SavedAreStored, Had
<1>2. ASSUME NEW s \in Threads, Saved(s)'
      PROVE  Had(past'[req'[s].rid], Announced[req'[s].op])
  <2>1. CASE s # t
    <3>1. Saved(s) /\ req'[s] = req[s]
      BY <1>0, <1>2, <2>1 DEF OthersStay, Saved
    <3> QED BY <1>1, <3>1
  <2>2. CASE s = t /\ ~SaveRide(t)
    BY <1>1, <1>2, <2>2, SavedBySave
  <2>3. CASE s = t /\ SaveRide(t)
    <3> DEFINE q == req[t]
               row == RowToSave(q)
    <3>1. /\ q.rid \in RideIds /\ q.op \in {"request", "accept", "start", "complete", "cancel"}
          /\ past' = [past EXCEPT ![q.rid] = @ \cup {row}]
      BY <2>3, SaveRideEffect
    <3>2. req'[t] = q /\ q.op # "start"
      BY <1>2, <2>3, <3>1 DEF SaveRide, Goto, AfterSave, TypeOK, Saved, NoRequest
    <3>3. row.status = Announced[q.op]
      <4>1. q.op # "request" => q.row \in Ride
        BY <2>3, <3>1 DEF SaveRide, Shapes, ShapeOf
      <4>2. /\ \A d : Accepted(q.row, d).status = "MATCHED"
            /\ Completed(q.row).status = "COMPLETED"
            /\ Cancelled(q.row).status = "CANCELLED"
            \/ q.op = "request"
        BY <4>1 DEF Accepted, Completed, Cancelled, Ride
      <4> QED BY <3>1, <3>2, <4>2 DEF RowToSave, NewRide, Announced
    <3>4. row \in past'[q.rid]
      BY <3>1 DEF TypeOK
    <3> QED BY <2>3, <3>2, <3>3, <3>4 DEF Had
  <2> QED BY <2>1, <2>2, <2>3
<1> QED BY <1>2 DEF SavedAreStored

\* An event is published by a request that has saved its row.
LEMMA NextEvents ==
  ASSUME TypeOK, Shapes, TableInv, EventsInv, NEW t \in Threads,
         Arrive(t) \/ Step(t) \/ Fail(t)
  PROVE  EventsFollowRows'
<1> DEFINE Topic(status) ==
      CASE status = "REQUESTED" -> "ride-requested"
        [] status = "MATCHED" -> "ride-accepted"
        [] status = "COMPLETED" -> "ride-completed"
        [] status = "CANCELLED" -> "ride-cancelled"
    Statuses == {"REQUESTED", "MATCHED", "COMPLETED", "CANCELLED"}
<1>0. \A r \in RideIds : past[r] \subseteq past'[r]
  BY PastGrows
<1>1. \A r \in RideIds, status \in Statuses :
        Topic(status) \in published[r] => Had(past[r], status)
  BY DEF EventsInv, EventsFollowRows, Had
<1>2. ASSUME NEW r \in RideIds, NEW status \in Statuses, Topic(status) \in published'[r]
      PROVE  Had(past'[r], status)
  <2>1. CASE Topic(status) \in published[r]
    BY <1>0, <1>1, <2>1 DEF Had
  <2>2. CASE Topic(status) \notin published[r]
    <3>1. Publish(t)
      BY <1>2, <2>2 DEF Arrive, BeginRequest, BeginAccept, BeginStart, BeginComplete,
         BeginCancel, BeginOnline, BeginOffline, UpdateLocation, BeginRate, Begin, Step,
         AcquireLock, AcceptReadRide, AcceptReadDriver, SaveRide, MarkPg, MarkRedis,
         SaveRating, RateReadDriver, Fail, events
    <3>2. req[t].rid = r /\ Topic(status) = TopicOf[req[t].op]
      BY <1>2, <2>2, <3>1 DEF Publish, TypeOK
    <3>3. req[t].op \in {"request", "accept", "complete", "cancel"}
      BY <3>1 DEF Publish, Shapes, ShapeOf, StepOf
    <3>4. status = Announced[req[t].op]
      BY <3>2, <3>3 DEF TopicOf, Announced
    <3>5. Had(past[r], status)
      BY <3>1, <3>2, <3>4 DEF EventsInv, SavedAreStored, Saved, Publish
    <3> QED BY <1>0, <3>5 DEF Had
  <2> QED BY <2>1, <2>2
<1>3. \A r \in RideIds :
        /\ "ride-requested" \in published'[r] => Had(past'[r], "REQUESTED")
        /\ "ride-accepted" \in published'[r] => Had(past'[r], "MATCHED")
        /\ "ride-completed" \in published'[r] => Had(past'[r], "COMPLETED")
        /\ "ride-cancelled" \in published'[r] => Had(past'[r], "CANCELLED")
  BY <1>2
<1> QED BY <1>3 DEF EventsFollowRows, Had

\* However requests overlap and die, in however many processes, no event is
\* published before the row it announces has been stored: its handler never
\* looks for a row that is not there yet.
THEOREM EventsCorrect == Spec => []EventsFollowRows
<1> DEFINE Inv == TypeOK /\ Shapes /\ TableInv /\ EventsInv
<1>1. Init => Inv
  <2>1. Init => EventsInv
    BY DEF Init, EventsInv, EventsFollowRows, SavedAreStored, Saved, NoRequest
  <2> QED BY <2>1, InitTypes, InitTable
<1>2. Inv /\ [Next]_vars => Inv'
  <2> SUFFICES ASSUME Inv, [Next]_vars PROVE Inv'
    OBVIOUS
  <2>1. TypeOK' /\ Shapes'
    BY NextTypes
  <2>2. TableInv'
    BY <2>1, NextTable
  <2>3. EventsInv'
    <3>1. CASE UNCHANGED vars
      BY <3>1 DEF EventsInv, EventsFollowRows, SavedAreStored, Saved, vars, tables, events
    <3>2. CASE \E t \in Threads : Arrive(t) \/ Step(t) \/ Fail(t)
      BY <3>2, NextSaved, NextEvents DEF EventsInv
    <3> QED BY <3>1, <3>2 DEF Next, Rest
  <2> QED BY <2>1, <2>2, <2>3
<1>3. Inv => EventsFollowRows
  BY DEF EventsInv
<1> QED BY <1>1, <1>2, <1>3, PTL DEF Spec
=============================================================================

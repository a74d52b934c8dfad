---------------------------- MODULE SerialProofs ----------------------------
(***************************************************************************)
(* What the service keeps when requests follow each other, for any number  *)
(* of riders, drivers, rides and requests: the rules its guards state, and *)
(* the protocol its callers may rely on.                                   *)
(*                                                                         *)
(* The argument: the row a request has read is still the current one when  *)
(* it is written back, and between the two halves of a driver's save only  *)
(* that driver's entry differs.  So the state the protocol is shown        *)
(* (ShownRides, ShownFree) changes by whole operations, and what concerns  *)
(* rides and drivers together is proved of the protocol's steps.           *)
(***************************************************************************)
EXTENDS SerialService, RideServiceProofs, FiniteSetTheorems

-----------------------------------------------------------------------------
(* The inductive invariant, of the only thread t. *)

(* The steps at which a request holds the row it has read and will write.   *)
HoldsRow(t) ==
  \/ req[t].op = "start"
  \/ req[t].op = "complete" /\ pc[t] = "save"
  \/ req[t].op = "cancel" /\ pc[t] \in {"mark_pg", "mark_redis", "save"}
  \/ req[t].op = "accept" /\ pc[t] \in {"driver", "mark_pg", "mark_redis", "save"}

RowIsCurrent(t) ==
  HoldsRow(t) =>
    /\ req[t].row = rides[req[t].rid]
    /\ GuardPassed(req[t])
    /\ req[t].op = "accept" => CanAccept(req[t].row)

RiderIsWithoutRide(t) ==
  req[t].op = "request" /\ pc[t] = "save" =>
    rides[req[t].rid] = NoRide /\ ~HasActiveRide(req[t].user)

FlagIsRight(t) ==
  /\ req[t].op \in {"online", "complete", "cancel"} => req[t].flag
  /\ req[t].op = "rate" /\ pc[t] = "mark_pg" =>
       (req[t].flag <=> Target(req[t]) \in available)

(* Between the two halves of a save only its driver's entry may differ.     *)
MirrorFollows(t) ==
  /\ pc[t] # "mark_redis" => availSet = available
  /\ pc[t] = "mark_redis" =>
       /\ availSet \ {Target(req[t])} = available \ {Target(req[t])}
       /\ req[t].flag <=> Target(req[t]) \in available

DriverIsTaken(t) ==
  req[t].op = "accept" =>
    /\ pc[t] = "mark_pg" => req[t].user \in available
    /\ pc[t] \in {"mark_redis", "save"} => req[t].user \notin available

RequestedHasNoDriver ==
  \A r \in RideIds : rides[r].status = "REQUESTED" => rides[r].driver = None

SerialInv(t) ==
  /\ RowIsCurrent(t) /\ RiderIsWithoutRide(t)
  /\ FlagIsRight(t) /\ MirrorFollows(t) /\ DriverIsTaken(t)
  /\ RequestedHasNoDriver /\ OneActiveRidePerRider

(* Of the protocol's state: who is driven by whom, and who is online.       *)
ShownDrivenBy(d) ==
  {r \in RideIds : /\ ShownRides[r].status \in {"MATCHED", "IN_PROGRESS"}
                   /\ ShownRides[r].driver = d}

ShiftsInv ==
  /\ shifts \in [Drivers -> Nat]
  /\ \A d \in Drivers :
       /\ IsFiniteSet(ShownDrivenBy(d))
       /\ Cardinality(ShownDrivenBy(d)) + (IF d \in ShownFree THEN 1 ELSE 0) <= shifts[d]

OnlineInv(t) ==
  /\ \A d \in geo : \/ d \in ShownFree
                    \/ ShownDrivenBy(d) # {}
                    \/ req[t].op = "online" /\ pc[t] = "mark_pg" /\ req[t].user = d
  /\ req[t].op = "offline" => req[t].user \notin geo

-----------------------------------------------------------------------------
(* What the steps of a request are, seen from its thread. *)

\* A request begins on the current row, with its guard passed.
LEMMA SerialArrive ==
  ASSUME TypeOK, NEW t \in Threads, Arrive(t)
  PROVE  LET n == req'[t] IN
         /\ pc[t] = "idle"
         /\ UNCHANGED <<rides, available, availSet>>
         /\ \/ "location" \in Ops /\ UNCHANGED <<pc, req>>
            \/ /\ n.op = "request" /\ pc'[t] = "save" /\ UNCHANGED geo
               /\ rides[n.rid] = NoRide /\ ~HasActiveRide(n.user)
            \/ n.op = "accept" /\ pc'[t] = "lock" /\ UNCHANGED geo
            \/ /\ n.op \in {"start", "complete"} /\ pc'[t] = "save" /\ UNCHANGED geo
               /\ n.row = rides[n.rid] /\ GuardPassed(n)
               /\ n.flag = (n.op = "complete")
            \/ /\ n.op = "cancel" /\ pc'[t] = CancelFirst(n.row) /\ UNCHANGED geo
               /\ n.row = rides[n.rid] /\ GuardPassed(n) /\ n.flag
            \/ n.op = "online" /\ pc'[t] = "mark_pg" /\ n.flag /\ geo' = geo \cup {n.user}
            \/ n.op = "offline" /\ pc'[t] = "mark_pg" /\ ~n.flag /\ geo' = geo \ {n.user}
            \/ n.op = "rate" /\ pc'[t] = "rating" /\ UNCHANGED geo
<1> DEFINE n == req'[t]
<1>0. pc[t] = "idle" /\ UNCHANGED <<rides, available, availSet>>
  BY DEF Arrive, BeginRequest, BeginAccept, BeginStart, BeginComplete, BeginCancel,
     BeginOnline, BeginOffline, UpdateLocation, BeginRate, Begin, Serve, tables, presence
<1>1. ASSUME NEW op, NEW user, NEW rid, NEW row, NEW flag, NEW step,
             Begin(t, op, user, rid, row, flag, step)
      PROVE  /\ pc'[t] = step
             /\ n.op = op /\ n.user = user /\ n.rid = rid /\ n.row = row /\ n.flag = flag
  BY <1>1 DEF Begin, TypeOK
<1> HIDE DEF n
<1>2. CASE BeginRequest(t)
  <2>1. PICK u \in Riders, r \in RideIds :
           /\ ~HasActiveRide(u) /\ rides[r] = NoRide
           /\ Begin(t, "request", u, r, NoRide, FALSE, "save")
    BY <1>2 DEF BeginRequest, Fresh
  <2>2. pc'[t] = "save" /\ n.op = "request" /\ n.user = u /\ n.rid = r
    BY <1>1, <2>1
  <2> QED BY <1>0, <1>2, <2>1, <2>2 DEF BeginRequest, presence, n
<1>3. CASE BeginAccept(t)
  BY <1>0, <1>1, <1>3 DEF BeginAccept, presence, n
<1>4. CASE BeginStart(t)
  <2>1. PICK d \in Drivers, r \in RideIds :
           CanStart(rides[r], d) /\ Begin(t, "start", d, r, rides[r], FALSE, "save")
    BY <1>4 DEF BeginStart
  <2>2. /\ pc'[t] = "save" /\ n.op = "start" /\ n.user = d /\ n.rid = r
        /\ n.row = rides[r] /\ n.flag = FALSE
    BY <2>1 DEF Begin, TypeOK, n
  <2> QED BY <1>0, <1>4, <2>1, <2>2 DEF BeginStart, presence, GuardPassed, n
<1>5. CASE BeginComplete(t)
  <2>1. PICK d \in Drivers, r \in RideIds :
           CanComplete(rides[r], d) /\ Begin(t, "complete", d, r, rides[r], TRUE, "save")
    BY <1>5 DEF BeginComplete
  <2>2. /\ pc'[t] = "save" /\ n.op = "complete" /\ n.user = d /\ n.rid = r
        /\ n.row = rides[r] /\ n.flag = TRUE
    BY <2>1 DEF Begin, TypeOK, n
  <2> QED BY <1>0, <1>5, <2>1, <2>2 DEF BeginComplete, presence, GuardPassed, n
<1>6. CASE BeginCancel(t)
  <2>1. PICK u \in Users, r \in RideIds :
           /\ CanCancel(rides[r], u)
           /\ Begin(t, "cancel", u, r, rides[r], TRUE, CancelFirst(rides[r]))
    BY <1>6 DEF BeginCancel
  <2>2. /\ pc'[t] = CancelFirst(rides[r]) /\ n.op = "cancel" /\ n.user = u /\ n.rid = r
        /\ n.row = rides[r] /\ n.flag = TRUE
    BY <2>1 DEF Begin, TypeOK, n
  <2> QED BY <1>0, <1>6, <2>1, <2>2 DEF BeginCancel, presence, GuardPassed, n
<1>7. CASE BeginOnline(t)
  BY <1>0, <1>1, <1>7 DEF BeginOnline, n
<1>8. CASE BeginOffline(t)
  BY <1>0, <1>1, <1>8 DEF BeginOffline, n
<1>9. CASE UpdateLocation(t)
  BY <1>0, <1>9 DEF UpdateLocation, Serve
<1>10. CASE BeginRate(t)
  BY <1>0, <1>1, <1>10 DEF BeginRate, presence, n
<1> QED
  BY <1>2, <1>3, <1>4, <1>5, <1>6, <1>7, <1>8, <1>9, <1>10 DEF Arrive

(* The steps that write neither a row nor a driver's availability. *)
Quiet(t) ==
  LET q == req[t]
      n == req'[t] IN
  \/ pc[t] \in {"ride", "driver", "publish", "rating"} /\ pc'[t] = "idle" /\ n = NoRequest
  \/ q.op = "accept" /\ pc[t] = "lock" /\ pc'[t] = "ride" /\ n = q
  \/ /\ q.op = "accept" /\ pc[t] = "ride" /\ pc'[t] = "driver"
     /\ CanAccept(rides[q.rid]) /\ n = [q EXCEPT !.row = rides[q.rid]]
  \/ /\ q.op = "accept" /\ pc[t] = "driver" /\ pc'[t] = "mark_pg"
     /\ q.user \in available /\ n = q
  \/ q.op = "rate" /\ pc[t] = "rating" /\ pc'[t] = "driver" /\ n = q
  \/ /\ q.op = "rate" /\ pc[t] = "driver" /\ pc'[t] = "mark_pg"
     /\ n = [q EXCEPT !.flag = (Target(q) \in available)]

\* Only SaveRide, MarkPg and MarkRedis write what the protocol is about.
LEMMA SerialQuiet ==
  ASSUME TypeOK, Shapes, NEW t \in Threads, Step(t),
         ~SaveRide(t), ~MarkPg(t), ~MarkRedis(t)
  PROVE  Quiet(t) /\ UNCHANGED <<rides, available, availSet, geo>>
<1> DEFINE q == req[t]
<1>a. ShapeOf(pc[t], q) /\ q \in Request
  BY DEF Shapes, TypeOK
<1>c. ASSUME Goto(t, "idle") PROVE pc'[t] = "idle" /\ req'[t] = NoRequest
  BY <1>c DEF Goto, TypeOK
<1>d. ASSUME NEW step, Goto(t, step), step # "idle"
      PROVE  pc'[t] = step /\ req'[t] = q
  BY <1>d DEF Goto, TypeOK
<1>1. CASE AcquireLock(t)
  <2>1. q.op = "accept" /\ pc[t] = "lock"
    BY <1>1, <1>a DEF AcquireLock, ShapeOf, StepOf
  <2>2. pc'[t] = "ride" /\ req'[t] = q
    BY <1>1, <1>d DEF AcquireLock
  <2> QED BY <1>1, <2>1, <2>2 DEF AcquireLock, tables, presence, Quiet
<1>2. CASE AcceptReadRide(t)
  <2>1. q.op = "accept" /\ pc[t] = "ride"
    BY <1>2, <1>a DEF AcceptReadRide, ShapeOf, StepOf
  <2>2. CASE RefuseAccept(t)
    BY <1>2, <1>c, <2>1, <2>2 DEF RefuseAccept, AcceptReadRide, tables, presence, Quiet
  <2>3. CASE ~RefuseAccept(t)
    BY <1>2, <2>1, <2>3 DEF AcceptReadRide, TypeOK, tables, presence, Quiet
  <2> QED BY <2>2, <2>3
<1>3. CASE AcceptReadDriver(t)
  <2>1. CASE RefuseAccept(t)
    BY <1>3, <1>c, <2>1 DEF RefuseAccept, AcceptReadDriver, tables, presence, Quiet
  <2>2. CASE ~RefuseAccept(t)
    <3>1. q.user \in available /\ pc'[t] = "mark_pg" /\ req'[t] = q
      BY <1>3, <1>d, <2>2 DEF AcceptReadDriver, IsAvailable
    <3> QED BY <1>3, <3>1 DEF AcceptReadDriver, tables, presence, Quiet
  <2> QED BY <2>1, <2>2
<1>4. CASE Publish(t)
  BY <1>4, <1>c DEF Publish, tables, presence, Quiet
<1>5. CASE SaveRating(t)
  <2>1. q.op = "rate" /\ pc[t] = "rating"
    BY <1>5, <1>a DEF SaveRating, ShapeOf, StepOf
  <2>2. \/ pc'[t] = "idle" /\ req'[t] = NoRequest
        \/ pc'[t] = "driver" /\ req'[t] = q
    <3>1. Goto(t, "idle") \/ Goto(t, "driver")
      BY <1>5 DEF SaveRating
    <3> QED BY <1>c, <1>d, <3>1
  <2> QED BY <1>5, <2>1, <2>2 DEF SaveRating, tables, presence, Quiet
<1>6. CASE RateReadDriver(t)
  BY <1>6 DEF RateReadDriver, IsAvailable, TypeOK, tables, presence, Quiet
<1> QED BY <1>1, <1>2, <1>3, <1>4, <1>5, <1>6 DEF Step

\* The save of a ride.
LEMMA SerialSave ==
  ASSUME TypeOK, Shapes, NEW t \in Threads, SaveRide(t)
  PROVE  LET q == req[t]
             n == req'[t] IN
         /\ pc[t] = "save" /\ q.rid \in RideIds
         /\ q.op \in {"request", "accept", "start", "complete", "cancel"}
         /\ rides' = [rides EXCEPT ![q.rid] = RowToSave(q)]
         /\ UNCHANGED <<available, availSet, geo>>
         /\ q.op \in {"request", "accept", "cancel"} => pc'[t] = "publish" /\ n = q
         /\ q.op = "complete" => pc'[t] = "mark_pg" /\ n = q
         /\ q.op = "start" => pc'[t] = "idle" /\ n = NoRequest
<1> DEFINE q == req[t]
<1>1. pc[t] = "save" /\ ShapeOf("save", q)
  BY DEF SaveRide, Shapes
<1>2. q.rid \in RideIds /\ q.op \in {"request", "accept", "start", "complete", "cancel"}
  BY <1>1 DEF ShapeOf, StepOf
<1>3. pc' = [pc EXCEPT ![t] = AfterSave[q.op]]
      /\ req' = IF AfterSave[q.op] = "idle" THEN [req EXCEPT ![t] = NoRequest] ELSE req
  BY DEF SaveRide, Goto
<1>4. /\ q.op \in {"request", "accept", "cancel"} => AfterSave[q.op] = "publish"
      /\ q.op = "complete" => AfterSave[q.op] = "mark_pg"
      /\ q.op = "start" => AfterSave[q.op] = "idle"
  BY DEF AfterSave
<1>5. /\ q.op \in {"request", "accept", "cancel"} => pc'[t] = "publish" /\ req'[t] = q
      /\ q.op = "complete" => pc'[t] = "mark_pg" /\ req'[t] = q
      /\ q.op = "start" => pc'[t] = "idle" /\ req'[t] = NoRequest
  BY <1>3, <1>4 DEF TypeOK
<1> QED BY <1>1, <1>2, <1>5 DEF SaveRide, Write, presence

\* The two halves of the save of a driver.
LEMMA SerialMark ==
  ASSUME TypeOK, Shapes, NEW t \in Threads, MarkPg(t) \/ MarkRedis(t)
  PROVE  LET q == req[t]
             n == req'[t]
             d == Target(q) IN
         /\ d \in Drivers
         /\ q.op \in {"accept", "cancel", "complete", "online", "offline", "rate"}
         /\ UNCHANGED <<rides, geo>>
         /\ MarkPg(t) =>
              /\ pc[t] = "mark_pg" /\ pc'[t] = "mark_redis" /\ n = q /\ UNCHANGED availSet
              /\ available' = IF q.flag THEN available \cup {d} ELSE available \ {d}
         /\ MarkRedis(t) =>
              /\ pc[t] = "mark_redis" /\ UNCHANGED available
              /\ availSet' = IF q.flag THEN availSet \cup {d} ELSE availSet \ {d}
              /\ q.op \in {"accept", "cancel"} => pc'[t] = "save" /\ n = q
              /\ q.op = "complete" => pc'[t] = "publish" /\ n = q
              /\ q.op \in {"online", "offline", "rate"} => pc'[t] = "idle" /\ n = NoRequest
<1> DEFINE q == req[t]
<1>1. pc[t] \in {"mark_pg", "mark_redis"} /\ ShapeOf(pc[t], q)
  BY DEF MarkPg, MarkRedis, Shapes
<1>2. Target(q) \in Drivers
      /\ q.op \in {"accept", "cancel", "complete", "online", "offline", "rate"}
  BY <1>1 DEF ShapeOf, StepOf
<1>3. UNCHANGED <<rides, geo>>
  BY DEF MarkPg, MarkRedis, tables
<1>4. ASSUME MarkPg(t)
      PROVE  /\ pc[t] = "mark_pg" /\ pc'[t] = "mark_redis" /\ req'[t] = q
             /\ UNCHANGED availSet
             /\ available' = IF q.flag THEN available \cup {Target(q)}
                                       ELSE available \ {Target(q)}
  BY <1>4 DEF MarkPg, Goto, TypeOK
<1>5. ASSUME MarkRedis(t)
      PROVE  /\ pc[t] = "mark_redis" /\ UNCHANGED available
             /\ availSet' = IF q.flag THEN availSet \cup {Target(q)}
                                      ELSE availSet \ {Target(q)}
             /\ q.op \in {"accept", "cancel"} => pc'[t] = "save" /\ req'[t] = q
             /\ q.op = "complete" => pc'[t] = "publish" /\ req'[t] = q
             /\ q.op \in {"online", "offline", "rate"} => pc'[t] = "idle" /\ req'[t] = NoRequest
  <2>1. /\ q.op \in {"accept", "cancel"} => AfterMark[q.op] = "save"
        /\ q.op = "complete" => AfterMark[q.op] = "publish"
        /\ q.op \in {"online", "offline", "rate"} => AfterMark[q.op] = "idle"
    BY DEF AfterMark
  <2>2. pc' = [pc EXCEPT ![t] = AfterMark[q.op]]
        /\ req' = IF AfterMark[q.op] = "idle" THEN [req EXCEPT ![t] = NoRequest] ELSE req
    BY <1>5 DEF MarkRedis, Goto
  <2>3. /\ q.op \in {"accept", "cancel"} => pc'[t] = "save" /\ req'[t] = q
        /\ q.op = "complete" => pc'[t] = "publish" /\ req'[t] = q
        /\ q.op \in {"online", "offline", "rate"} => pc'[t] = "idle" /\ req'[t] = NoRequest
    BY <2>1, <2>2 DEF TypeOK
  <2> QED BY <1>5, <2>3 DEF MarkRedis
<1> QED BY <1>2, <1>3, <1>4, <1>5

-----------------------------------------------------------------------------
(* The invariant is inductive. *)

\* Rows that are not REQUESTED, MATCHED or IN_PROGRESS afterwards, or belonged to
\* the rider before, cannot give a rider a second active ride.
LEMMA ActiveKept ==
  ASSUME TypeOK, OneActiveRidePerRider, NEW r \in RideIds, NEW row,
         rides' = [rides EXCEPT ![r] = row],
         row.status \in ACTIVE_RIDE_STATUSES =>
           \/ rides[r].status \in ACTIVE_RIDE_STATUSES /\ rides[r].rider = row.rider
           \/ ~HasActiveRide(row.rider)
  PROVE  OneActiveRidePerRider'
<1>1. \A s \in RideIds : rides'[s] = IF s = r THEN row ELSE rides[s]
  BY DEF TypeOK
<1> QED BY <1>1 DEF OneActiveRidePerRider, HasActiveRide

LEMMA NextSerialArrive ==
  ASSUME TypeOK, Shapes, NEW t \in Threads, SerialInv(t), Arrive(t), Shapes'
  PROVE  SerialInv(t)'
<1> DEFINE n == req'[t]
<1>1. /\ pc[t] = "idle"
      /\ UNCHANGED <<rides, available, availSet>>
  BY SerialArrive
<1>2. ShapeOf(pc'[t], n)
  BY DEF Shapes
<1>3. /\ n.op = "none" => pc'[t] = "idle"
      /\ pc'[t] # "mark_redis"
      /\ n.op = "request" => rides[n.rid] = NoRide /\ ~HasActiveRide(n.user)
      /\ n.op = "accept" => pc'[t] = "lock"
      /\ n.op \in {"start", "complete", "cancel"} => n.row = rides[n.rid] /\ GuardPassed(n)
      /\ n.op \in {"online", "complete", "cancel"} => n.flag
      /\ n.op = "rate" => pc'[t] = "rating"
  <2>1. CASE UNCHANGED <<pc, req>>
    BY <1>1, <1>2, <2>1 DEF ShapeOf, StepOf
  <2>2. CASE ~UNCHANGED <<pc, req>>
    BY <1>1, <2>2, SerialArrive DEF CancelFirst
  <2> QED BY <2>1, <2>2
<1> HIDE DEF n
<1>4. RowIsCurrent(t)'
  BY <1>1, <1>3 DEF RowIsCurrent, HoldsRow, n
<1>5. RiderIsWithoutRide(t)'
  BY <1>1, <1>3 DEF RiderIsWithoutRide, HasActiveRide, n
<1>6. FlagIsRight(t)' /\ DriverIsTaken(t)'
  BY <1>3 DEF FlagIsRight, DriverIsTaken, n
<1>7. MirrorFollows(t)'
  BY <1>1, <1>3 DEF SerialInv, MirrorFollows
<1>8. RequestedHasNoDriver' /\ OneActiveRidePerRider'
  BY <1>1 DEF SerialInv, RequestedHasNoDriver, OneActiveRidePerRider
<1> QED BY <1>4, <1>5, <1>6, <1>7, <1>8 DEF SerialInv

\* Reads, refusals and returns.
LEMMA NextSerialQuiet ==
  ASSUME TypeOK, Shapes, NEW t \in Threads, SerialInv(t), Shapes',
         Quiet(t), UNCHANGED <<rides, available, availSet>>
  PROVE  SerialInv(t)'
<1> DEFINE q == req[t]
           n == req'[t]
<1>1. ShapeOf(pc[t], q) /\ q \in Request
  BY DEF Shapes, TypeOK
<1>2. pc[t] # "mark_redis" /\ pc'[t] \notin {"mark_redis", "save"}
  BY DEF Quiet
<1>3. /\ n.op \in {"start", "request", "complete", "cancel", "online", "offline"} => FALSE
      /\ n.op = "accept" =>
           /\ n.user = q.user /\ n.rid = q.rid
           /\ pc'[t] = "ride" \/ (pc'[t] \in {"driver", "mark_pg"} /\ n.row = rides[n.rid]
                                    /\ CanAccept(n.row))
           /\ pc'[t] = "mark_pg" => n.user \in available
      /\ n.op = "rate" /\ pc'[t] = "mark_pg" => (n.flag <=> Target(n) \in available)
  <2>1. CASE n = NoRequest
    BY <2>1 DEF NoRequest
  <2>2. CASE q.op = "accept" /\ pc[t] = "lock" /\ pc'[t] = "ride" /\ n = q
    BY <2>2
  <2>3. CASE /\ q.op = "accept" /\ pc[t] = "ride" /\ pc'[t] = "driver"
             /\ CanAccept(rides[q.rid]) /\ n = [q EXCEPT !.row = rides[q.rid]]
    BY <1>1, <2>3 DEF Request
  <2>4. CASE /\ q.op = "accept" /\ pc[t] = "driver" /\ pc'[t] = "mark_pg"
             /\ q.user \in available /\ n = q
    BY <2>4 DEF SerialInv, RowIsCurrent, HoldsRow
  <2>5. CASE q.op = "rate" /\ pc[t] = "rating" /\ pc'[t] = "driver" /\ n = q
    BY <2>5
  <2>6. CASE /\ q.op = "rate" /\ pc[t] = "driver" /\ pc'[t] = "mark_pg"
             /\ n = [q EXCEPT !.flag = (Target(q) \in available)]
    <3>1. /\ n.op = "rate" /\ n.user = q.user /\ n.row = q.row
          /\ n.flag = (Target(q) \in available)
      BY <1>1, <2>6 DEF Request
    <3>2. Target(n) = Target(q)
      BY <2>6, <3>1 DEF Target
    <3> QED BY <3>1, <3>2
  <2> QED BY <2>1, <2>2, <2>3, <2>4, <2>5, <2>6 DEF Quiet
<1> HIDE DEF n
<1>4. RowIsCurrent(t)'
  BY <1>2, <1>3 DEF RowIsCurrent, HoldsRow, GuardPassed, n
<1>5. RiderIsWithoutRide(t)'
  BY <1>3 DEF RiderIsWithoutRide, n
<1>6. FlagIsRight(t)' /\ DriverIsTaken(t)'
  BY <1>2, <1>3 DEF FlagIsRight, DriverIsTaken, n
<1>7. MirrorFollows(t)'
  BY <1>2 DEF SerialInv, MirrorFollows
<1>8. RequestedHasNoDriver' /\ OneActiveRidePerRider'
  BY DEF SerialInv, RequestedHasNoDriver, OneActiveRidePerRider
<1> QED BY <1>4, <1>5, <1>6, <1>7, <1>8 DEF SerialInv

\* The row a request saves is a successor of the current one, whose guard holds.
LEMMA SaveIsCurrent ==
  ASSUME TypeOK, Shapes, NEW t \in Threads, SerialInv(t), SaveRide(t)
  PROVE  LET q == req[t]
             row == RowToSave(q)
             old == rides[q.rid] IN
         /\ q.op # "request" => q.row = old /\ old \in Ride
         /\ row.rider = IF q.op = "request" THEN q.user ELSE old.rider
         /\ q.op = "request" =>
              /\ q.user \in Riders /\ old = NoRide /\ ~HasActiveRide(q.user)
              /\ row = NewRide(q.user)
         /\ q.op = "accept" =>
              q.user \in Drivers /\ CanAccept(old) /\ row = Accepted(old, q.user)
         /\ q.op = "start" =>
              q.user \in Drivers /\ CanStart(old, q.user) /\ row = Started(old)
         /\ q.op = "complete" =>
              q.user \in Drivers /\ CanComplete(old, q.user) /\ row = Completed(old)
         /\ q.op = "cancel" =>
              q.user \in Users /\ CanCancel(old, q.user) /\ row = Cancelled(old)
         /\ row.status = CASE q.op = "request" -> "REQUESTED" [] q.op = "accept" -> "MATCHED"
                           [] q.op = "start" -> "IN_PROGRESS" [] q.op = "complete" -> "COMPLETED"
                           [] q.op = "cancel" -> "CANCELLED"
<1> DEFINE q == req[t]
           row == RowToSave(q)
<1>1. ShapeOf("save", q) /\ q \in Request /\ pc[t] = "save"
  BY DEF SaveRide, Shapes, TypeOK
<1>2. /\ q.op \in {"request", "accept", "start", "complete", "cancel"}
      /\ q.op = "request" => row = NewRide(q.user)
      /\ q.op = "accept" => row = Accepted(q.row, q.user)
      /\ q.op = "start" => row = Started(q.row)
      /\ q.op = "complete" => row = Completed(q.row)
      /\ q.op = "cancel" => row = Cancelled(q.row)
  BY <1>1, SavedRow
<1>3. /\ q.op # "request" => q.row \in Ride /\ q.row = rides[q.rid]
      /\ GuardPassed(q)
      /\ q.op = "accept" => CanAccept(q.row)
      /\ q.op = "request" => rides[q.rid] = NoRide /\ ~HasActiveRide(q.user)
  BY <1>1, <1>2 DEF ShapeOf, SerialInv, RowIsCurrent, HoldsRow, RiderIsWithoutRide, GuardPassed
<1>4. /\ q.op = "request" => q.user \in Riders
      /\ q.op \in {"accept", "start", "complete"} => q.user \in Drivers
      /\ q.op = "cancel" => q.user \in Users
  BY <1>1 DEF ShapeOf
<1> HIDE DEF row
<1>5. CASE q.op = "request"
  BY <1>2, <1>3, <1>4, <1>5 DEF NewRide, row
<1>6. CASE q.op # "request"
  <2>1. /\ \A d : Accepted(q.row, d).rider = q.row.rider
        /\ Started(q.row).rider = q.row.rider
        /\ Completed(q.row).rider = q.row.rider
        /\ Cancelled(q.row).rider = q.row.rider
    BY <1>3, <1>6 DEF Accepted, Started, Completed, Cancelled, Ride
  <2>2. /\ Accepted(q.row, q.user).status = "MATCHED"
        /\ Started(q.row).status = "IN_PROGRESS"
        /\ Completed(q.row).status = "COMPLETED"
        /\ Cancelled(q.row).status = "CANCELLED"
    BY <1>3, <1>6, SuccessorStatus
  <2>3. row.rider = q.row.rider
    BY <1>2, <1>6, <2>1
  <2>4. row.status = CASE q.op = "request" -> "REQUESTED" [] q.op = "accept" -> "MATCHED"
                       [] q.op = "start" -> "IN_PROGRESS" [] q.op = "complete" -> "COMPLETED"
                       [] q.op = "cancel" -> "CANCELLED"
    BY <1>2, <1>6, <2>2
  <2> HIDE DEF q
  <2>5. q.row = rides[q.rid] /\ rides[q.rid] \in Ride
    BY <1>3, <1>6
  <2> QED BY <1>2, <1>3, <1>4, <1>6, <2>3, <2>4, <2>5 DEF GuardPassed, row, q
<1> QED BY <1>5, <1>6

\* A save keeps the rules.
LEMMA NextSerialSave ==
  ASSUME TypeOK, Shapes, NEW t \in Threads, SerialInv(t), Shapes', SaveRide(t)
  PROVE  SerialInv(t)'
<1> DEFINE q == req[t]
           n == req'[t]
           row == RowToSave(q)
<1>2. /\ pc[t] = "save" /\ q.rid \in RideIds
      /\ q.op \in {"request", "accept", "start", "complete", "cancel"}
      /\ rides' = [rides EXCEPT ![q.rid] = row]
      /\ UNCHANGED <<available, availSet>>
      /\ pc'[t] \in {"publish", "idle"} \/ (pc'[t] = "mark_pg" /\ q.op = "complete")
      /\ n = q \/ n = NoRequest
      /\ q.op = "start" => n = NoRequest
  BY SerialSave
<1>4. q.op = "request" => rides[q.rid] = NoRide /\ ~HasActiveRide(q.user)
  BY SaveIsCurrent
<1>5. /\ q.op = "request" => row.rider = q.user /\ row.status = "REQUESTED" /\ row.driver = None
      /\ q.op # "request" => row.rider = rides[q.rid].rider
      /\ q.op = "accept" => rides[q.rid].status = "REQUESTED" /\ row.status = "MATCHED"
      /\ q.op = "start" => rides[q.rid].status = "MATCHED" /\ row.status = "IN_PROGRESS"
      /\ q.op = "complete" => row.status = "COMPLETED"
      /\ q.op = "cancel" => row.status = "CANCELLED"
  <2>1. /\ row.rider = IF q.op = "request" THEN q.user ELSE rides[q.rid].rider
        /\ q.op = "request" => row = NewRide(q.user)
        /\ q.op = "accept" => CanAccept(rides[q.rid])
        /\ q.op = "start" => CanStart(rides[q.rid], q.user)
        /\ row.status = CASE q.op = "request" -> "REQUESTED" [] q.op = "accept" -> "MATCHED"
                          [] q.op = "start" -> "IN_PROGRESS" [] q.op = "complete" -> "COMPLETED"
                          [] q.op = "cancel" -> "CANCELLED"
    BY SaveIsCurrent
  <2> HIDE DEF row
  <2> QED BY <2>1 DEF NewRide, CanAccept, CanStart
<1> HIDE DEF row
<1>6. OneActiveRidePerRider'
  <2>1. row.status \in ACTIVE_RIDE_STATUSES =>
          \/ rides[q.rid].status \in ACTIVE_RIDE_STATUSES /\ rides[q.rid].rider = row.rider
          \/ ~HasActiveRide(row.rider)
    BY <1>2, <1>4, <1>5 DEF ACTIVE_RIDE_STATUSES
  <2> QED BY <1>2, <2>1, ActiveKept DEF SerialInv
<1>7. RequestedHasNoDriver'
  <2>1. \A s \in RideIds : rides'[s] = IF s = q.rid THEN row ELSE rides[s]
    BY <1>2 DEF TypeOK
  <2>2. row.status = "REQUESTED" => row.driver = None
    BY <1>2, <1>5
  <2> QED BY <2>1, <2>2 DEF SerialInv, RequestedHasNoDriver
<1>8. RowIsCurrent(t)' /\ RiderIsWithoutRide(t)'
  BY <1>2 DEF RowIsCurrent, RiderIsWithoutRide, HoldsRow, NoRequest
<1>9. FlagIsRight(t)' /\ DriverIsTaken(t)'
  BY <1>2 DEF SerialInv, FlagIsRight, DriverIsTaken, NoRequest
<1>10. MirrorFollows(t)'
  BY <1>2 DEF SerialInv, MirrorFollows
<1> QED BY <1>6, <1>7, <1>8, <1>9, <1>10 DEF SerialInv

\* The halves of a driver's save: the mirror lags by that driver alone.
LEMMA NextSerialMark ==
  ASSUME TypeOK, Shapes, NEW t \in Threads, SerialInv(t), Shapes',
         MarkPg(t) \/ MarkRedis(t)
  PROVE  SerialInv(t)'
<1> DEFINE q == req[t]
           n == req'[t]
           d == Target(q)
<1>1. ShapeOf(pc[t], q)
  BY DEF Shapes
<1>2. UNCHANGED rides /\ q.op \in {"accept", "cancel", "complete", "online", "offline", "rate"}
  BY SerialMark
<1>3. RequestedHasNoDriver' /\ OneActiveRidePerRider'
  BY <1>2 DEF SerialInv, RequestedHasNoDriver, OneActiveRidePerRider
<1>4. CASE MarkPg(t)
  <2>1. /\ pc[t] = "mark_pg" /\ pc'[t] = "mark_redis" /\ n = q /\ UNCHANGED availSet
        /\ available' = IF q.flag THEN available \cup {d} ELSE available \ {d}
    BY <1>4, SerialMark
  <2> HIDE DEF d
  <2>2. RowIsCurrent(t)' /\ RiderIsWithoutRide(t)'
    BY <1>2, <2>1 DEF SerialInv, RowIsCurrent, RiderIsWithoutRide, HoldsRow, GuardPassed
  <2>3. FlagIsRight(t)'
    BY <2>1 DEF SerialInv, FlagIsRight
  <2>4. MirrorFollows(t)'
    <3>1. availSet = available /\ Target(q) = d
      BY <2>1 DEF SerialInv, MirrorFollows, d
    <3> QED BY <2>1, <3>1 DEF MirrorFollows
  <2>5. DriverIsTaken(t)'
    <3>1. q.op = "accept" => d = q.user /\ ~q.flag
      BY <1>1 DEF Target, ShapeOf, d
    <3> QED BY <2>1, <3>1 DEF DriverIsTaken
  <2> QED BY <1>3, <2>2, <2>3, <2>4, <2>5 DEF SerialInv
<1>5. CASE MarkRedis(t)
  <2>1. /\ pc[t] = "mark_redis" /\ UNCHANGED available
        /\ availSet' = IF q.flag THEN availSet \cup {d} ELSE availSet \ {d}
        /\ q.op \in {"accept", "cancel"} => pc'[t] = "save" /\ n = q
        /\ q.op = "complete" => pc'[t] = "publish" /\ n = q
        /\ q.op \in {"online", "offline", "rate"} => pc'[t] = "idle" /\ n = NoRequest
    BY <1>5, SerialMark
  <2>2. RowIsCurrent(t)' /\ RiderIsWithoutRide(t)'
    BY <1>2, <2>1 DEF SerialInv, RowIsCurrent, RiderIsWithoutRide, HoldsRow, GuardPassed,
       NoRequest
  <2>3. FlagIsRight(t)' /\ DriverIsTaken(t)'
    BY <1>2, <2>1 DEF SerialInv, FlagIsRight, DriverIsTaken, NoRequest
  <2>4. MirrorFollows(t)'
    <3> HIDE DEF d
    <3>1. availSet \ {d} = available \ {d} /\ (q.flag <=> d \in available)
      BY <2>1 DEF SerialInv, MirrorFollows, d
    <3>2. availSet' = available
      BY <2>1, <3>1
    <3>3. pc'[t] # "mark_redis"
      BY <1>2, <2>1
    <3> QED BY <2>1, <3>2, <3>3 DEF MirrorFollows
  <2> QED BY <1>3, <2>2, <2>3, <2>4 DEF SerialInv
<1> QED BY <1>4, <1>5

LEMMA NextSerial ==
  ASSUME TypeOK, Shapes, NEW t \in Threads, SerialInv(t), Shapes', Arrive(t) \/ Step(t)
  PROVE  SerialInv(t)'
<1>1. CASE Arrive(t)
  BY <1>1, NextSerialArrive
<1>2. CASE SaveRide(t)
  BY <1>2, NextSerialSave
<1>3. CASE MarkPg(t) \/ MarkRedis(t)
  BY <1>3, NextSerialMark
<1>4. CASE Step(t) /\ ~SaveRide(t) /\ ~MarkPg(t) /\ ~MarkRedis(t)
  BY <1>4, SerialQuiet, NextSerialQuiet
<1> QED BY <1>1, <1>2, <1>3, <1>4

LEMMA InitSerial ==
  ASSUME Init, NEW t \in Threads
  PROVE  SerialInv(t)
BY DEF Init, SerialInv, RowIsCurrent, HoldsRow, RiderIsWithoutRide, FlagIsRight,
   MirrorFollows, DriverIsTaken, RequestedHasNoDriver, OneActiveRidePerRider, NoRequest,
   NoRide, ACTIVE_RIDE_STATUSES

-----------------------------------------------------------------------------
(* The rules the guards state. *)

\* A step of the only thread, or none; nothing fails.
LEMMA SerialSteps ==
  ASSUME TypeOK, NEW t \in Threads, Threads = {t}, [SerialNext]_<<vars, shifts>>
  PROVE  \/ UNCHANGED vars
         \/ Arrive(t) \/ Step(t)
<1>1. ~Fail(t)
  BY SerialAssumption DEF Fail, TypeOK
<1> QED BY <1>1 DEF SerialNext, Next, Rest

LEMMA SerialIsService == SerialSpec => Spec
<1>1. SerialInit => Init
  BY DEF SerialInit
<1>2. [SerialNext]_<<vars, shifts>> => [Next]_vars
  BY DEF SerialNext
<1> QED BY <1>1, <1>2, PTL DEF SerialSpec, Spec

LEMMA SerialCorrect ==
  ASSUME NEW t \in Threads, Threads = {t}
  PROVE  SerialSpec => [](Together /\ SerialInv(t))
<1>1. SingleProcess
  BY DEF SingleProcess
<1>2. Spec => []Together
  BY <1>1, TogetherCorrect
<1>3. SerialInit => SerialInv(t)
  BY InitSerial DEF SerialInit
<1>4. Together /\ Together' /\ SerialInv(t) /\ [SerialNext]_<<vars, shifts>> => SerialInv(t)'
  <2> SUFFICES ASSUME Together, Together', SerialInv(t), [SerialNext]_<<vars, shifts>>
               PROVE  SerialInv(t)'
    OBVIOUS
  <2>1. CASE UNCHANGED vars
    BY <2>1 DEF vars, tables, presence, SerialInv, RowIsCurrent, HoldsRow,
       RiderIsWithoutRide, HasActiveRide, FlagIsRight, MirrorFollows, DriverIsTaken,
       RequestedHasNoDriver, OneActiveRidePerRider, GuardPassed
  <2>2. CASE Arrive(t) \/ Step(t)
    BY <2>2, NextSerial DEF Together
  <2> QED BY <2>1, <2>2, SerialSteps DEF Together
<1> QED BY <1>2, <1>3, <1>4, SerialIsService, PTL DEF SerialSpec

LEMMA OnlyThread == \E t \in Threads : Threads = {t}
BY SerialAssumption

\* Called one request at a time, a rider never has two rides that are REQUESTED,
\* MATCHED or IN_PROGRESS: request_ride's check is enough, whatever the other
\* operations do to his rides.
THEOREM OneActiveRideCorrect == SerialSpec => []OneActiveRidePerRider
<1> PICK t \in Threads : Threads = {t}
  BY OnlyThread
<1>1. SerialInv(t) => OneActiveRidePerRider
  BY DEF SerialInv
<1> QED BY <1>1, SerialCorrect, PTL

\* Called one request at a time, the Redis set that dispatch reads agrees with
\* the column that accept_ride reads whenever no request is being served.
THEOREM MirrorCorrect == SerialSpec => []MirrorAgrees
<1> PICK t \in Threads : Threads = {t}
  BY OnlyThread
<1>1. SerialInv(t) => MirrorAgrees
  BY DEF SerialInv, MirrorFollows, MirrorAgrees, AllIdle
<1> QED BY <1>1, SerialCorrect, PTL

\* Called one request at a time, every ride goes through REQUESTED, MATCHED,
\* IN_PROGRESS and COMPLETED in this order, leaves it by a cancellation from the
\* first two only, and stays finished.
THEOREM LifeCycleCorrect == SerialSpec => FollowsLifeCycle
<1> PICK t \in Threads : Threads = {t}
  BY OnlyThread
<1> DEFINE LifeCycle ==
      {<<"NONE", "REQUESTED">>, <<"REQUESTED", "MATCHED">>,
       <<"MATCHED", "IN_PROGRESS">>, <<"IN_PROGRESS", "COMPLETED">>,
       <<"REQUESTED", "CANCELLED">>, <<"MATCHED", "CANCELLED">>,
       <<"CANCELLED", "CANCELLED">>}
    Follows == \A r \in RideIds : rides'[r] # rides[r] =>
                 <<rides[r].status, rides'[r].status>> \in LifeCycle
<1>1. Together /\ SerialInv(t) /\ [SerialNext]_<<vars, shifts>> => [Follows]_vars
  <2> SUFFICES ASSUME Together, SerialInv(t), [SerialNext]_<<vars, shifts>>,
                      NEW r \in RideIds, rides'[r] # rides[r]
               PROVE  <<rides[r].status, rides'[r].status>> \in LifeCycle
    OBVIOUS
  <2> DEFINE q == req[t]
             row == RowToSave(q)
  <2>0. TypeOK /\ Shapes
    BY DEF Together
  <2>1. SaveRide(t)
    <3>1. CASE UNCHANGED vars
      BY <3>1 DEF vars, tables
    <3>2. CASE Arrive(t)
      BY <2>0, <3>2, SerialArrive
    <3>3. CASE Step(t) /\ ~SaveRide(t)
      BY <2>0, <3>3, SerialQuiet, SerialMark
    <3> QED BY <2>0, <3>1, <3>2, <3>3, SerialSteps
  <2>2. /\ q.op \in {"request", "accept", "start", "complete", "cancel"}
        /\ rides' = [rides EXCEPT ![q.rid] = row] /\ q.rid \in RideIds
    BY <2>0, <2>1, SerialSave
  <2>3. q.rid = r /\ rides'[r] = row
    BY <2>0, <2>2 DEF TypeOK
  <2>4. /\ q.op = "request" => rides[r].status = "NONE" /\ row.status = "REQUESTED"
        /\ q.op = "accept" => rides[r].status = "REQUESTED" /\ row.status = "MATCHED"
        /\ q.op = "start" => rides[r].status = "MATCHED" /\ row.status = "IN_PROGRESS"
        /\ q.op = "complete" => rides[r].status = "IN_PROGRESS" /\ row.status = "COMPLETED"
        /\ q.op = "cancel" => /\ rides[r].status \in {"REQUESTED", "MATCHED", "CANCELLED"}
                              /\ row.status = "CANCELLED"
    BY <2>0, <2>1, <2>3, SaveIsCurrent
       DEF NoRide, CanAccept, CanStart, CanComplete, CanCancel, RideStatus
  <2> QED BY <2>2, <2>3, <2>4
<1> QED BY <1>1, SerialCorrect, PTL DEF SerialSpec, FollowsLifeCycle

-----------------------------------------------------------------------------
(* The refinement: what a step does to the state the protocol is shown. *)

(* The two ways in which that state is ahead of the stored one.             *)
Cancels(t) ==
  /\ req[t].op = "cancel" /\ pc[t] \in {"mark_redis", "save"}
  /\ req[t].row.driver # None

Frees(t) ==
  \/ req[t].op = "accept" /\ pc[t] \in {"mark_redis", "save"}
  \/ req[t].op = "complete" /\ pc[t] = "mark_pg"

\* The protocol's rows and guards are the service's.
LEMMA SameDomain ==
  /\ Protocol!NoRide = NoRide
  /\ Protocol!ACTIVE_RIDE_STATUSES = ACTIVE_RIDE_STATUSES
  /\ Protocol!Users = Users
  /\ \A u : Protocol!NewRide(u) = NewRide(u)
  /\ \A ride, d : Protocol!Accepted(ride, d) = Accepted(ride, d)
  /\ \A ride : /\ Protocol!Started(ride) = Started(ride)
               /\ Protocol!Completed(ride) = Completed(ride)
               /\ Protocol!Cancelled(ride) = Cancelled(ride)
               /\ Protocol!CanAccept(ride) = CanAccept(ride)
  /\ \A ride, u : /\ Protocol!CanStart(ride, u) = CanStart(ride, u)
                  /\ Protocol!CanComplete(ride, u) = CanComplete(ride, u)
                  /\ Protocol!CanCancel(ride, u) = CanCancel(ride, u)
BY DEF Protocol!NoRide, Protocol!ACTIVE_RIDE_STATUSES, Protocol!Users, Protocol!NewRide,
   Protocol!Accepted, Protocol!Started, Protocol!Completed, Protocol!Cancelled,
   Protocol!CanAccept, Protocol!CanStart, Protocol!CanComplete, Protocol!CanCancel,
   Protocol!RideStatus, NoRide, ACTIVE_RIDE_STATUSES, Users, NewRide, Accepted, Started,
   Completed, Cancelled, CanAccept, CanStart, CanComplete, CanCancel, RideStatus

\* What is shown, when t is the only thread.
LEMMA ShownNow ==
  ASSUME TypeOK, Shapes, NEW t \in Threads, Threads = {t}
  PROVE  /\ ShownRides = IF Cancels(t)
                           THEN [rides EXCEPT ![req[t].rid] = Cancelled(rides[req[t].rid])]
                           ELSE rides
         /\ ShownFree = IF Frees(t) THEN available \cup {req[t].user} ELSE available
<1>1. \A r : Cancelling(r) # {} <=> Cancels(t) /\ req[t].rid = r
  BY DEF Cancelling, During, Cancels
<1>2. Cancels(t) => req[t].rid \in RideIds
  BY DEF Cancels, Shapes, ShapeOf
<1>3. ShownRides = IF Cancels(t)
                     THEN [rides EXCEPT ![req[t].rid] = Cancelled(rides[req[t].rid])]
                     ELSE rides
  BY <1>1, <1>2 DEF ShownRides, TypeOK
<1>4. ShownFree = IF Frees(t) THEN available \cup {req[t].user} ELSE available
  BY DEF ShownFree, During, Frees
<1> QED BY <1>3, <1>4

\* The same of the next state.
LEMMA ShownNext ==
  ASSUME TypeOK', Shapes', NEW t \in Threads, Threads = {t}
  PROVE  /\ ShownRides' = IF Cancels(t)'
                            THEN [rides' EXCEPT ![req'[t].rid] = Cancelled(rides'[req'[t].rid])]
                            ELSE rides'
         /\ ShownFree' = IF Frees(t)' THEN available' \cup {req'[t].user} ELSE available'
<1>1. \A r : Cancelling(r)' # {} <=> Cancels(t)' /\ req'[t].rid = r
  BY DEF Cancelling, During, Cancels
<1>2. Cancels(t)' => req'[t].rid \in RideIds
  BY DEF Cancels, Shapes, ShapeOf
<1>3. ShownRides' = IF Cancels(t)'
                      THEN [rides' EXCEPT ![req'[t].rid] = Cancelled(rides'[req'[t].rid])]
                      ELSE rides'
  BY <1>1, <1>2 DEF ShownRides, TypeOK
<1>4. ShownFree' = IF Frees(t)' THEN available' \cup {req'[t].user} ELSE available'
  BY DEF ShownFree, During, Frees
<1> QED BY <1>3, <1>4

\* What is shown are rows of the table.
LEMMA ShownTypes ==
  ASSUME TypeOK, Shapes, NEW t \in Threads, Threads = {t}, SerialInv(t)
  PROVE  ShownRides \in [RideIds -> Ride \cup {NoRide}] /\ ShownFree \subseteq Drivers
<1>1. ASSUME Cancels(t)
      PROVE  req[t].rid \in RideIds /\ Cancelled(rides[req[t].rid]) \in Ride
  BY <1>1, SuccessorTypes DEF Cancels, Shapes, ShapeOf, SerialInv, RowIsCurrent, HoldsRow
<1>2. Frees(t) => req[t].user \in Drivers
  BY DEF Frees, Shapes, ShapeOf
<1> QED BY <1>1, <1>2, ShownNow DEF TypeOK

Stutters == UNCHANGED <<ShownRides, ShownFree>>

\* The first step of a request shows nothing.
LEMMA ArriveStutters ==
  ASSUME TypeOK, Shapes, TypeOK', Shapes', NEW t \in Threads, Threads = {t}, Arrive(t)
  PROVE  Stutters
<1>1. pc[t] = "idle" /\ UNCHANGED <<rides, available>>
  BY SerialArrive
<1>2. /\ pc'[t] # "mark_redis"
      /\ req'[t].op = "accept" => pc'[t] = "lock"
      /\ req'[t].op = "complete" => pc'[t] = "save"
      /\ req'[t].op = "cancel" => pc'[t] = CancelFirst(req'[t].row)
  <2>1. CASE UNCHANGED <<pc, req>>
    BY <1>1, <2>1 DEF Shapes, ShapeOf, StepOf
  <2>2. CASE ~UNCHANGED <<pc, req>>
    BY <2>2, SerialArrive DEF CancelFirst
  <2> QED BY <2>1, <2>2
<1>3. ~Cancels(t) /\ ~Frees(t) /\ ~Cancels(t)' /\ ~Frees(t)'
  BY <1>1, <1>2 DEF Cancels, Frees, CancelFirst
<1> QED BY <1>1, <1>3, ShownNow, ShownNext DEF Stutters

\* Nor do reads, refusals and returns.
LEMMA QuietStutters ==
  ASSUME TypeOK, Shapes, TypeOK', Shapes', NEW t \in Threads, Threads = {t},
         Quiet(t), UNCHANGED <<rides, available>>
  PROVE  Stutters
<1>1. req[t] \in Request
  BY DEF TypeOK
<1>2. /\ pc[t] \in {"lock", "ride", "driver", "publish", "rating"}
      /\ pc'[t] \in {"idle", "ride", "driver", "mark_pg"}
      /\ pc'[t] = "mark_pg" => req'[t].op # "complete"
  BY <1>1 DEF Quiet, Request
<1>3. ~Cancels(t) /\ ~Frees(t) /\ ~Cancels(t)' /\ ~Frees(t)'
  BY <1>2 DEF Cancels, Frees
<1> QED BY <1>3, ShownNow, ShownNext DEF Stutters

\* A save is the protocol's step, but for a cancellation that was shown when it
\* freed the driver.
LEMMA SaveShows ==
  ASSUME TypeOK, Shapes, TypeOK', Shapes', NEW t \in Threads, Threads = {t},
         SerialInv(t), SaveRide(t)
  PROVE  \/ Stutters
         \/ \E r \in RideIds :
              \/ \E u \in Riders : Protocol!Request(u, r)
              \/ \E d \in Drivers :
                   Protocol!Accept(d, r) \/ Protocol!Start(d, r) \/ Protocol!Complete(d, r)
              \/ \E u \in Users : Protocol!Cancel(u, r) /\ ShownRides[r].driver = None
<1> DEFINE q == req[t]
           n == req'[t]
           row == RowToSave(q)
           old == rides[q.rid]
<1>1. /\ pc[t] = "save" /\ q.rid \in RideIds
      /\ q.op \in {"request", "accept", "start", "complete", "cancel"}
      /\ rides' = [rides EXCEPT ![q.rid] = row]
      /\ UNCHANGED available
      /\ q.op \in {"request", "accept", "cancel"} => pc'[t] = "publish" /\ n = q
      /\ q.op = "complete" => pc'[t] = "mark_pg" /\ n = q
      /\ q.op = "start" => pc'[t] = "idle" /\ n = NoRequest
  BY SerialSave
<1>2. /\ q.op # "request" => q.row = old /\ old \in Ride
      /\ q.op = "request" =>
           /\ q.user \in Riders /\ old = NoRide /\ ~HasActiveRide(q.user)
           /\ row = NewRide(q.user)
      /\ q.op = "accept" =>
           q.user \in Drivers /\ CanAccept(old) /\ row = Accepted(old, q.user)
      /\ q.op = "start" =>
           q.user \in Drivers /\ CanStart(old, q.user) /\ row = Started(old)
      /\ q.op = "complete" =>
           q.user \in Drivers /\ CanComplete(old, q.user) /\ row = Completed(old)
      /\ q.op = "cancel" =>
           q.user \in Users /\ CanCancel(old, q.user) /\ row = Cancelled(old)
  BY SaveIsCurrent
<1>3. /\ Cancels(t) <=> q.op = "cancel" /\ old.driver # None
      /\ Frees(t) <=> q.op = "accept"
      /\ ~Cancels(t)'
      /\ Frees(t)' <=> q.op = "complete"
  BY <1>1, <1>2 DEF Cancels, Frees, NoRequest
<1>4. /\ ShownRides = IF Cancels(t) THEN [rides EXCEPT ![q.rid] = Cancelled(old)] ELSE rides
      /\ ShownFree = IF Frees(t) THEN available \cup {q.user} ELSE available
      /\ ShownRides' = rides'
      /\ ShownFree' = IF Frees(t)' THEN available \cup {q.user} ELSE available
  BY <1>1, <1>3, ShownNow, ShownNext DEF NoRequest
<1> HIDE DEF row, old
<1>5. CASE q.op = "request"
  <2>1. ShownRides = rides /\ UNCHANGED ShownFree
    BY <1>3, <1>4, <1>5
  <2>2. Protocol!Request(q.user, q.rid)
    BY <1>1, <1>2, <1>4, <1>5, <2>1, SameDomain
       DEF Protocol!Request, Protocol!Put, HasActiveRide, old
  <2> QED BY <1>1, <1>2, <1>5, <2>2
<1>6. CASE q.op = "accept"
  <2>1. q.user \notin available
    BY <1>1, <1>6 DEF SerialInv, DriverIsTaken
  <2>2. ShownRides = rides /\ q.user \in ShownFree /\ ShownFree' = ShownFree \ {q.user}
    BY <1>3, <1>4, <1>6, <2>1
  <2>3. Protocol!Accept(q.user, q.rid)
    BY <1>1, <1>2, <1>4, <1>6, <2>2, SameDomain DEF Protocol!Accept, Protocol!Put, old
  <2> QED BY <1>1, <1>2, <1>6, <2>3
<1>7. CASE q.op = "start"
  <2>1. ShownRides = rides /\ UNCHANGED ShownFree
    BY <1>3, <1>4, <1>7
  <2>2. Protocol!Start(q.user, q.rid)
    BY <1>1, <1>2, <1>4, <1>7, <2>1, SameDomain DEF Protocol!Start, Protocol!Put, old
  <2> QED BY <1>1, <1>2, <1>7, <2>2
<1>8. CASE q.op = "complete"
  <2>1. ShownRides = rides /\ ShownFree' = ShownFree \cup {q.user}
    BY <1>3, <1>4, <1>8
  <2>2. Protocol!Complete(q.user, q.rid)
    BY <1>1, <1>2, <1>4, <1>8, <2>1, SameDomain DEF Protocol!Complete, Protocol!Put, old
  <2> QED BY <1>1, <1>2, <1>8, <2>2
<1>9. CASE q.op = "cancel" /\ old.driver # None
  BY <1>1, <1>2, <1>3, <1>4, <1>9 DEF Stutters
<1>10. CASE q.op = "cancel" /\ old.driver = None
  <2>1. ShownRides = rides /\ ShownFree' = ShownFree \cup ({old.driver} \ {None})
    BY <1>3, <1>4, <1>10
  <2>2. Protocol!Cancel(q.user, q.rid) /\ ShownRides[q.rid].driver = None
    BY <1>1, <1>2, <1>4, <1>10, <2>1, SameDomain DEF Protocol!Cancel, Protocol!Put, old
  <2> QED BY <1>1, <1>2, <1>10, <2>2
<1> QED BY <1>1, <1>5, <1>6, <1>7, <1>8, <1>9, <1>10

\* A driver's column is the protocol's step of online, offline and of a
\* cancellation that frees him; for the rest the driver is shown as he will be.
LEMMA MarkShows ==
  ASSUME TypeOK, Shapes, TypeOK', Shapes', NEW t \in Threads, Threads = {t},
         SerialInv(t), MarkPg(t) \/ MarkRedis(t)
  PROVE  LET q == req[t] IN
         \/ Stutters /\ (MarkPg(t) => q.op \in {"accept", "complete", "rate"})
         \/ MarkPg(t) /\ q.op = "online" /\ q.user \in Drivers /\ Protocol!GoOnline(q.user)
         \/ MarkPg(t) /\ q.op = "offline" /\ q.user \in Drivers /\ Protocol!GoOffline(q.user)
         \/ /\ MarkPg(t) /\ q.op = "cancel" /\ q.user \in Users /\ q.rid \in RideIds
            /\ Protocol!Cancel(q.user, q.rid)
            /\ q.row = ShownRides[q.rid] /\ q.row.driver \in Drivers
            /\ Target(q) = q.row.driver
<1> DEFINE q == req[t]
           n == req'[t]
           d == Target(q)
<1>1. ShapeOf(pc[t], q)
  BY DEF Shapes
<1>2. /\ d \in Drivers
      /\ q.op \in {"accept", "cancel", "complete", "online", "offline", "rate"}
      /\ UNCHANGED rides
  BY SerialMark
<1>3. CASE MarkPg(t)
  <2>1. /\ pc[t] = "mark_pg" /\ pc'[t] = "mark_redis" /\ n = q
        /\ available' = IF q.flag THEN available \cup {d} ELSE available \ {d}
    BY <1>3, SerialMark
  <2>2. /\ ~Cancels(t)
        /\ Frees(t) <=> q.op = "complete"
        /\ Cancels(t)' <=> q.op = "cancel" /\ q.row.driver # None
        /\ Frees(t)' <=> q.op = "accept"
    BY <2>1 DEF Cancels, Frees
  <2>3. /\ ShownRides = rides
        /\ ShownFree = IF q.op = "complete" THEN available \cup {q.user} ELSE available
        /\ ShownRides' = IF Cancels(t)' THEN [rides EXCEPT ![q.rid] = Cancelled(rides[q.rid])]
                                        ELSE rides
        /\ ShownFree' = IF q.op = "accept" THEN available' \cup {q.user} ELSE available'
    BY <1>2, <2>1, <2>2, ShownNow, ShownNext
  <2>4. CASE q.op \in {"accept", "complete", "online", "offline"}
    <3>1. d = q.user
      BY <2>4 DEF Target
    <3>2. /\ q.op = "accept" => ~q.flag /\ q.user \in available
          /\ q.op \in {"complete", "online"} => q.flag
          /\ q.op = "offline" => ~q.flag
      BY <1>1, <2>1 DEF ShapeOf, SerialInv, DriverIsTaken, FlagIsRight
    <3>3. UNCHANGED ShownRides
      BY <2>2, <2>3, <2>4
    <3> HIDE DEF d
    <3>4. CASE q.op = "accept" \/ q.op = "complete"
      BY <2>1, <2>3, <3>1, <3>2, <3>3, <3>4 DEF Stutters
    <3>5. CASE q.op = "online"
      BY <1>2, <1>3, <2>1, <2>3, <3>1, <3>2, <3>3, <3>5 DEF Protocol!GoOnline
    <3>6. CASE q.op = "offline"
      BY <1>2, <1>3, <2>1, <2>3, <3>1, <3>2, <3>3, <3>6 DEF Protocol!GoOffline
    <3> QED BY <2>4, <3>4, <3>5, <3>6
  <2>5. CASE q.op = "rate"
    <3>1. q.flag <=> d \in available
      BY <2>1, <2>5 DEF SerialInv, FlagIsRight
    <3>2. available' = available
      BY <2>1, <3>1
    <3> QED BY <2>2, <2>3, <2>5, <3>2 DEF Stutters
  <2>6. CASE q.op = "cancel"
    <3>1. d = q.row.driver /\ d # None /\ q.flag
      BY <1>2, <2>6, DomainAssumption DEF Target, SerialInv, FlagIsRight
    <3>2. q.user \in Users /\ q.rid \in RideIds
      BY <1>1, <2>6 DEF ShapeOf
    <3>3. q.row = rides[q.rid] /\ CanCancel(q.row, q.user)
      BY <2>1, <2>6 DEF SerialInv, RowIsCurrent, HoldsRow, GuardPassed
    <3> HIDE DEF d
    <3>4. /\ ShownRides' = [ShownRides EXCEPT ![q.rid] = Cancelled(ShownRides[q.rid])]
          /\ ShownFree' = ShownFree \cup ({ShownRides[q.rid].driver} \ {None})
      BY <2>1, <2>2, <2>3, <2>6, <3>1, <3>3
    <3>5. Protocol!Cancel(q.user, q.rid)
      BY <2>3, <3>3, <3>4, SameDomain DEF Protocol!Cancel, Protocol!Put
    <3> QED BY <1>2, <1>3, <2>3, <2>6, <3>1, <3>2, <3>3, <3>5 DEF d
  <2> QED BY <1>2, <2>4, <2>5, <2>6
<1>4. CASE MarkRedis(t)
  <2>1. /\ pc[t] = "mark_redis" /\ UNCHANGED available
        /\ q.op \in {"accept", "cancel"} => pc'[t] = "save" /\ n = q
        /\ q.op = "complete" => pc'[t] = "publish" /\ n = q
        /\ q.op \in {"online", "offline", "rate"} => pc'[t] = "idle" /\ n = NoRequest
        /\ ~MarkPg(t)
    <3>1. ~MarkPg(t)
      BY <1>4 DEF MarkPg, MarkRedis
    <3> QED BY <1>4, <3>1, SerialMark
  <2>2. /\ Cancels(t) <=> q.op = "cancel" /\ q.row.driver # None
        /\ Frees(t) <=> q.op = "accept"
        /\ Cancels(t)' <=> Cancels(t)
        /\ Frees(t)' <=> Frees(t)
    BY <1>2, <2>1 DEF Cancels, Frees, NoRequest
  <2>3. UNCHANGED ShownRides
    BY <1>2, <2>1, <2>2, ShownNow, ShownNext
  <2>4. UNCHANGED ShownFree
    BY <1>2, <2>1, <2>2, ShownNow, ShownNext
  <2> QED BY <2>1, <2>3, <2>4 DEF Stutters
<1> QED BY <1>3, <1>4

\* Called one request at a time, the writes of each operation, in the order the
\* code makes them, add up to one step of the protocol: a caller sees every
\* request take effect at once and completely, or not at all.
THEOREM ProtocolImplemented == SerialSpec => ImplementsProtocol
<1> PICK t \in Threads : Threads = {t}
  BY OnlyThread
<1>1. SerialInit => Protocol!ProtocolInit
  <2> SUFFICES ASSUME Init PROVE Protocol!ProtocolInit
    BY DEF SerialInit
  <2>1. TypeOK /\ Shapes
    BY InitTypes
  <2>2. ~Cancels(t) /\ ~Frees(t)
    BY DEF Init, Cancels, Frees
  <2> QED BY <2>1, <2>2, ShownNow, SameDomain DEF Init, Protocol!ProtocolInit
<1>2. Together /\ Together' /\ SerialInv(t) /\ [SerialNext]_<<vars, shifts>>
        => [Protocol!ProtocolNext]_(Protocol!protocolVars)
  <2> SUFFICES ASSUME Together, Together', SerialInv(t), [SerialNext]_<<vars, shifts>>
               PROVE  Protocol!ProtocolNext \/ UNCHANGED Protocol!protocolVars
    OBVIOUS
  <2>0. TypeOK /\ Shapes /\ TypeOK' /\ Shapes'
    BY DEF Together
  <2>a. Stutters => UNCHANGED Protocol!protocolVars
    BY DEF Stutters, Protocol!protocolVars
  <2>1. CASE UNCHANGED vars
    <3>1. Stutters
      BY <2>1 DEF vars, tables, presence, Stutters, ShownRides, ShownFree, Cancelling, During
    <3> QED BY <2>a, <3>1
  <2>2. CASE Arrive(t)
    BY <2>0, <2>2, <2>a, ArriveStutters
  <2>3. CASE SaveRide(t)
    <3>1. CASE Stutters
      BY <2>a, <3>1
    <3>2. CASE \E r \in RideIds :
                 \/ \E u \in Riders : Protocol!Request(u, r)
                 \/ \E d \in Drivers :
                      Protocol!Accept(d, r) \/ Protocol!Start(d, r) \/ Protocol!Complete(d, r)
                 \/ \E u \in Users : Protocol!Cancel(u, r)
      BY <3>2, SameDomain DEF Protocol!ProtocolNext
    <3> QED BY <2>0, <2>3, <3>1, <3>2, SaveShows
  <2>4. CASE MarkPg(t) \/ MarkRedis(t)
    <3>1. CASE Stutters
      BY <2>a, <3>1
    <3>2. CASE \/ \E d \in Drivers : Protocol!GoOnline(d) \/ Protocol!GoOffline(d)
               \/ \E u \in Users, r \in RideIds : Protocol!Cancel(u, r)
      BY <3>2, SameDomain DEF Protocol!ProtocolNext
    <3> QED BY <2>0, <2>4, <3>1, <3>2, MarkShows
  <2>5. CASE Step(t) /\ ~SaveRide(t) /\ ~MarkPg(t) /\ ~MarkRedis(t)
    BY <2>0, <2>5, <2>a, SerialQuiet, QuietStutters
  <2> QED BY <2>0, <2>1, <2>2, <2>3, <2>4, <2>5, SerialSteps
<1> QED
  BY <1>1, <1>2, SerialCorrect, PTL DEF SerialSpec, ImplementsProtocol, Protocol!ProtocolSpec

-----------------------------------------------------------------------------
(* Rides and shifts: what a step does to one driver. *)

Drives(row, d) == row.status \in {"MATCHED", "IN_PROGRESS"} /\ row.driver = d

(* The driver takes a ride, ends one, begins a shift, or ends his shift.    *)
Keeps(d) == ShownDrivenBy(d)' = ShownDrivenBy(d) /\ (d \in ShownFree' <=> d \in ShownFree)

TakesRide(d) ==
  /\ \E r \in RideIds \ ShownDrivenBy(d) : ShownDrivenBy(d)' = ShownDrivenBy(d) \cup {r}
  /\ d \in ShownFree /\ d \notin ShownFree'

EndsRide(d) ==
  /\ \E r \in ShownDrivenBy(d) : ShownDrivenBy(d)' = ShownDrivenBy(d) \ {r}
  /\ d \in ShownFree'

ShiftStarts(t, d) ==
  ShownDrivenBy(d)' = ShownDrivenBy(d) /\ d \in ShownFree' /\ BeginsShift(t, d)

ShiftEnds(t, d) ==
  /\ ShownDrivenBy(d)' = ShownDrivenBy(d) /\ d \notin ShownFree'
  /\ req[t].op = "offline" /\ req[t].user = d

\* One row changes what one ride's driver drives.
LEMMA RowDrives ==
  ASSUME ShownRides \in [RideIds -> Ride \cup {NoRide}], NEW r \in RideIds, NEW row,
         NEW d, ShownRides' = [ShownRides EXCEPT ![r] = row]
  PROVE  /\ r \in ShownDrivenBy(d) <=> Drives(ShownRides[r], d)
         /\ ShownDrivenBy(d)' = IF Drives(row, d) THEN ShownDrivenBy(d) \cup {r}
                                                  ELSE ShownDrivenBy(d) \ {r}
<1>1. \A s \in RideIds : ShownRides'[s] = IF s = r THEN row ELSE ShownRides[s]
  OBVIOUS
<1>2. r \in ShownDrivenBy(d) <=> Drives(ShownRides[r], d)
  BY DEF ShownDrivenBy, Drives
<1>3. ShownDrivenBy(d)' = {s \in RideIds : Drives(ShownRides'[s], d)}
  BY DEF ShownDrivenBy, Drives
<1>4. ShownDrivenBy(d) = {s \in RideIds : Drives(ShownRides[s], d)}
  BY DEF ShownDrivenBy, Drives
<1> HIDE DEF Drives
<1> QED BY <1>1, <1>2, <1>3, <1>4

\* The steps that save a ride.
LEMMA SaveTurns ==
  ASSUME ShownRides \in [RideIds -> Ride \cup {NoRide}], NEW r \in RideIds, NEW d \in Drivers,
         \/ \E u \in Riders : Protocol!Request(u, r)
         \/ \E e \in Drivers :
              Protocol!Accept(e, r) \/ Protocol!Start(e, r) \/ Protocol!Complete(e, r)
         \/ \E u \in Users : Protocol!Cancel(u, r) /\ ShownRides[r].driver = None
  PROVE  Keeps(d) \/ TakesRide(d) \/ EndsRide(d)
<1> DEFINE old == ShownRides[r]
<1>0. old \in Ride \cup {NoRide} /\ d # None
  BY DomainAssumption
<1>1. CASE \E u \in Riders : Protocol!Request(u, r)
  <2>1. PICK u \in Riders : Protocol!Request(u, r)
    BY <1>1
  <2>2. /\ old = NoRide /\ ShownRides' = [ShownRides EXCEPT ![r] = NewRide(u)]
        /\ UNCHANGED ShownFree
    BY <2>1, SameDomain DEF Protocol!Request, Protocol!Put
  <2>3. ~Drives(old, d) /\ ~Drives(NewRide(u), d)
    BY <2>2 DEF Drives, NoRide, NewRide
  <2>4. /\ r \in ShownDrivenBy(d) <=> Drives(old, d)
        /\ ShownDrivenBy(d)' = IF Drives(NewRide(u), d) THEN ShownDrivenBy(d) \cup {r}
                                                      ELSE ShownDrivenBy(d) \ {r}
    BY <2>2, RowDrives
  <2> QED BY <2>2, <2>3, <2>4 DEF Keeps
<1>2. CASE \E e \in Drivers : Protocol!Accept(e, r)
  <2>1. PICK e \in Drivers : Protocol!Accept(e, r)
    BY <1>2
  <2>2. /\ CanAccept(old) /\ e \in ShownFree /\ ShownFree' = ShownFree \ {e}
        /\ ShownRides' = [ShownRides EXCEPT ![r] = Accepted(old, e)]
    BY <2>1, SameDomain DEF Protocol!Accept, Protocol!Put
  <2>3. old \in Ride
    BY <1>0, <2>2 DEF CanAccept, NoRide
  <2>4. ~Drives(old, d) /\ (Drives(Accepted(old, e), d) <=> d = e)
    BY <2>2, <2>3 DEF Drives, CanAccept, Accepted, Ride
  <2>5. /\ r \in ShownDrivenBy(d) <=> Drives(old, d)
        /\ ShownDrivenBy(d)' = IF Drives(Accepted(old, e), d) THEN ShownDrivenBy(d) \cup {r}
                                                      ELSE ShownDrivenBy(d) \ {r}
    BY <2>2, RowDrives
  <2> QED BY <2>2, <2>4, <2>5 DEF Keeps, TakesRide
<1>3. CASE \E e \in Drivers : Protocol!Start(e, r)
  <2>1. PICK e \in Drivers : Protocol!Start(e, r)
    BY <1>3
  <2>2. /\ CanStart(old, e) /\ UNCHANGED ShownFree
        /\ ShownRides' = [ShownRides EXCEPT ![r] = Started(old)]
    BY <2>1, SameDomain DEF Protocol!Start, Protocol!Put
  <2>3. old \in Ride
    BY <1>0, <2>2 DEF CanStart, NoRide
  <2>4. Drives(Started(old), d) <=> Drives(old, d)
    BY <2>2, <2>3 DEF Drives, CanStart, Started, Ride
  <2>5. /\ r \in ShownDrivenBy(d) <=> Drives(old, d)
        /\ ShownDrivenBy(d)' = IF Drives(Started(old), d) THEN ShownDrivenBy(d) \cup {r}
                                                      ELSE ShownDrivenBy(d) \ {r}
    BY <2>2, RowDrives
  <2> QED BY <2>2, <2>4, <2>5 DEF Keeps
<1>4. CASE \E e \in Drivers : Protocol!Complete(e, r)
  <2>1. PICK e \in Drivers : Protocol!Complete(e, r)
    BY <1>4
  <2>2. /\ CanComplete(old, e) /\ ShownFree' = ShownFree \cup {e}
        /\ ShownRides' = [ShownRides EXCEPT ![r] = Completed(old)]
    BY <2>1, SameDomain DEF Protocol!Complete, Protocol!Put
  <2>3. old \in Ride
    BY <1>0, <2>2 DEF CanComplete, NoRide
  <2>4. (Drives(old, d) <=> d = e) /\ ~Drives(Completed(old), d)
    BY <2>2, <2>3 DEF Drives, CanComplete, Completed, Ride
  <2>5. /\ r \in ShownDrivenBy(d) <=> Drives(old, d)
        /\ ShownDrivenBy(d)' = IF Drives(Completed(old), d) THEN ShownDrivenBy(d) \cup {r}
                                                      ELSE ShownDrivenBy(d) \ {r}
    BY <2>2, RowDrives
  <2> QED BY <2>2, <2>4, <2>5 DEF Keeps, EndsRide
<1>5. CASE \E u \in Users : Protocol!Cancel(u, r) /\ old.driver = None
  <2>1. PICK u \in Users : Protocol!Cancel(u, r) /\ old.driver = None
    BY <1>5
  <2>2. /\ CanCancel(old, u) /\ ShownFree' = ShownFree \cup ({old.driver} \ {None})
        /\ ShownRides' = [ShownRides EXCEPT ![r] = Cancelled(old)]
    BY <2>1, SameDomain DEF Protocol!Cancel, Protocol!Put
  <2>3. old \in Ride
    BY <1>0, <2>2 DEF CanCancel, NoRide, RideStatus
  <2>4. ~Drives(old, d) /\ ~Drives(Cancelled(old), d)
    BY <1>0, <2>1, <2>3 DEF Drives, Cancelled, Ride
  <2>5. UNCHANGED ShownFree
    BY <2>1, <2>2
  <2>6. /\ r \in ShownDrivenBy(d) <=> Drives(old, d)
        /\ ShownDrivenBy(d)' = IF Drives(Cancelled(old), d) THEN ShownDrivenBy(d) \cup {r}
                                                      ELSE ShownDrivenBy(d) \ {r}
    BY <2>2, RowDrives
  <2> QED BY <2>4, <2>5, <2>6 DEF Keeps
<1> QED BY <1>1, <1>2, <1>3, <1>4, <1>5

\* The steps that save a driver's column.
LEMMA MarkTurns ==
  ASSUME TypeOK, Shapes, TypeOK', Shapes', NEW t \in Threads, Threads = {t},
         SerialInv(t), MarkPg(t) \/ MarkRedis(t), NEW d \in Drivers
  PROVE  Keeps(d) \/ EndsRide(d) \/ ShiftStarts(t, d) \/ ShiftEnds(t, d)
<1> DEFINE q == req[t]
           old == ShownRides[q.rid]
<1>0. ShownRides \in [RideIds -> Ride \cup {NoRide}]
  BY ShownTypes
<1>1. CASE Stutters
  BY <1>1 DEF Stutters, Keeps, ShownDrivenBy
<1>2. CASE MarkPg(t) /\ q.op = "online" /\ Protocol!GoOnline(q.user)
  <2>1. ShownFree' = ShownFree \cup {q.user} /\ UNCHANGED ShownRides
    BY <1>2 DEF Protocol!GoOnline
  <2>2. ShownDrivenBy(d)' = ShownDrivenBy(d)
    BY <2>1 DEF ShownDrivenBy
  <2>3. BeginsShift(t, q.user)
    BY <1>2, SerialMark DEF BeginsShift, Target
  <2> QED BY <2>1, <2>2, <2>3 DEF Keeps, ShiftStarts
<1>3. CASE MarkPg(t) /\ q.op = "offline" /\ Protocol!GoOffline(q.user)
  <2>1. ShownFree' = ShownFree \ {q.user} /\ UNCHANGED ShownRides
    BY <1>3 DEF Protocol!GoOffline
  <2>2. ShownDrivenBy(d)' = ShownDrivenBy(d)
    BY <2>1 DEF ShownDrivenBy
  <2> QED BY <1>3, <2>1, <2>2 DEF Keeps, ShiftEnds
<1>4. CASE /\ MarkPg(t) /\ q.op = "cancel" /\ q.user \in Users /\ q.rid \in RideIds
           /\ Protocol!Cancel(q.user, q.rid)
           /\ q.row = ShownRides[q.rid] /\ q.row.driver \in Drivers
           /\ Target(q) = q.row.driver
  <2>1. /\ CanCancel(old, q.user) /\ ShownFree' = ShownFree \cup ({old.driver} \ {None})
        /\ ShownRides' = [ShownRides EXCEPT ![q.rid] = Cancelled(old)]
    BY <1>4, SameDomain DEF Protocol!Cancel, Protocol!Put
  <2>2. old \in Ride /\ old.driver # None
    BY <1>0, <1>4, <2>1, DomainAssumption DEF CanCancel, NoRide, RideStatus
  <2>3. pc[t] = "mark_pg" /\ pc'[t] = "mark_redis"
    BY <1>4, SerialMark
  <2>4. old.status # "REQUESTED"
    <3>1. old = rides[q.rid]
      BY <1>4, <2>3 DEF SerialInv, RowIsCurrent, HoldsRow
    <3> QED BY <1>4, <2>2, <3>1 DEF SerialInv, RequestedHasNoDriver
  <2>5. old.status \in {"MATCHED", "CANCELLED"}
    BY <2>1, <2>4 DEF CanCancel, RideStatus
  <2>6. ~Drives(Cancelled(old), d)
    BY <2>2 DEF Drives, Cancelled, Ride
  <2>10. /\ q.rid \in ShownDrivenBy(d) <=> Drives(old, d)
         /\ ShownDrivenBy(d)' = ShownDrivenBy(d) \ {q.rid}
    <3>1. PICK r \in RideIds : r = q.rid
      BY <1>4
    <3>2. ShownRides' = [ShownRides EXCEPT ![r] = Cancelled(ShownRides[r])]
      BY <2>1, <3>1
    <3>3. /\ r \in ShownDrivenBy(d) <=> Drives(ShownRides[r], d)
          /\ ShownDrivenBy(d)' = IF Drives(Cancelled(ShownRides[r]), d)
                                   THEN ShownDrivenBy(d) \cup {r} ELSE ShownDrivenBy(d) \ {r}
      BY <1>0, <3>2, RowDrives
    <3> QED BY <2>6, <3>1, <3>3
  <2> HIDE DEF old
  <2>7. CASE d # old.driver
    <3>1. ~Drives(old, d)
      BY <2>7 DEF Drives
    <3> QED BY <2>1, <2>7, <2>10, <3>1 DEF Keeps
  <2>8. CASE d = old.driver /\ old.status = "MATCHED"
    <3>1. Drives(old, d)
      BY <2>8 DEF Drives
    <3>2. d \in ShownFree'
      BY <2>1, <2>2, <2>8
    <3> QED BY <2>10, <3>1, <3>2 DEF EndsRide
  <2>9. CASE d = old.driver /\ old.status = "CANCELLED"
    <3>1. ~Drives(old, d)
      BY <2>9 DEF Drives
    <3>2. d \in ShownFree'
      BY <2>1, <2>2, <2>9
    <3>3. BeginsShift(t, d)
      BY <1>4, <2>3, <2>9 DEF BeginsShift, old
    <3> QED BY <2>10, <3>1, <3>2, <3>3 DEF ShiftStarts
  <2> QED BY <2>5, <2>7, <2>8, <2>9
<1> QED BY <1>1, <1>2, <1>3, <1>4, MarkShows

LEMMA Turns ==
  ASSUME TypeOK, Shapes, TypeOK', Shapes', NEW t \in Threads, Threads = {t},
         SerialInv(t), Arrive(t) \/ Step(t), NEW d \in Drivers
  PROVE  Keeps(d) \/ TakesRide(d) \/ EndsRide(d) \/ ShiftStarts(t, d)
         \/ (MarkPg(t) /\ ShiftEnds(t, d))
<1>1. Stutters => Keeps(d)
  BY DEF Stutters, Keeps, ShownDrivenBy
<1>2. CASE Arrive(t)
  BY <1>1, <1>2, ArriveStutters
<1>3. CASE SaveRide(t)
  BY <1>1, <1>3, SaveShows, SaveTurns, ShownTypes
<1>4. CASE MarkPg(t) \/ MarkRedis(t)
  <2>1. CASE MarkPg(t)
    BY <2>1, MarkTurns
  <2>2. CASE MarkRedis(t)
    <3>1. ~MarkPg(t)
      BY <2>2 DEF MarkPg, MarkRedis
    <3> QED BY <1>1, <2>2, <3>1, MarkShows
  <2> QED BY <1>4, <2>1, <2>2
<1>5. CASE Step(t) /\ ~SaveRide(t) /\ ~MarkPg(t) /\ ~MarkRedis(t)
  BY <1>1, <1>5, SerialQuiet, QuietStutters
<1> QED BY <1>2, <1>3, <1>4, <1>5

-----------------------------------------------------------------------------
(* The rides of a driver, and the drivers on the map. *)

\* What is shown between requests is what is stored.
LEMMA ShownWhenIdle ==
  ASSUME TypeOK, Shapes, NEW t \in Threads, Threads = {t}, AllIdle
  PROVE  ShownRides = rides /\ ShownFree = available
<1>1. ~Cancels(t) /\ ~Frees(t)
  BY DEF AllIdle, Cancels, Frees
<1> QED BY <1>1, ShownNow

\* A driver's rides, the one he is free for and his shifts stay accounted.
LEMMA NextShifts ==
  ASSUME TypeOK, Shapes, TypeOK', Shapes', NEW t \in Threads, Threads = {t},
         SerialInv(t), ShiftsInv, SerialNext, Arrive(t) \/ Step(t)
  PROVE  ShiftsInv'
<1>1. shifts' = [d \in Drivers |-> IF BeginsShift(t, d) THEN shifts[d] + 1 ELSE shifts[d]]
  BY DEF SerialNext
<1>2. shifts' \in [Drivers -> Nat]
  BY <1>1 DEF ShiftsInv
<1>3. ASSUME NEW d \in Drivers
      PROVE  /\ IsFiniteSet(ShownDrivenBy(d))'
             /\ Cardinality(ShownDrivenBy(d)') + (IF d \in ShownFree' THEN 1 ELSE 0) <= shifts'[d]
  <2> DEFINE driven == ShownDrivenBy(d)
  <2>1. /\ IsFiniteSet(driven) /\ Cardinality(driven) \in Nat /\ shifts[d] \in Nat
        /\ Cardinality(driven) + (IF d \in ShownFree THEN 1 ELSE 0) <= shifts[d]
    BY FS_CardinalityType DEF ShiftsInv
  <2>2. shifts'[d] = IF BeginsShift(t, d) THEN shifts[d] + 1 ELSE shifts[d]
    BY <1>1
  <2>3. CASE Keeps(d)
    BY <2>1, <2>2, <2>3 DEF Keeps
  <2>4. CASE TakesRide(d)
    <3>1. PICK r \in RideIds \ driven : ShownDrivenBy(d)' = driven \cup {r}
      BY <2>4 DEF TakesRide
    <3>2. IsFiniteSet(driven \cup {r}) /\ Cardinality(driven \cup {r}) = Cardinality(driven) + 1
      BY <2>1, <3>1, FS_AddElement
    <3> QED BY <2>1, <2>2, <2>4, <3>1, <3>2 DEF TakesRide
  <2>5. CASE EndsRide(d)
    <3>1. PICK r \in driven : ShownDrivenBy(d)' = driven \ {r}
      BY <2>5 DEF EndsRide
    <3>2. IsFiniteSet(driven \ {r}) /\ Cardinality(driven \ {r}) = Cardinality(driven) - 1
      BY <2>1, <3>1, FS_RemoveElement
    <3> QED BY <2>1, <2>2, <3>1, <3>2
  <2>6. CASE ShiftStarts(t, d)
    BY <2>1, <2>2, <2>6 DEF ShiftStarts
  <2>7. CASE ShiftEnds(t, d)
    BY <2>1, <2>2, <2>7 DEF ShiftEnds
  <2> QED BY <2>3, <2>4, <2>5, <2>6, <2>7, Turns
<1> QED BY <1>2, <1>3 DEF ShiftsInv

\* Called one request at a time, for any number of drivers and rides: a driver
\* never has more rides at once, counting the one he is free for, than he has
\* begun shifts, in whatever order completions, cancellations and shifts come.
THEOREM RidesAccounted == SerialSpec => []DriverRidesAccounted
<1> PICK t \in Threads : Threads = {t}
  BY OnlyThread
<1>1. SerialInit => ShiftsInv
  <2> SUFFICES ASSUME SerialInit PROVE ShiftsInv
    OBVIOUS
  <2>1. TypeOK /\ Shapes /\ AllIdle
    BY InitTypes DEF SerialInit, Init, AllIdle
  <2>2. ShownRides = rides /\ ShownFree = {}
    BY <2>1, ShownWhenIdle DEF SerialInit, Init
  <2>3. \A d \in Drivers : ShownDrivenBy(d) = {}
    BY <2>2 DEF ShownDrivenBy, SerialInit, Init, NoRide
  <2> QED BY <2>2, <2>3, FS_EmptySet DEF ShiftsInv, SerialInit
<1>2. Together /\ Together' /\ SerialInv(t) /\ ShiftsInv /\ [SerialNext]_<<vars, shifts>>
        => ShiftsInv'
  <2> SUFFICES ASSUME Together, Together', SerialInv(t), ShiftsInv,
                      [SerialNext]_<<vars, shifts>>
               PROVE  ShiftsInv'
    OBVIOUS
  <2>1. CASE UNCHANGED vars
    <3>1. UNCHANGED <<ShownRides, ShownFree>>
      BY <2>1 DEF vars, tables, presence, ShownRides, ShownFree, Cancelling, During
    <3>2. \A d : ShownDrivenBy(d)' = ShownDrivenBy(d)
      BY <3>1 DEF ShownDrivenBy
    <3>3. \A d : ~BeginsShift(t, d)
      BY <2>1 DEF vars, BeginsShift
    <3>4. shifts' = shifts
      BY <3>3 DEF SerialNext, ShiftsInv
    <3> QED BY <3>1, <3>2, <3>4 DEF ShiftsInv
  <2>2. CASE (Arrive(t) \/ Step(t)) /\ SerialNext
    BY <2>2, NextShifts DEF Together
  <2> QED BY <2>1, <2>2, SerialSteps DEF Together
<1>3. Together /\ ShiftsInv => DriverRidesAccounted
  <2> SUFFICES ASSUME Together, ShiftsInv, AllIdle, NEW d \in Drivers
               PROVE  Cardinality(DrivenBy(d)) + (IF d \in available THEN 1 ELSE 0) <= shifts[d]
    BY DEF DriverRidesAccounted
  <2>1. ShownRides = rides /\ ShownFree = available
    BY ShownWhenIdle DEF Together
  <2>2. DrivenBy(d) = ShownDrivenBy(d)
    BY <2>1 DEF DrivenBy, ShownDrivenBy
  <2> QED BY <2>1, <2>2 DEF ShiftsInv
<1> QED BY <1>1, <1>2, <1>3, SerialCorrect, PTL DEF SerialSpec

\* Who is on the map is free, or drives, or is about to be made available.
LEMMA NextOnline ==
  ASSUME TypeOK, Shapes, TypeOK', Shapes', NEW t \in Threads, Threads = {t},
         SerialInv(t), OnlineInv(t), Arrive(t) \/ Step(t), "location" \notin Ops
  PROVE  OnlineInv(t)'
<1> DEFINE GoesOnline(d) == req[t].op = "online" /\ pc[t] = "mark_pg" /\ req[t].user = d
<1>1. CASE Arrive(t)
  <2>1. ASSUME NEW d \in Drivers
        PROVE  (d \in ShownFree' <=> d \in ShownFree) /\ ShownDrivenBy(d)' = ShownDrivenBy(d)
    <3>1. Stutters
      BY <1>1, ArriveStutters
    <3> QED BY <3>1 DEF Stutters, ShownDrivenBy
  <2>2. pc[t] = "idle" /\ geo \subseteq Drivers /\ geo' \subseteq Drivers
    BY <1>1, SerialArrive DEF TypeOK
  <2>3. \/ geo' = geo /\ req'[t].op # "offline"
        \/ req'[t].op = "online" /\ pc'[t] = "mark_pg" /\ geo' = geo \cup {req'[t].user}
        \/ req'[t].op = "offline" /\ geo' = geo \ {req'[t].user}
    BY <1>1, SerialArrive
  <2> QED BY <2>1, <2>2, <2>3 DEF OnlineInv
<1>2. CASE Step(t)
  <2>1. /\ geo' = geo /\ geo \subseteq Drivers
        /\ req'[t].op = "offline" => req[t].op = "offline" /\ req'[t].user = req[t].user
        /\ pc[t] = "mark_pg" /\ req[t].op = "online" => MarkPg(t)
    <3>1. req[t] \in Request /\ NoRequest.op = "none"
      BY DEF TypeOK, NoRequest
    <3>2. CASE SaveRide(t)
      BY <3>1, <3>2, SerialSave DEF TypeOK
    <3>3. CASE MarkPg(t) \/ MarkRedis(t)
      BY <3>1, <3>3, SerialMark DEF TypeOK
    <3>4. CASE ~SaveRide(t) /\ ~MarkPg(t) /\ ~MarkRedis(t)
      <4>1. Quiet(t) /\ UNCHANGED geo
        BY <1>2, <3>4, SerialQuiet
      <4>2. req'[t].op = "offline" => req[t].op = "offline" /\ req'[t].user = req[t].user
        BY <3>1, <4>1 DEF Quiet, Request
      <4>3. pc[t] # "mark_pg"
        BY <4>1 DEF Quiet
      <4> QED BY <4>1, <4>2, <4>3 DEF TypeOK
    <3> QED BY <3>2, <3>3, <3>4
  <2>2. ASSUME NEW d \in geo
        PROVE  d \in ShownFree' \/ ShownDrivenBy(d)' # {}
    <3>1. d \in Drivers
      BY <2>1
    <3>2. CASE GoesOnline(d)
      <4>1. MarkPg(t) /\ req[t].op = "online"
        BY <2>1, <3>2
      <4>2. Protocol!GoOnline(d)
        BY <3>2, <4>1, MarkShows
      <4> QED BY <4>2 DEF Protocol!GoOnline
    <3>3. CASE d \in ShownFree \/ ShownDrivenBy(d) # {}
      <4>1. ~(ShiftEnds(t, d))
        BY DEF OnlineInv, ShiftEnds
      <4> QED
        BY <3>1, <3>3, <4>1, <1>2, Turns DEF Keeps, TakesRide, EndsRide, ShiftStarts
    <3> QED BY <3>2, <3>3 DEF OnlineInv
  <2>3. req'[t].op = "offline" => req'[t].user \notin geo'
    BY <2>1 DEF OnlineInv
  <2> QED BY <2>1, <2>2, <2>3 DEF OnlineInv
<1> QED BY <1>1, <1>2

\* Called one request at a time, and as long as drivers report their location
\* while they are online only, a driver on the map is available or has a ride to
\* drive: no completion or cancellation leaves him stranded.
THEOREM OnlineCorrect ==
  ASSUME "location" \notin Ops
  PROVE  SerialSpec => []OnlineDriverIsFreeOrBusy
<1> PICK t \in Threads : Threads = {t}
  BY OnlyThread
<1>1. SerialInit => OnlineInv(t)
  BY DEF SerialInit, Init, OnlineInv, NoRequest
<1>2. Together /\ Together' /\ SerialInv(t) /\ OnlineInv(t) /\ [SerialNext]_<<vars, shifts>>
        => OnlineInv(t)'
  <2> SUFFICES ASSUME Together, Together', SerialInv(t), OnlineInv(t),
                      [SerialNext]_<<vars, shifts>>
               PROVE  OnlineInv(t)'
    OBVIOUS
  <2>1. CASE UNCHANGED vars
    <3>1. UNCHANGED <<ShownRides, ShownFree>>
      BY <2>1 DEF vars, tables, presence, ShownRides, ShownFree, Cancelling, During
    <3>2. \A d : ShownDrivenBy(d)' = ShownDrivenBy(d)
      BY <3>1 DEF ShownDrivenBy
    <3> QED BY <2>1, <3>1, <3>2 DEF OnlineInv, vars, presence
  <2>2. CASE Arrive(t) \/ Step(t)
    BY <2>2, NextOnline DEF Together
  <2> QED BY <2>1, <2>2, SerialSteps DEF Together
<1>3. Together /\ OnlineInv(t) => OnlineDriverIsFreeOrBusy
  <2> SUFFICES ASSUME Together, OnlineInv(t), AllIdle, NEW d \in geo
               PROVE  \/ d \in available
                      \/ \E r \in RideIds :
                           rides[r].status \in {"MATCHED", "IN_PROGRESS"} /\ rides[r].driver = d
    BY DEF OnlineDriverIsFreeOrBusy
  <2>1. ShownRides = rides /\ ShownFree = available
    BY ShownWhenIdle DEF Together
  <2>2. pc[t] # "mark_pg"
    BY DEF AllIdle
  <2> QED BY <2>1, <2>2 DEF OnlineInv, ShownDrivenBy
<1> QED BY <1>1, <1>2, <1>3, SerialCorrect, PTL DEF SerialSpec
=============================================================================

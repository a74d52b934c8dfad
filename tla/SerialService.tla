--------------------------- MODULE SerialService ---------------------------
(***************************************************************************)
(* RideService as it behaves when requests do not overlap: a history of    *)
(* the drivers' shifts is added to it, and it is compared with the         *)
(* protocol its callers may rely on.                                       *)
(***************************************************************************)
EXTENDS RideService, FiniteSets

\* Requests follow each other and none dies half way.
ASSUME SerialAssumption == (\E t \in Threads : Threads = {t}) /\ MaxFailures = 0

VARIABLE
  shifts  \* history: times a driver was made available without a ride's end

\* go_online, whatever ride the driver is on, and the cancellation of a ride
\* that was CANCELLED before.
BeginsShift(t, d) ==
  /\ pc[t] = "mark_pg" /\ pc'[t] = "mark_redis"
  /\ Target(req[t]) = d
  /\ \/ req[t].op = "online"
     \/ req[t].op = "cancel" /\ req[t].row.status = "CANCELLED"

SerialInit == Init /\ shifts = [d \in Drivers |-> 0]

SerialNext ==
  /\ Next
  /\ shifts' = [d \in Drivers |->
       IF \E t \in Threads : BeginsShift(t, d) THEN shifts[d] + 1 ELSE shifts[d]]

SerialSpec == SerialInit /\ [][SerialNext]_<<vars, shifts>>

-----------------------------------------------------------------------------

DrivenBy(d) ==
  {r \in RideIds : rides[r].status \in {"MATCHED", "IN_PROGRESS"} /\ rides[r].driver = d}

\* A driver has as many rides at once, counting the one he is free for, as he
\* has begun shifts: completing, cancelling or going offline, in any order, never
\* makes him free for a ride he has not earned by ending one.
DriverRidesAccounted ==
  AllIdle => \A d \in Drivers :
    Cardinality(DrivenBy(d)) + (IF d \in available THEN 1 ELSE 0) <= shifts[d]

-----------------------------------------------------------------------------
(* The refinement: a request takes effect with the save of the ride's row,  *)
(* and a cancellation that frees a driver with the save of the driver's.    *)

During(op, steps) == {t \in Threads : req[t].op = op /\ pc[t] \in steps}

Cancelling(r) ==
  {t \in During("cancel", {"mark_redis", "save"}) :
     req[t].rid = r /\ req[t].row.driver # None}

ShownRides ==
  [r \in RideIds |-> IF Cancelling(r) # {} THEN Cancelled(rides[r]) ELSE rides[r]]

ShownFree ==
  available \cup {req[t].user : t \in During("accept", {"mark_redis", "save"})}
            \cup {req[t].user : t \in During("complete", {"mark_pg"})}

Protocol == INSTANCE RideProtocol WITH rides <- ShownRides, free <- ShownFree

\* Called one request at a time, the steps of each operation add up to one step
\* of the protocol: no order of its writes shows a caller a half-done one.
ImplementsProtocol == Protocol!ProtocolSpec
=============================================================================

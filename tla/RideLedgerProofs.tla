-------------------------- MODULE RideLedgerProofs --------------------------
(***************************************************************************)
(* RideService implements RideLedger, and every ride keeps one driver.     *)
(*                                                                         *)
(* The rows of a ride are related to each other by the ledger alone, so    *)
(* the properties of rows are proved of the ledger and carried over to the *)
(* service by the refinement.                                              *)
(***************************************************************************)
EXTENDS RideServiceProofs

-----------------------------------------------------------------------------
(* Every step of the service is a step of the ledger. *)

\* The ledger's copies of the guards and rows are the service's.
LEMMA SameRows ==
  /\ Ledger!NoRide = NoRide /\ Ledger!Ride = Ride
  /\ \A u : Ledger!NewRide(u) = NewRide(u)
  /\ \A ride, d : Ledger!Accepted(ride, d) = Accepted(ride, d)
  /\ \A ride : /\ Ledger!Started(ride) = Started(ride)
               /\ Ledger!Completed(ride) = Completed(ride)
               /\ Ledger!Cancelled(ride) = Cancelled(ride)
               /\ Ledger!CanAccept(ride) = CanAccept(ride)
  /\ \A ride, u : /\ Ledger!CanStart(ride, u) = CanStart(ride, u)
                  /\ Ledger!CanComplete(ride, u) = CanComplete(ride, u)
                  /\ Ledger!CanCancel(ride, u) = CanCancel(ride, u)
BY DEF Ledger!NoRide, Ledger!Ride, Ledger!NewRide, Ledger!Accepted, Ledger!Started,
   Ledger!Completed, Ledger!Cancelled, Ledger!CanAccept, Ledger!CanStart,
   Ledger!CanComplete, Ledger!CanCancel, Ledger!RideStatus, NoRide, Ride, NewRide,
   Accepted, Started, Completed, Cancelled, CanAccept, CanStart, CanComplete, CanCancel,
   RideStatus

\* The row a save writes over one the ride has had is a ledger successor of it.
LEMMA SavedIsSuccessor ==
  ASSUME NEW old, NEW user,
         NEW new,
         \/ CanAccept(old) /\ user \in Drivers /\ new = Accepted(old, user)
         \/ CanStart(old, user) /\ new = Started(old)
         \/ CanComplete(old, user) /\ new = Completed(old)
         \/ CanCancel(old, user) /\ new = Cancelled(old)
  PROVE  new \in Ledger!Successors(old)
<1>1. CanStart(old, user) => CanStart(old, old.driver)
  BY DEF CanStart
<1>2. CanComplete(old, user) => CanComplete(old, old.driver)
  BY DEF CanComplete
<1>3. CanCancel(old, user) => CanCancel(old, old.rider)
  BY DEF CanCancel
<1> QED BY <1>1, <1>2, <1>3, SameRows DEF Ledger!Successors

LEMMA SaveIsLedgerStep ==
  ASSUME Together, NEW t \in Threads, SaveRide(t)
  PROVE  Ledger!LedgerNext
<1> DEFINE q == req[t]
           row == RowToSave(q)
<1>1. /\ q.rid \in RideIds
      /\ rides' = [rides EXCEPT ![q.rid] = row]
      /\ past' = [past EXCEPT ![q.rid] = @ \cup {row}]
  BY SaveRideEffect DEF Together
<1>2. Ledger!Store(q.rid, row)
  BY <1>1 DEF Ledger!Store
<1>3. CASE q.op = "request"
  <2>1. q.user \in Riders /\ rides[q.rid] = NoRide /\ row = NewRide(q.user)
    BY <1>3, SaveRideEffect DEF Together
  <2> QED BY <1>1, <1>2, <2>1, SameRows DEF Ledger!LedgerNext, Ledger!Open
<1>4. CASE q.op # "request"
  <2>1. /\ q.row \in past[q.rid]
        /\ \/ /\ CanAccept(q.row) /\ q.user \in Drivers /\ row = Accepted(q.row, q.user)
              /\ PastDecision(t)
           \/ CanStart(q.row, q.user) /\ row = Started(q.row)
           \/ CanComplete(q.row, q.user) /\ row = Completed(q.row)
           \/ CanCancel(q.row, q.user) /\ row = Cancelled(q.row)
    BY <1>4, SaveRideEffect DEF Together
  <2>2. row \in Ledger!Successors(q.row)
    BY <2>1, SavedIsSuccessor
  <2>3. q.row \in Ride
    BY <1>1, <2>1 DEF Together, TypeOK
  <2>4. row.status = "MATCHED" => \A x \in past[q.rid] : x.status # "MATCHED"
    BY <2>1, <2>3, SuccessorStatus DEF Together, MatchInv, NoMatch
  <2> HIDE DEF row
  <2> QED BY <1>1, <1>2, <2>1, <2>2, <2>4 DEF Ledger!LedgerNext, Ledger!Overwrite
<1> QED BY <1>3, <1>4

\* In a server of one process, the ride table behaves like the ledger: a request
\* may overwrite what others wrote since it read, but it stores a legal
\* successor of a row the ride has had, and matches no ride twice.
THEOREM LedgerImplemented ==
  ASSUME SingleProcess
  PROVE  Spec => ImplementsLedger
<1>1. Init => Ledger!LedgerInit
  BY SameRows DEF Init, Ledger!LedgerInit
<1>2. Together /\ [Next]_vars => [Ledger!LedgerNext]_(Ledger!ledgerVars)
  <2> SUFFICES ASSUME Together, [Next]_vars
               PROVE  [Ledger!LedgerNext]_(Ledger!ledgerVars)
    OBVIOUS
  <2>1. CASE UNCHANGED vars
    BY <2>1 DEF vars, tables, Ledger!ledgerVars
  <2>2. ASSUME NEW t \in Threads, Arrive(t) \/ Step(t) \/ Fail(t), ~SaveRide(t)
        PROVE  UNCHANGED Ledger!ledgerVars
    BY <2>2, ArriveLocals, StepLocals DEF Together, Ledger!ledgerVars
  <2> QED BY <2>1, <2>2, SaveIsLedgerStep DEF Next, Rest
<1> QED BY <1>1, <1>2, TogetherCorrect, PTL DEF Spec, ImplementsLedger, Ledger!LedgerSpec

-----------------------------------------------------------------------------
(* What the ledger keeps. *)

\* A row that names a driver comes from the one MATCHED row of its ride.
MatchedBy(rows) ==
  /\ \A a, b \in rows : a.status = "MATCHED" /\ b.status = "MATCHED" => a = b
  /\ \A row \in rows : row.driver # None =>
       \E m \in rows : m.status = "MATCHED" /\ m.driver = row.driver

Recorded(rows, ride) ==
  /\ ride = NoRide => rows = {}
  /\ \A row \in rows : Ledger!RowShape(row)
  /\ MatchedBy(rows)

LedgerInv ==
  /\ Ledger!LedgerTypeOK
  /\ \A r \in RideIds : Recorded(past[r], rides[r])

\* A successor of a well-shaped row is one, and changes the driver only by
\* matching.
LEMMA SuccessorShape ==
  ASSUME NEW old \in Ride, Ledger!RowShape(old), NEW new \in Ledger!Successors(old)
  PROVE  /\ new \in Ride /\ Ledger!RowShape(new)
         /\ new.status \in {"MATCHED", "IN_PROGRESS", "COMPLETED", "CANCELLED"}
         /\ new.status = "MATCHED" => old.driver = None
         /\ new.status # "MATCHED" => new.driver = old.driver
<1>1. CASE CanAccept(old) /\ \E d \in Drivers : new = Accepted(old, d)
  <2>1. PICK d \in Drivers : new = Accepted(old, d)
    BY <1>1
  <2>2. old.status = "REQUESTED" /\ old.driver = None /\ old.version = 0 /\ old.fare = "null"
    BY <1>1 DEF CanAccept, Ledger!RowShape, Ride
  <2>3. new \in Ride
    BY <1>1, <2>1, SuccessorTypes
  <2>4. /\ new.status = "MATCHED" /\ new.driver = d /\ new.version = 1 /\ new.fare = "null"
    BY <2>1, <2>2 DEF Accepted, Ride
  <2>5. d # None
    BY Constants
  <2> QED BY <2>2, <2>3, <2>4, <2>5 DEF Ledger!RowShape
<1>2. CASE CanStart(old, old.driver) /\ new = Started(old)
  <2>1. old.status = "MATCHED" /\ old.driver # None /\ old.version = 1 /\ old.fare = "null"
    BY <1>2 DEF CanStart, Ledger!RowShape, Ride
  <2>2. new \in Ride
    BY <1>2, SuccessorTypes
  <2>3. /\ new.status = "IN_PROGRESS" /\ new.driver = old.driver
        /\ new.version = 2 /\ new.fare = "null"
    BY <1>2, <2>1 DEF Started, Ride
  <2> QED BY <2>1, <2>2, <2>3 DEF Ledger!RowShape
<1>3. CASE CanComplete(old, old.driver) /\ new = Completed(old)
  <2>1. old.status = "IN_PROGRESS" /\ old.driver # None /\ old.version = 2
    BY <1>3 DEF CanComplete, Ledger!RowShape, Ride
  <2>2. new \in Ride
    BY <1>3, SuccessorTypes
  <2>3. /\ new.status = "COMPLETED" /\ new.driver = old.driver
        /\ new.version = 3 /\ new.fare = "set"
    BY <1>3, <2>1 DEF Completed, Ride
  <2> QED BY <2>1, <2>2, <2>3 DEF Ledger!RowShape
<1>4. CASE CanCancel(old, old.rider) /\ new = Cancelled(old)
  <2>1. old.status # "COMPLETED" /\ old.fare = "null"
    BY <1>4 DEF CanCancel, Ledger!RowShape, Ride
  <2>2. new \in Ride
    BY <1>4, SuccessorTypes
  <2>3. new.status = "CANCELLED" /\ new.driver = old.driver /\ new.fare = "null"
    BY <1>4, <2>1 DEF Cancelled, Ride
  <2> QED BY <2>1, <2>2, <2>3 DEF Ledger!RowShape
<1> QED BY <1>1, <1>2, <1>3, <1>4, SameRows DEF Ledger!Successors

\* Adding a row to the history of a ride keeps the driver one and the same.
LEMMA MatchedByGrows ==
  ASSUME NEW rows, MatchedBy(rows), NEW old \in rows, NEW new,
         new.status = "MATCHED" => \A row \in rows : row.status # "MATCHED",
         new.status # "MATCHED" => new.driver = old.driver
  PROVE  MatchedBy(rows \cup {new})
BY DEF MatchedBy

\* What a ledger step writes: the first row of a ride, or a row that keeps its
\* driver or matches it for the first time.
LEMMA LedgerWrite ==
  ASSUME LedgerInv, NEW r \in RideIds, Ledger!Open(r) \/ Ledger!Overwrite(r)
  PROVE  \E new \in Ride :
           /\ rides' = [rides EXCEPT ![r] = new]
           /\ past' = [past EXCEPT ![r] = @ \cup {new}]
           /\ Recorded(past[r] \cup {new}, new)
           /\ new.status = "REQUESTED" => rides[r] = NoRide
<1>1. CASE Ledger!Open(r)
  <2>1. PICK u \in Riders : Ledger!Store(r, NewRide(u))
    BY <1>1, SameRows DEF Ledger!Open
  <2>2. rides[r] = NoRide
    BY <1>1, SameRows DEF Ledger!Open
  <2>3. NewRide(u) \in Ride
    BY DEF NewRide, Ride, RideStatus
  <2>4. Ledger!RowShape(NewRide(u)) /\ NewRide(u) # NoRide /\ NewRide(u).driver = None
    BY <2>3 DEF NewRide, Ledger!RowShape, NoRide, Ride, RideStatus
  <2>5. Recorded(past[r] \cup {NewRide(u)}, NewRide(u))
    BY <2>2, <2>4 DEF LedgerInv, Recorded, MatchedBy
  <2> QED BY <2>1, <2>2, <2>3, <2>5 DEF Ledger!Store
<1>2. CASE Ledger!Overwrite(r)
  <2>0. PICK old \in past[r] : \E x \in Ledger!Successors(old) :
          /\ x.status = "MATCHED" => \A row \in past[r] : row.status # "MATCHED"
          /\ Ledger!Store(r, x)
    BY <1>2 DEF Ledger!Overwrite
  <2>1. PICK new \in Ledger!Successors(old) :
          /\ new.status = "MATCHED" => \A row \in past[r] : row.status # "MATCHED"
          /\ Ledger!Store(r, new)
    BY <2>0
  <2>2. old \in Ride /\ Recorded(past[r], rides[r])
    BY SameRows DEF LedgerInv, Ledger!LedgerTypeOK
  <2>3. Ledger!RowShape(old)
    BY <2>2 DEF Recorded
  <2>4. /\ new \in Ride /\ Ledger!RowShape(new)
        /\ new.status \in {"MATCHED", "IN_PROGRESS", "COMPLETED", "CANCELLED"}
        /\ new.status # "MATCHED" => new.driver = old.driver
    BY <2>2, <2>3, SuccessorShape
  <2>5. MatchedBy(past[r] \cup {new})
    BY <2>1, <2>2, <2>4, MatchedByGrows DEF Recorded
  <2>6. new # NoRide
    BY <2>4 DEF NoRide, Ride, RideStatus
  <2>7. Recorded(past[r] \cup {new}, new)
    BY <2>2, <2>4, <2>5, <2>6 DEF Recorded
  <2> QED BY <2>1, <2>4, <2>7 DEF Ledger!Store
<1> QED BY <1>1, <1>2

LEMMA LedgerStep ==
  LedgerInv /\ [Ledger!LedgerNext]_(Ledger!ledgerVars) => LedgerInv'
<1> SUFFICES ASSUME LedgerInv, [Ledger!LedgerNext]_(Ledger!ledgerVars)
             PROVE  LedgerInv'
  OBVIOUS
<1>1. CASE UNCHANGED Ledger!ledgerVars
  BY <1>1 DEF Ledger!ledgerVars, LedgerInv, Ledger!LedgerTypeOK
<1>2. CASE Ledger!LedgerNext
  <2>1. PICK r \in RideIds : Ledger!Open(r) \/ Ledger!Overwrite(r)
    BY <1>2 DEF Ledger!LedgerNext
  <2>2. PICK new \in Ride :
           /\ rides' = [rides EXCEPT ![r] = new]
           /\ past' = [past EXCEPT ![r] = @ \cup {new}]
           /\ Recorded(past[r] \cup {new}, new)
    BY <2>1, LedgerWrite
  <2> QED BY <2>2, SameRows DEF LedgerInv, Ledger!LedgerTypeOK
<1> QED BY <1>1, <1>2

\* The ledger keeps its invariant.
LEMMA LedgerCorrect == Ledger!LedgerSpec => []LedgerInv
<1>1. Ledger!LedgerInit => LedgerInv
  BY SameRows DEF Ledger!LedgerInit, LedgerInv, Ledger!LedgerTypeOK, Recorded, MatchedBy
<1> QED BY <1>1, LedgerStep, PTL DEF Ledger!LedgerSpec

\* All rows a ride ever has that name a driver name the same one, however the
\* requests of riders and drivers overwrite each other.
THEOREM OneDriverCorrect ==
  ASSUME SingleProcess
  PROVE  Spec => []OneDriverPerRide
<1>1. LedgerInv => OneDriverPerRide
  BY DEF LedgerInv, Recorded, MatchedBy, OneDriverPerRide, Ledger!OneDriverPerRide
<1> QED BY <1>1, LedgerCorrect, LedgerImplemented, PTL DEF ImplementsLedger

\* Status, driver, fare and version of every row a ride ever has agree.
THEOREM ShapesCorrect ==
  ASSUME SingleProcess
  PROVE  Spec => []RowsWellShaped
<1>1. LedgerInv => RowsWellShaped
  BY DEF LedgerInv, Recorded, RowsWellShaped, Ledger!RowsWellShaped
<1> QED BY <1>1, LedgerCorrect, LedgerImplemented, PTL DEF ImplementsLedger

\* A ride that has left REQUESTED never returns to it.
THEOREM NeverReopenedCorrect ==
  ASSUME SingleProcess
  PROVE  Spec => NeverReopened
<1> DEFINE Stays == \A r \in RideIds :
             rides[r] # Ledger!NoRide /\ rides[r].status # "REQUESTED"
               => rides'[r] # Ledger!NoRide /\ rides'[r].status # "REQUESTED"
<1>1. LedgerInv /\ [Ledger!LedgerNext]_(Ledger!ledgerVars) => [Stays]_(Ledger!ledgerVars)
  <2> SUFFICES ASSUME LedgerInv, Ledger!LedgerNext PROVE Stays
    OBVIOUS
  <2>1. PICK r \in RideIds : Ledger!Open(r) \/ Ledger!Overwrite(r)
    BY DEF Ledger!LedgerNext
  <2>2. PICK new \in Ride :
           /\ rides' = [rides EXCEPT ![r] = new]
           /\ new.status = "REQUESTED" => rides[r] = NoRide
    BY <2>1, LedgerWrite
  <2>3. new # NoRide
    BY <2>2 DEF NoRide, Ride, RideStatus
  <2> QED BY <2>2, <2>3, SameRows DEF LedgerInv, Ledger!LedgerTypeOK
<1> QED
  BY <1>1, LedgerCorrect, LedgerImplemented, PTL
     DEF ImplementsLedger, Ledger!LedgerSpec, NeverReopened, Ledger!NeverReopened
=============================================================================

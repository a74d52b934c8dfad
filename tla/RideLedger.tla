----------------------------- MODULE RideLedger -----------------------------
(***************************************************************************)
(* What the ride table promises when requests overlap.                     *)
(*                                                                         *)
(* No write of the service layer compares versions: a request computes its *)
(* row from the row it read, and by the time it saves, the table may have  *)
(* moved on.  So the table does not follow the ride state machine; what it *)
(* keeps is weaker.  Every row ever stored is a legal successor of some    *)
(* row stored EARLIER (not necessarily the last), and a ride is matched to *)
(* a driver at most once, because accept_ride runs under a lock.           *)
(***************************************************************************)
EXTENDS RideDomain

CONSTANT RideIds

VARIABLES
  rides,  \* the current row of each ride
  past    \* every row each ride has ever had, the current one included

ledgerVars == <<rides, past>>

LedgerInit ==
  /\ rides = [r \in RideIds |-> NoRide]
  /\ past = [r \in RideIds |-> {}]

\* The rows a request may write, having read `ride`.
Successors(ride) ==
  (IF CanAccept(ride) THEN {Accepted(ride, d) : d \in Drivers} ELSE {})
    \cup (IF CanStart(ride, ride.driver) THEN {Started(ride)} ELSE {})
    \cup (IF CanComplete(ride, ride.driver) THEN {Completed(ride)} ELSE {})
    \cup (IF CanCancel(ride, ride.rider) THEN {Cancelled(ride)} ELSE {})

Store(r, ride) ==
  /\ rides' = [rides EXCEPT ![r] = ride]
  /\ past' = [past EXCEPT ![r] = @ \cup {ride}]

Open(r) ==
  /\ rides[r] = NoRide
  /\ \E u \in Riders : Store(r, NewRide(u))

Overwrite(r) ==
  \E old \in past[r] : \E new \in Successors(old) :
    /\ new.status = "MATCHED" => \A row \in past[r] : row.status # "MATCHED"
    /\ Store(r, new)

LedgerNext == \E r \in RideIds : Open(r) \/ Overwrite(r)

LedgerSpec == LedgerInit /\ [][LedgerNext]_ledgerVars

-----------------------------------------------------------------------------

LedgerTypeOK ==
  /\ rides \in [RideIds -> Ride \cup {NoRide}]
  /\ past \in [RideIds -> SUBSET Ride]

\* Who and what a row may be, given its status: the version counter of a ride
\* that was never cancelled is a function of its status alone.
RowShape(ride) ==
  /\ ride.status = "REQUESTED" => ride.driver = None /\ ride.version = 0
  /\ ride.status \in {"MATCHED", "IN_PROGRESS", "COMPLETED"} => ride.driver # None
  /\ ride.status = "MATCHED" => ride.version = 1
  /\ ride.status = "IN_PROGRESS" => ride.version = 2
  /\ ride.status = "COMPLETED" => ride.version = 3
  /\ (ride.fare = "set") <=> (ride.status = "COMPLETED")

\* Every row a ride ever had is well shaped: in particular no cancelled row
\* keeps a fare, whatever requests overlapped.
RowsWellShaped == \A r \in RideIds : \A row \in past[r] : RowShape(row)

\* All rows of one ride that name a driver name the same driver: no rider is
\* ever told of two different drivers for one ride.
OneDriverPerRide ==
  \A r \in RideIds : \A a, b \in past[r] :
    a.driver # None /\ b.driver # None => a.driver = b.driver

\* A ride that has left REQUESTED never returns to it, so it is never offered
\* to drivers a second time.
NeverReopened ==
  [][\A r \in RideIds :
       rides[r] # NoRide /\ rides[r].status # "REQUESTED"
         => rides'[r] # NoRide /\ rides'[r].status # "REQUESTED"]_ledgerVars
=============================================================================

----------------------------- MODULE RideDomain -----------------------------
(***************************************************************************)
(* The vocabulary of rides: the row the `rides` table holds for a ride,    *)
(* the guards the service layer puts in front of every transition, and     *)
(* the row each transition writes (dataclasses.replace in services.py).    *)
(*                                                                         *)
(* Coordinates, fares and timestamps are abstracted.  `fare` says whether  *)
(* the columns fare and completed_at are null; both are written together   *)
(* and only by complete_ride.                                              *)
(***************************************************************************)
EXTENDS Naturals

CONSTANTS
  Riders,    \* ids of the users who request rides
  Drivers,   \* ids of the users who hold a driver profile (may overlap Riders)
  None       \* Python's None

ASSUME DomainAssumption == None \notin Riders \cup Drivers

Users == Riders \cup Drivers

RideStatus == {"REQUESTED", "MATCHED", "IN_PROGRESS", "COMPLETED", "CANCELLED"}

ACTIVE_RIDE_STATUSES == {"REQUESTED", "MATCHED", "IN_PROGRESS"}

Ride == [rider   : Riders,
         driver  : Drivers \cup {None},
         status  : RideStatus,
         fare    : {"null", "set"},
         version : Nat]

\* What the table answers for an id it holds no row for.
NoRide == [status |-> "NONE"]

-----------------------------------------------------------------------------
(* The guard of each transition, on the row it has read. *)

CanAccept(ride) == ride.status = "REQUESTED"

CanStart(ride, user) ==
  /\ ride.status = "MATCHED"
  /\ ride.driver = user

\* Variant for the mutation runs: start_ride may be skipped.
CanCompleteUnstarted(ride, user) ==
  /\ ride.status \in {"MATCHED", "IN_PROGRESS"}
  /\ ride.driver = user

CanComplete(ride, user) ==
  /\ ride.status = "IN_PROGRESS"
  /\ ride.driver = user

\* A cancelled ride may be cancelled again: only two statuses are refused.
CanCancel(ride, user) ==
  /\ ride.status \in RideStatus \ {"IN_PROGRESS", "COMPLETED"}
  /\ user \in {ride.rider, ride.driver}

-----------------------------------------------------------------------------
(* The row each transition writes, computed from the row it has read. *)

NewRide(user) ==
  [rider |-> user, driver |-> None, status |-> "REQUESTED",
   fare |-> "null", version |-> 0]

Accepted(ride, user) ==
  [ride EXCEPT !.driver = user, !.status = "MATCHED", !.version = @ + 1]

Started(ride) == [ride EXCEPT !.status = "IN_PROGRESS", !.version = @ + 1]

Completed(ride) ==
  [ride EXCEPT !.status = "COMPLETED", !.fare = "set", !.version = @ + 1]

Cancelled(ride) == [ride EXCEPT !.status = "CANCELLED", !.version = @ + 1]
=============================================================================

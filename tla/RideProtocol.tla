---------------------------- MODULE RideProtocol ----------------------------
(***************************************************************************)
(* What the ride API promises to somebody who calls it one request at a    *)
(* time: a request takes effect at once and completely, or not at all.     *)
(***************************************************************************)
EXTENDS RideDomain

CONSTANT RideIds

VARIABLES
  rides,  \* the row of each id
  free    \* the drivers who may accept a ride

protocolVars == <<rides, free>>

ProtocolInit == rides = [r \in RideIds |-> NoRide] /\ free = {}

Put(r, ride) == rides' = [rides EXCEPT ![r] = ride]

Request(u, r) ==
  /\ rides[r] = NoRide
  /\ \A s \in RideIds : rides[s].status \in ACTIVE_RIDE_STATUSES => rides[s].rider # u
  /\ Put(r, NewRide(u))
  /\ UNCHANGED free

Accept(d, r) ==
  /\ CanAccept(rides[r]) /\ d \in free
  /\ Put(r, Accepted(rides[r], d))
  /\ free' = free \ {d}

Start(d, r) ==
  /\ CanStart(rides[r], d)
  /\ Put(r, Started(rides[r]))
  /\ UNCHANGED free

Complete(d, r) ==
  /\ CanComplete(rides[r], d)
  /\ Put(r, Completed(rides[r]))
  /\ free' = free \cup {d}

Cancel(u, r) ==
  /\ CanCancel(rides[r], u)
  /\ Put(r, Cancelled(rides[r]))
  /\ free' = free \cup ({rides[r].driver} \ {None})

GoOnline(d) == free' = free \cup {d} /\ UNCHANGED rides

GoOffline(d) == free' = free \ {d} /\ UNCHANGED rides

ProtocolNext ==
  \/ \E r \in RideIds :
       \/ \E u \in Riders : Request(u, r)
       \/ \E d \in Drivers : Accept(d, r) \/ Start(d, r) \/ Complete(d, r)
       \/ \E u \in Users : Cancel(u, r)
  \/ \E d \in Drivers : GoOnline(d) \/ GoOffline(d)

ProtocolSpec == ProtocolInit /\ [][ProtocolNext]_protocolVars
=============================================================================

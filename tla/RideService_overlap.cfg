SPECIFICATION Spec
CONSTANTS
  None = None
  t1 = t1
  t2 = t2
  t3 = t3
  p1 = p1
  Riders = {a}
  Drivers = {d, e}
  RideIds = {r, s}
  Threads = {t1, t2}
  Procs = {p1}
  ProcOf <- OneProcess
  Ops = {"request", "accept", "start", "complete", "cancel", "online", "offline", "rate"}
  MaxRequests = 7
  MaxFailures = 1
SYMMETRY MCSymmetry
INVARIANTS
  TypeOK
  LockHeldExactlyInAccept
  MatchedOnce
  AcceptOverwritesOnlyCancel
  AvailabilitySpentOnce
  EventsFollowRows
  OneDriverPerRide
  RowsWellShaped
PROPERTIES
  ImplementsLedger
  NeverReopened

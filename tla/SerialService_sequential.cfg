SPECIFICATION SerialSpec
CONSTANTS
  None = None
  t1 = t1
  p1 = p1
  Riders = {a, b}
  Drivers = {d, e}
  RideIds = {r, s}
  Threads = {t1}
  Procs = {p1}
  ProcOf <- OneProcess
  Ops = {"request", "accept", "start", "complete", "cancel", "online", "offline", "rate"}
  MaxRequests = 12
  MaxFailures = 0
SYMMETRY MCSymmetry
INVARIANTS
  OneActiveRidePerRider
  OnlineDriverIsFreeOrBusy
  MirrorAgrees
  DriverRidesAccounted
PROPERTIES
  FollowsLifeCycle
  ImplementsProtocol

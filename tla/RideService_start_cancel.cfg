SPECIFICATION Spec
CONSTANTS
  None = None
  t1 = t1
  t2 = t2
  t3 = t3
  p1 = p1
  Riders = {a}
  Drivers = {d}
  RideIds = {r}
  Threads = {t1, t2}
  Procs = {p1}
  ProcOf <- OneProcess
  Ops = {"request", "accept", "start", "cancel", "online"}
  MaxRequests = 6
  MaxFailures = 0
PROPERTIES
  InProgressNotCancelled

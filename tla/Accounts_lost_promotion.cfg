SPECIFICATION Spec
CONSTANTS
  Ids = {u, v}
  Names = {x, y}
  RideIds = {r}
  Scores = {5}
  Threads = {t1, t2}
  MaxRequests = 6
  MaxFailures = 0
PROPERTIES
  RoleIsPermanent

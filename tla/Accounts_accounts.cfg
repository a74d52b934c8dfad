SPECIFICATION Spec
CONSTANTS
  Ids = {u, v}
  Names = {x, y}
  RideIds = {r, s, q}
  Scores = {0, 4, 5}
  Threads = {t1, t2}
  MaxRequests = 5
  MaxFailures = 1
SYMMETRY MCSymmetry
INVARIANTS
  TypeOK
  TokenNamesOwner
  DriverTokenHasProfile
  AveragesOfRatings
  RatingsCounted
  ProfileMakesDriver

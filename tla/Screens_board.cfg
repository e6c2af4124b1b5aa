SPECIFICATION ScreensSpec
CONSTANTS
  Requests = {r1, r2}
  MaxAttempts = 1
  MaxNumber = 3
  MaxAsks = 3
  MaxOutages = 1
  GivenRoles = {"ADMIN", "WORKER"}
  Chosen <- MCChosen
  Posts = {p1}
  Viewers = {v1, v2}
  MaxRounds = 2
  MaxQueue = 1
  MaxFailures = 1
INVARIANTS
  RightsHold
  ScreensTellTruth
PROPERTIES
  OwnersGetIn
  NewsArrives
CHECK_DEADLOCK FALSE

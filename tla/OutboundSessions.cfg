SPECIFICATION FairSpec
CONSTANTS
  Routers = {r1, r2}
  NoRouter = none
  Messages = {m1}
  MaxConnected = 1
  IsServiceNode = TRUE
  MaxRequests = 3
  MaxJobs = 1
INVARIANTS SessionsTypeOK JobIsThere PendingIsDriven
PROPERTIES PendingEnds
CHECK_DEADLOCK FALSE

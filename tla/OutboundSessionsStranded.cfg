SPECIFICATION Spec
CONSTANTS
  Routers = {r1, r2}
  NoRouter = none
  Messages = {m1, m2}
  MaxConnected = 1
  IsServiceNode = TRUE
  MaxRequests = 3
  MaxJobs = 2
SYMMETRY SessionSymmetry
INVARIANT WaitingHasAttempt
CHECK_DEADLOCK FALSE

SPECIFICATION Spec
CONSTANTS
  Routers = {r1, r2}
  NoRouter = none
  Messages = {m1}
  MaxConnected = 1
  IsServiceNode = FALSE
  MaxRequests = 3
  MaxJobs = 2
SYMMETRY SessionSymmetry
INVARIANT UpperBoundHolds
CHECK_DEADLOCK FALSE

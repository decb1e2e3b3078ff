\* Three threads, one cell: blocking pushes and pops.
SPECIFICATION QueueSpec
CONSTANTS
  t1 = t1
  t2 = t2
  t3 = t3
  NoItem = NoItem
  Threads = {t1, t2, t3}
  Capacity = 1
  NumGenerations = 8
  StartIndex = 7
  MaxCalls = 3
  Ops = {"pushBack", "popFront", "tryPopFront", "popFrontWithTimeout", "removeAll", "disable", "enable", "tryPushBack"}
SYMMETRY QueueSymmetry
INVARIANTS
  QueueTypeOK
  NoLostWakeup
  NoOrphanCell
  AssertsHold
CHECK_DEADLOCK FALSE

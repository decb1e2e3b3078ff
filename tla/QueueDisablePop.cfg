\* A popper against a push that races disable().
SPECIFICATION QueueSpec
CONSTANTS
  t1 = t1
  t2 = t2
  t3 = t3
  NoItem = NoItem
  Threads = {t1, t2, t3}
  Capacity = 1
  NumGenerations = 8
  StartIndex = 7
  MaxCalls = 3
  Ops = {"pushBack", "popFront", "disable"}
SYMMETRY QueueSymmetry
INVARIANT
  PopFrontFindsElements
CHECK_DEADLOCK FALSE

\* Two threads on two cells whose generation is about to wrap, a reference FIFO beside them.
SPECIFICATION QMSpec
CONSTANTS
  t1 = t1
  t2 = t2

  NoItem = NoItem
  Threads = {t1, t2}
  Capacity = 2
  NumGenerations = 8
  StartIndex = 14
  MaxCalls = 4
INVARIANTS
  TypeOK
  CellOwnership
PROPERTIES
  ImplementsFifo
  ReturnsAreTrue
CHECK_DEADLOCK FALSE

SPECIFICATION Spec
CONSTANTS
  p1 = p1
  p2 = p2
  Paths = {p1, p2}
  Zero = zero
  Messages <- SomeMessages
  MaxOutbound = 3
  MaxPathQueue = 2
  MaxPerTick = 1
  DecayTicks = 2
INVARIANT RemovedStaysRemoved
ACTION_CONSTRAINT OnlyBacklog

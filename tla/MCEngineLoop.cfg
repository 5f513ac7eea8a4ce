\* Four moves, a queue of two, a budget argument of zero, one failed write.
CONSTANTS
  None = None
  Producer = Producer
  Engine = Engine
  Capacity = 2
  MaxPerTick = 0
  MaxMoves = 4
  MaxFaults = 1
SPECIFICATION Spec
INVARIANTS
  EventsAccountedFor
PROPERTIES
  QueuedIsHandled
  DatabaseCatchesUp
CHECK_DEADLOCK FALSE

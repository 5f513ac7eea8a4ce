\* Awaiting and try operations on a ring of two slots.
CONSTANTS
  None = None
  p1 = p1
  c1 = c1
  c2 = c2
  e1 = e1
  e2 = e2
  Capacity = 2
  Events = {e1, e2}
  Tasks = {p1, c1, c2}
  Ops <- MixedOps
SPECIFICATION FairSpec
INVARIANTS
  WindowOccupied
  NoLostWakeup
PROPERTIES
  ImplementsFifo
  SleeperWakes

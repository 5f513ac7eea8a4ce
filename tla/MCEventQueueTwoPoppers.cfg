\* Two tasks await pop() on the same queue.
CONSTANTS
  None = None
  p1 = p1
  c1 = c1
  c2 = c2
  e1 = e1
  e2 = e2
  Capacity = 2
  Events = {e1}
  Tasks = {p1, c1, c2}
  Ops <- TwoPoppersOps
SPECIFICATION FairSpec
PROPERTIES
  SleeperWakes
CHECK_DEADLOCK FALSE

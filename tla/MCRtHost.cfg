SPECIFICATION Spec
CONSTANTS
  EventCap = 2
  Thresholds = {0, 2}
  Positions <- MCPositions
  Offset = 4
  Unit = 2
  Threshold = 2
  MaxWrites = 2
  MaxStores = 1
PROPERTIES DisabledIsInert SpeedSettles PositionCatchesUp

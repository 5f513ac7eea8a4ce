SPECIFICATION Spec
CONSTANTS
  QueueCap = 2
  Callers = {c1}
  MaxRows = 2
  MaxSets = 2
  None = None
INVARIANTS TypeOK RowsAccountedFor OnlyDelayedOvertaken ReadsOwnWrites
PROPERTIES CallsAnswered 
CHECK_DEADLOCK FALSE

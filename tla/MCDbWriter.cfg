\* One slot, batches of two, a restart, a cloned sender, four operations.
CONSTANTS
  Clients = {c1}
  Capacity = 1
  BatchSize = 2
  MaxStarts = 2
  MaxOps = 4
SPECIFICATION FairSpec
INVARIANTS
  OpsAccountedFor
  BatchBelowSize
  OneWorkerServes
PROPERTIES
  WorkersEnd
  SendersReleased
CHECK_DEADLOCK FALSE

\* Two clients and the prewarm task on two permits, two connections.
CONSTANTS
  None = None
  Clients = {c1, c2}
  MaxSize = 2
  MinSize = 1
  MaxConns = 2
SPECIFICATION FairSpec
INVARIANTS
  PermitsAccountedFor
  OneOwner
  NoStateLeaks

  
CHECK_DEADLOCK FALSE

SPECIFICATION FairSpec
CONSTANTS
  Requests = {r1, r2, r3}
  None = None
INVARIANTS
  LocksInOrder
PROPERTIES
  BridgeServes
CHECK_DEADLOCK FALSE

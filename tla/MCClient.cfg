SPECIFICATION FairSpec
CONSTANTS
  r1 = r1
  r2 = r2
  t1 = t1
  t2 = t2
  NoSample = NoSample
  NoThread = NoThread
  Samples <- MCRequests
  Disposed = {}
  Tids <- MCTids
  Typed <- MCTyped
  MaxPeers = 1
  MaxJoins = 1
INVARIANTS
  TypeOK
  OwnRequestAsked
  RepliesMatch
  TypesForgotten
  StopsOnlyWhere
PROPERTIES
  RequestsProcessed
  ImplementsRelay
CHECK_DEADLOCK FALSE

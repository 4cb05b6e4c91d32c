SPECIFICATION Spec
CONSTANTS
  c1 = c1
  c2 = c2
  r1 = r1
  r2 = r2
  r3 = r3
  t1 = t1
  t2 = t2
  t3 = t3
  NoSample = NoSample
  NoThread = NoThread
  Foreign = Foreign
  Calls <- MCCalls
  Typed <- MCTyped
  Samples <- MCReplies
  RelatedTo <- MCRelatedTo
  Tids <- MCTids
  Disposed = {}
  MaxPeers = 1
  MaxJoins = 1
INVARIANTS
  TypeOK
  BufferOwnership
  MapsLocked
  MapsCoherent
  NothingRunsOnDeleted
  StopsOnlyWhere
PROPERTIES
  NoReplyLost
  ImplementsCallReply
SYMMETRY MCSymmetry
CHECK_DEADLOCK FALSE

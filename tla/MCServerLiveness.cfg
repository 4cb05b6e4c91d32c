SPECIFICATION FairSpec
CONSTANTS
  c1 = c1
  c2 = c2
  r1 = r1
  r2 = r2
  r3 = r3
  t1 = t1
  t2 = t2
  t3 = t3
  NoSample = NoSample
  NoThread = NoThread
  Foreign = Foreign
  Calls <- MCFewCalls
  Typed <- MCTyped
  Samples <- MCReplies
  RelatedTo <- MCRelatedTo
  Tids <- MCFewTids
  Disposed <- MCFewDisposed
  MaxPeers = 1
  MaxJoins = 1
PROPERTIES
  CallsReturn
  RepliesProcessed
CHECK_DEADLOCK FALSE

SPECIFICATION FairSpec
CONSTANTS
  s1 = s1
  s2 = s2
  s3 = s3
  t1 = t1
  t2 = t2
  t3 = t3
  NoSample = NoSample
  NoThread = NoThread
  Samples <- MCSamples
  Disposed <- MCDisposed
  Tids <- MCTids
PROPERTIES
  WaitForMessagesEnds
CHECK_DEADLOCK FALSE

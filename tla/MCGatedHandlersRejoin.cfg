SPECIFICATION Spec
CONSTANTS
  h1 = h1
  h2 = h2
  h3 = h3
  Handlers <- MCHandlers
  MaxPeers = 1
  MaxJoins = 2
INVARIANTS
  OneInside
CHECK_DEADLOCK FALSE

SPECIFICATION Spec
CONSTANTS
  h1 = h1
  h2 = h2
  h3 = h3
  Handlers <- MCHandlers
  MaxPeers = 1
  MaxJoins = 3
PROPERTIES
  HeldUntilBothMatched
CHECK_DEADLOCK FALSE

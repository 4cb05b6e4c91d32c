SPECIFICATION Spec
CONSTANTS
  c1 = c1
  c2 = c2
  c3 = c3
  None = None
  Calls <- MCCalls
  Types <- MCTypes
  Messages <- MCMessages
INVARIANTS
  MessagesArriveIntact
SYMMETRY Symmetry
CHECK_DEADLOCK FALSE

SPECIFICATION Spec
CONSTANTS
  c1 = c1
  c2 = c2
  ma = ma
  mb = mb
  mc = mc
  None = None
  Calls <- MCCalls
  Services <- MCServices
  Bare <- MCBare
INVARIANTS
  TypeOK
  RequestsReachTheirCallback
  CallersGetTheirReply
  UndefinedOnlyWhere
SYMMETRY Symmetry
CHECK_DEADLOCK FALSE

CONSTANTS
  Commands <- GateAsNextState
  Grow = 0
  ClauseLim = 20
SPECIFICATION Spec
INVARIANT LoadsTransitionRelation
CHECK_DEADLOCK FALSE

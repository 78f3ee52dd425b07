CONSTANTS
  Literals = {"a", "b"}
  MaxStates = 4
SPECIFICATION Spec
INVARIANT NextStateIsFree
PROPERTY ImplementsPool

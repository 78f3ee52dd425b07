CONSTANTS
  Commands <- AllCommands
  Grow = 0
  ClauseLim = 20
SPECIFICATION Spec
INVARIANTS
  ModelIsTheFile
  VariablesStayAligned
  RelationIsLoaded
CHECK_DEADLOCK FALSE

CONSTANTS
  Clause <- MCClause
  FrozenSets <- MCFrozenSets
  Grow = 0
  ClauseLim = 20
SPECIFICATION Spec
INVARIANTS
  SolutionsAreKept
  SubsumptionComplete
PROPERTY Progress
CHECK_DEADLOCK FALSE

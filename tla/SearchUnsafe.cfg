CONSTANTS
  Latch = {"a", "b", "c"}
  Inputs = {1, 2}
  InitLits <- AllZero
  Constrained = FALSE
  Nxt <- TraceNext
  Err <- TraceError
  Con <- Always
  MaxDepth = 1
  MaxCTGs = 1
  MaxJoins = 1
  MicAttempts = 2
SPECIFICATION FairSpec
INVARIANTS
  SearchStaysDefined
  GeneralizedCubesAreInductive
  ObligationsAreInOrder
  VerdictIsRight
  WitnessReplays
PROPERTY FollowsDiscipline

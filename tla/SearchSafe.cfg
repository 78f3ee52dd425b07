CONSTANTS
  Latch = {"a", "b", "c"}
  Inputs = {1}
  InitLits <- AllZero
  Constrained = TRUE
  Nxt <- ForbiddenNext
  Err <- ForbiddenError
  Con <- ForbiddenConstraint
  MaxDepth = 1
  MaxCTGs = 3
  MaxJoins = 1048576
  MicAttempts = 3
SPECIFICATION FairSpec
INVARIANTS
  FrameInvariants
  VerdictIsRight
PROPERTY EverySearchEnds

CONSTANTS
  Latch = {"a", "b", "c"}
  Inputs = {0, 1}
  InitLits <- InputReset
  Constrained = TRUE
  Nxt <- InputNext
  Err <- InputError
  Con <- InputConstraint
  MaxDepth = 1
  MaxCTGs = 3
  MaxJoins = 1048576
  MicAttempts = 3
SPECIFICATION FairSpec
INVARIANT VerdictOnInputIsRight

CONSTANTS
  MaxVars = 7
  RestartFirst = 1
  MaxRestarts = 3
  Interrupts = 0
  Names <- NamesMC
  Scripts <- ReuseMC
SPECIFICATION Spec
INVARIANT AssertionsHold
CHECK_DEADLOCK FALSE

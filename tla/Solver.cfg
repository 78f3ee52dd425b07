CONSTANTS
  MaxVars = 7
  RestartFirst = 1
  MaxRestarts = 3
  Interrupts = 1
  Names <- NamesMC
  Scripts <- ScriptsMC
SPECIFICATION Spec
INVARIANTS
  TablesAgree
  LearningIsSound
  DerivedIsRight
PROPERTIES SearchAdvances AnswersRight
CHECK_DEADLOCK FALSE

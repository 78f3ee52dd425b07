CONSTANTS
  Setups <- SetupsMC
  AsciiFiles = {"result.aag"}
  Backup <- BackupMC
  Executable <- ExecutableMC
  ReadError = 1
  MaxDepth = 2
SPECIFICATION Spec
INVARIANTS
  FilesKeepTheirMeaning
  PropertiesAreKept
  BehaviourIsKept
  DstKeepsFailing
  ProgramIsRead
  TranslationKeepsMeaning
PROPERTIES EveryProgramEnds
CHECK_DEADLOCK FALSE

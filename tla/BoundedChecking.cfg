CONSTANT Setups <- SetupsMC
SPECIFICATION Spec
INVARIANTS
  ExpansionIsExact
  WitnessIsValid
  WitnessesAreShown
  SimulationIsExact
PROPERTIES ImplementsSearch EveryCheckEnds
CHECK_DEADLOCK FALSE

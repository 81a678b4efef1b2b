SPECIFICATION Spec
CONSTANT MaxGen <- MCMaxGen
INVARIANTS
  StopLosesNothing
  OneGenerationBack
  HealthTellsRewind
PROPERTIES
  ImplementsCell

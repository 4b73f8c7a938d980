SPECIFICATION Spec
CONSTANTS
  Inputs <- MCInputs
  Exit <- MCExit
  Verdicts <- MCVerdicts
  PILOT_PULSES = 4
  MIN_PILOT = 3
INVARIANTS
  TapesReadBack
  SourcesAreRead
  PackagesAreSafe
  BuildIsSafe
  SourcesAreLegal
  ProductionCasesHold
CHECK_DEADLOCK FALSE

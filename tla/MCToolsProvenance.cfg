SPECIFICATION Spec
CONSTANTS
  Inputs <- MCInputs
  Exit <- MCExit
  Verdicts <- MCVerdicts
  PILOT_PULSES = 4
  MIN_PILOT = 3
INVARIANT EveryRunIsListed
CHECK_DEADLOCK FALSE

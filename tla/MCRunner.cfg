SPECIFICATION Spec
CONSTANTS
  Cfgs = {"enhanced"}
  PerCfg = 2
  Ids <- MCIds
  Kind <- MCKind
  NotFor <- MCNotFor
  Known <- MCKnown
  MaxFaults = 2
INVARIANTS TypeOK OneRecordPerCase ExitZeroIsEarned NothingLeftRunning
PROPERTIES MainEnds

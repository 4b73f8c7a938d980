SPECIFICATION Spec
CONSTANTS
  Pool <- MCPool
  Seeds <- MCSeeds
  Scripts <- MCScripts
  Ranges <- MCRanges
  LineCount = 4
  Entries = {0}
  MaxSteps = 3
  MaxRuns = 2
  MaxBlock = 4
  Trap = 65536
INVARIANT TypeOK
PROPERTY HonoursZ80
PROPERTY RunsEnd
CHECK_DEADLOCK FALSE

SPECIFICATION Spec
CONSTANTS
  POOL = 22
  CODE = 12
  SEG2 = 23
  MODE1 = 10
  TABLES = 6
  LINE = 4
  FUEL = 10
  ZONE = 3
  OPS = 2
  TAIL = 4
  WINDOW = 4
  PROGS <- MCProgs
  SAYS <- MCSays
  KEYS <- MCKeys
  CASSETTES <- MCCassettes
INVARIANTS SessionSound FailedLoadSafe RoundTrip VerifyHonest
PROPERTY StoreOnlyBy

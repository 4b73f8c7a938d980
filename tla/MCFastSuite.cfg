SPECIFICATION Spec
CONSTANTS
  Fixtures <- MCFixtures
  RUN_STATE_TEST = {}
  RAM_EXTENSION_BIN = {"fill", "gfx4", "hit_new_clear"}
  RAM_EXTENSION_CLEAR = {"hit_new_clear"}
  Needs = {"gfx4", "hit_new_clear", "hit_unloaded"}
  Oversized = {"fill"}
  EXPECTED_CYAN = {"err1"}
  EXPECTED_RED = {}
  EXPECTED_BLACK = {"hit_new_clear", "hit_unloaded"}
  MaxFaults = 1
INVARIANTS VerdictIsItsOwn ZeroMeansAllPassed

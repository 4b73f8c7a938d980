SPECIFICATION Spec
CONSTANTS
  PROG_AREA_START = 4
  V2_SOURCE_END = 14
  ARR2_BASE = 1
  SECOND_DISPLAY_ADDR = 3
  ARR2_LIMIT = 4
  SESS_GAP = 1
  LineLens = {1}
  SymBytes = {0, 1}
  TEMP_BYTES = 1
  TableBytes = {0, 1}
  ArrayBytes = {1, 2}
  FrameBytes = {1}
  ProgLens = {0, 4, 11}
  TapeSessions <- MCTapes
  BreakMidStart = FALSE
INVARIANTS TypeOK SessionInv SegmentTwo
PROPERTY HonoursContract

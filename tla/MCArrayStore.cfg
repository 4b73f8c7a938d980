SPECIFICATION Spec
CONSTANTS
  ARR2_BASE = 1
  ARR2_LIMIT = 8
  ArenaBase = 9
  VM_CSP = 13
  V2_CODE_LIMIT = 14
  Names = {a, b}
  Sizes = {1, 2}
  Values = {0, 1}
  BreakInStatement = TRUE
INVARIANTS TypeOK StoreSound SlotsSound
PROPERTIES StoreNeverMoves DimZeroFills HonoursMap

CONSTANTS
  W = 6
  Shifts <- MCShifts
  KEY_MAX_LEN = 5
  HashModulus = 64
  Chars = {1, 32}
  LenMax = 7
SPECIFICATION Spec
INVARIANTS RoundsUp TestIsExact MaskIsModulo ComparesWithinBlocks MatchIsExact
CHECK_DEADLOCK FALSE

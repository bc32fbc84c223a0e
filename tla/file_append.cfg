SPECIFICATION Spec
CONSTANTS
  BLOCK_SIZE = 3
  NDIRECT = 2
  PER_INDEX = 2
  USHORT = 65536
  SIZE_MOD = 8193
  MaxChars = 4
  MaxKills = 1
INVARIANT WriteAppends
CHECK_DEADLOCK FALSE

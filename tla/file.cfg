SPECIFICATION Spec
CONSTANTS
  BLOCK_SIZE = 3
  NDIRECT = 2
  PER_INDEX = 2
  USHORT = 65536
  SIZE_MOD = 8193
  MaxChars = 17
  MaxKills = 1
INVARIANT ReadShowsText
INVARIANT RootIntact
PROPERTY StartsAtLast
PROPERTY BlocksAppend
PROPERTY QuitEnds
CHECK_DEADLOCK FALSE

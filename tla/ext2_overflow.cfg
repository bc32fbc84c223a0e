SPECIFICATION Spec
CONSTANTS
  s1 = s1
  l1 = l1
  l2 = l2
  l3 = l3
  FileBytes <- fileBytes
  BLOCK_SIZE = 512
  DIR_ENTRY_BYTES = 262
  INODE_COUNT = 4
  DATA_BLOCK_COUNT = 3
  NDIRECT = 2
  INODES_PER_BLOCK = 8
  SIZE_MOD = 8192
  Names <- longNames
  NameLen <- longNamesLen
  ExecNames = {}
  DotNames = {}
  FOPEN_TABLE_MAX = 0
  WriteLens = {}
  Perms = {}
  MaxCrashes = 1
  FormatKilled = FALSE
  Tolerated = {}
SYMMETRY SameLength
INVARIANT ReachableIsAllocated
INVARIANT BlocksOwnedOnce
INVARIANT TreeShape
INVARIANT NeverLost
INVARIANT SizesMatch
PROPERTY ChangesOneName

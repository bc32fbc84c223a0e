SPECIFICATION OpsSpec
CONSTANTS
  a = a
  b = b
  k = k
  l = l
  FileBytes <- fileBytes
  BLOCK_SIZE = 512
  DIR_ENTRY_BYTES = 262
  INODE_COUNT = 3
  Names <- mcNames
  NameLen <- mcNameLen
  Inodes = {2}
  SpareGaps = TRUE
  SpareFirst = TRUE
INVARIANT EntriesTile
PROPERTY ImplementsDirNames
SYMMETRY SameLength

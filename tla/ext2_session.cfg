SPECIFICATION Spec
CONSTANTS
  s1 = s1
  l1 = l1
  l2 = l2
  l3 = l3
  FileBytes <- fileBytes
  BLOCK_SIZE = 512
  DIR_ENTRY_BYTES = 262
  INODE_COUNT = 3
  DATA_BLOCK_COUNT = 3
  NDIRECT = 2
  INODES_PER_BLOCK = 8
  SIZE_MOD = 8192
  Names <- oneName
  NameLen <- oneNameLen
  ExecNames = {}
  DotNames = {}
  FOPEN_TABLE_MAX = 1
  WriteLens = {1, 512}
  Perms = {4}
  MaxCrashes = 1
  FormatKilled = TRUE
  Tolerated = {"cut", "open_dir_removed"}
INVARIANT TypeOK
INVARIANT CurrentDirLive
INVARIANT OpenIsAllocated
INVARIANT NothingLeaks
INVARIANT DirsCounted
INVARIANT ReachableIsAllocated
INVARIANT NoDoubleFree
INVARIANT DriftBounded

SPECIFICATION Spec
CONSTANTS
  INODE_COUNT = 8
  Values = {1, 2}
INVARIANT AllReadBack

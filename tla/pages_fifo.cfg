SPECIFICATION Spec
CONSTANTS
  Pages = {0, 1, 2, 3, 4, 5}
  MAX_FRAMES = 4
  Length = 7
  Sequences <- mcSequences
PROPERTY FifoEvictsOldest

SPECIFICATION Spec
CONSTANTS
  WRITES = 4
  TO_READ = 8
  PIPE_SIZE = 8
INVARIANT RunsApart
INVARIANT ReadsAll
INVARIANT HasReader
PROPERTY Terminates
CHECK_DEADLOCK FALSE

SPECIFICATION Spec
CONSTANTS
  ROUNDS = 4
  STEP = 100
INVARIANT MutualExclusion
INVARIANT CountExact
INVARIANT LossBounded
PROPERTY Terminates

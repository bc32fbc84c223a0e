SPECIFICATION Spec
CONSTANT MaxKeys = 2
INVARIANT ParentLast
INVARIANT SendsBoth
INVARIANT SaidWhy
PROPERTY EndsUnlessLost
CHECK_DEADLOCK FALSE

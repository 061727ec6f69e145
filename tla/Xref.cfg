CONSTANT Files <- AllFiles
SPECIFICATION Spec
INVARIANTS
  InBounds
  NewestWins
  NoOverflow
PROPERTIES
  ImplementsChain
  LoadingEnds
CHECK_DEADLOCK FALSE

CONSTANTS
  Size = 4
  MaxDeref = 4
  Values = {"a", "b", "c"}
  Files <- MCFiles
SPECIFICATION Spec
INVARIANTS
  OwnedOnce
  GetsWhatTheFileHas
  DerefFollows
PROPERTIES
  StaysLoaded
  DerefEnds
CHECK_DEADLOCK FALSE

CONSTANTS
  Size = 4
  MaxDeref = 4
  Values = {"a", "b", "c"}
  Files <- MCFiles
SPECIFICATION Spec
INVARIANT NullIfNotFound
CHECK_DEADLOCK FALSE

CONSTANTS
  Objs = {o1, o2, o3, o4}
  Nums <- MCNums
  Sizes <- MCSizes
SPECIFICATION Spec
INVARIANTS
  TypeOK
  Sorted
  CountIsLength
  NextNumberIsFresh
  Ownership
PROPERTIES
  NothingLost
  ImplementsMap

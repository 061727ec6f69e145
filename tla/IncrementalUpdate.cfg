CONSTANTS
  Objs = {o1, o2}
  v1 = v1
  v2 = v2
  Vals = {v1, v2}
  None = None
  MaxNum = 4
  MaxItems = 6
  Originals <- MCAllOriginals
  Outputs = {"copy", "append"}
SPECIFICATION Spec
INVARIANTS
  TypeOK
  OpenShowsFile
  NextNumberIsUnused
  NeverOverflows
  EntriesPointHome
PROPERTY ImplementsStore
SYMMETRY Symmetry
CHECK_DEADLOCK FALSE

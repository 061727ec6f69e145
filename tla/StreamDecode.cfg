SPECIFICATION StreamSpec
CONSTANTS
  Keys = {"/Filter", "/DecodeParms", "/Other"}
  EditKeys = {"/Filter", "/DecodeParms"}
  CellCount = 4
  Contents <- MCContents
  ParsedDicts <- MCParsedDicts
  FreshCap = 1
  Null = Null
  Junk = Junk
  Free = Free
  NoMap = NoMap
  BufLen = 4
  MaxRetry = 1
  ByteRange = 4
  Meanings <- MCMeanings
INVARIANTS
  TypeOK
  ValueOwnedOnce
  MissingIsNull
  DecodesRight
  OneBufferLeft
PROPERTY ImplementsMap
CHECK_DEADLOCK FALSE

SPECIFICATION OpeningSpec
CONSTANTS
  Ints <- MCInts
  IntValue <- MCIntValue
  MaxNest = 4
  Texts <- MCTexts
  Letters = {"a", "b", "c", "d", "e", "f", "i", "j", "l", "m", "n", "o", "r", "s", "t", "u", "x", "A", "E", "F", "L", "O", "P", "R"}
  BufSize = 9
  Window = 25
  Files <- MCFiles
  Junk = {}
  Kinds = {"any", "tokens", "object"}
INVARIANTS
  TypeOK
  NothingLost
  ReadsTokens
  WrittenReadsBack
  OpensWhereWritten
CHECK_DEADLOCK FALSE

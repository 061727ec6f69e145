CONSTANTS
  Ints <- MCInts
  IntValue <- MCIntValue
  Slack <- MCSlack
  Converted <- MCConverted
  Inputs <- AllInputs
  Objects <- AllObjects
  MaxNest = 6
  Targets <- MCTargets
SPECIFICATION ReadOrAdd
INVARIANTS
  TypeOK
  ReadsBack
  KnowsOpenBrackets
  FileReadsFirst
  BufferReadsFirst
PROPERTY CleanAfterObject
CHECK_DEADLOCK FALSE

CONSTANTS
  Ints <- MCInts
  IntValue <- MCIntValue
  Slack <- MCSlack
  Converted <- MCConverted
  Inputs <- MCInputs
  Objects <- MCObjects
  MaxNest = 6
SPECIFICATION Spec
INVARIANT LeavesAsWritten
CHECK_DEADLOCK FALSE

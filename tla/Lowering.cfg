SPECIFICATION LSpec
CONSTANTS
  NumBlocks = 8
  Place = {x}
  MaxOps = 5
  MaxNodes = 6
  DefaultFlow = FALSE
  ConditionCase = FALSE
INVARIANT LoweredRight
CHECK_DEADLOCK FALSE

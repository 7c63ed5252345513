CONSTANTS
  MaxCalls = 4
  Lengths = {2, 4}
  Block = 3
  MaxFrame = 2
  MaxUnasked = 0
SPECIFICATION ClientSpec
INVARIANT OwnAnswer
CHECK_DEADLOCK FALSE

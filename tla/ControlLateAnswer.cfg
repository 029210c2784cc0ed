\* A call that times out, and another one on the same Client.
SPECIFICATION Spec
CONSTANTS
  MaxCalls = 2
  WireBuffer = 2
INVARIANT AnswersMatch
CHECK_DEADLOCK FALSE

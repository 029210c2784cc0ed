SPECIFICATION FairSpec
CONSTANTS
  MaxCalls = 3
  WireBuffer = 1
INVARIANTS TypeOK OnlyLateAnswersStray OnlyWholeRequestsRun
PROPERTY CallsReturn
CHECK_DEADLOCK FALSE

SPECIFICATION FairSpec
CONSTANTS
  Queue = 1
  TtyBuffer = 1
  MaxAnswers = 3
  MaxInputs = 1
INVARIANT InputArrivesWhole
PROPERTIES RudeChildFreezesNobody CloseEndsTheGoroutines
CHECK_DEADLOCK FALSE

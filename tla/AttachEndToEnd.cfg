\* A child that reads its input; a client that reads, types, states a size, leaves.
SPECIFICATION FairInteractive
CONSTANTS
  SubBuffer = 1
  WireBuffer = 1
  ClientBuffer = 1
  MaxVersion = 2
  MaxInputs = 1
  MaxResizes = 1
INVARIANTS TypeOK InTerminalOrder ExitIsLast ResultIsHonest
PROPERTIES HangUpRetires WrittenIsShown WatchersLearnOfTheExit InteractiveReturns
CHECK_DEADLOCK FALSE

\* A spawn racing Remove, Close, its own goroutines and a feed that may overrun.
SPECIFICATION FairSpec
CONSTANTS
  Sessions = {a}
  Feeds = {f}
  FeedBuffer = 2
  MaxActivity = 3
INVARIANTS TypeOK SpawnedBeforeActivity FeedsHaveNoGaps NoOrphanSession
PROPERTIES CloseReapsEverySession FeedsEndWithTheEngine GatesOpen
CHECK_DEADLOCK FALSE

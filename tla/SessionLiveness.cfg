\* One viewer, with enough output and statements to owe it state and to move the terminal
\* and back, and a channel that holds deltas behind the message the last call evicts.
SPECIFICATION FairSpec
CONSTANTS
  Subs = {s1}
  Sizes = {spawned, other}
  SpawnSize = spawned
  NoSize = NoSize
  Buffer = 2
  MaxVersion = 4
  MaxSeq = 2
INVARIANT GapsHeal
PROPERTIES OwedStateArrives TerminalSettles LockIsReleased
CHECK_DEADLOCK FALSE

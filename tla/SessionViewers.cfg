\* Two viewers and the control plane: streams, resyncs and the terminal's size.
SPECIFICATION Spec
CONSTANTS
  Subs = {s1, s2}
  Sizes = {spawned, other}
  SpawnSize = spawned
  NoSize = NoSize
  Buffer = 1
  MaxVersion = 1
  MaxSeq = 2
SYMMETRY SubsSymmetry
INVARIANTS TypeOK ReplicaConverges DebtIsScheduled SizeFollowsStatements StatementsHaveOwners
CHECK_DEADLOCK FALSE

\* Writers that read the revision first, as an embedding program does, and
\* unconditional overwrites between them.
SPECIFICATION Spec
CONSTANTS
  Writers = {w1, w2, w3}
  RevisionFirst = {w1, w2, w3}
  MaxRevision = 4
INVARIANTS TypeOK NoLostUpdate
PROPERTY LandsOnWhatItRead
CHECK_DEADLOCK FALSE

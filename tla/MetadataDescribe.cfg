\* Two clients that read a session through the server's describe.
SPECIFICATION Spec
CONSTANTS
  Writers = {c1, c2}
  RevisionFirst = {}
  MaxRevision = 4
INVARIANT NoLostUpdate
CHECK_DEADLOCK FALSE

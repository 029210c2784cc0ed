SPECIFICATION Spec
CONSTANTS
  a = a
  b = b
  NoDaemon = NoDaemon
  Callers = {a, b}
INVARIANT OneDaemon
CHECK_DEADLOCK FALSE

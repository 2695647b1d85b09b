SPECIFICATION Spec
CONSTANTS
  Procs = {p1, p2}
  Versions = {1}
  Tables = 2
INVARIANTS SchemaReady
CHECK_DEADLOCK FALSE

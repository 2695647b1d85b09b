SPECIFICATION FairSpec
CONSTANTS
  Procs = {p1, p2, p3}
  Versions = {1, 2}
  Tables = 2
INVARIANTS TypeOK OneScripter TablesPrefix
PROPERTIES FileSpec InitEnds
CHECK_DEADLOCK FALSE

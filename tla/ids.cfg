SPECIFICATION FairSpec
CONSTANTS
  Threads = {t1, t2, t3}
  None = None
  MaxIds = 3
INVARIANTS TypeOK UniqueIds
PROPERTIES AtomicSpec Constructed
CHECK_DEADLOCK FALSE

SPECIFICATION FairSpec
CONSTANTS
  Conns = {c1}
  MaxConnects = 2
  MaxTries = 2
INVARIANTS TypeOK ChainsPaired Attended KeepsAccepting
PROPERTIES Served RunReturns ConnectorToldOfClose
CHECK_DEADLOCK FALSE

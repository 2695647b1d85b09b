SPECIFICATION FairPayloadSpec
CONSTANTS
  Base = 3
  Width = 2
  Slots = 2
  Lens = {0, 1, 2, 4, 9, 10}
  Magics = {1, 2}
  Chars = {0, 1}
  MaxPacks = 2
  MaxGrows = 2
INVARIANTS PayloadTypeOK RoundTrip StrictOrder
PROPERTIES InflateRestores InflateEnds
CHECK_DEADLOCK FALSE

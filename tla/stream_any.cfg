SPECIFICATION FairSpec
CONSTANTS
  Writers = {w1, w2}
  Handlers = {w2}
  Lens = {1, 3}
  HeaderLen = 1
  LenMod = 2
  BufSize = 2
  Room = 2
  FrameInit = {0, 1}
  MaxWrites = 3
PROPERTIES CloseReported WriteReturns
CHECK_DEADLOCK FALSE

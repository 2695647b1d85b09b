SPECIFICATION FairSpec
CONSTANTS
  Writers = {w1}
  Handlers = {}
  Lens = {0, 1, 2, 3}
  HeaderLen = 2
  LenMod = 4
  BufSize = 2
  Room = 2
  FrameInit = {0}
  MaxWrites = 3
INVARIANTS TypeOK InOrder
PROPERTIES DropJustified CloseIsLast ChannelSpec Delivered
CHECK_DEADLOCK FALSE

SPECIFICATION Spec
CONSTANTS
  Writers = {w1}
  Handlers = {}
  Lens = {1, 2}
  HeaderLen = 2
  LenMod = 4
  BufSize = 3
  Room = 3
  FrameInit = {0, 1, 2, 3}
  MaxWrites = 1
PROPERTIES DropJustified
CHECK_DEADLOCK FALSE

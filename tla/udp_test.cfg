SPECIFICATION Spec
CONSTANTS
  p1 = p1
  p2 = p2
  None = None
  Datagrams <- Sound
  Writers = {w1}
  Ports = {"0"}
  HeaderLen = 2
  LenMod = 4
  BufSize = 4
  SizeMod = 16
  MaxQueue = 1
PROPERTIES WriteSucceeds
CHECK_DEADLOCK FALSE

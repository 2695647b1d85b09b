SPECIFICATION FairSpec
CONSTANTS
  p1 = p1
  p2 = p2
  None = None
  Datagrams <- Any
  Writers = {w1}
  Ports = {"given"}
  HeaderLen = 2
  LenMod = 4
  BufSize = 4
  SizeMod = 16
  MaxQueue = 1
PROPERTIES Consumed
CHECK_DEADLOCK FALSE

SPECIFICATION FairSpec
CONSTANTS
  p1 = p1
  p2 = p2
  None = None
  Datagrams <- Sound
  Writers = {w1, w2}
  Ports = {"given", "0"}
  HeaderLen = 2
  LenMod = 4
  BufSize = 4
  SizeMod = 16
  MaxQueue = 2
INVARIANTS TypeOK AnswersSender KeepsReceiving
PROPERTIES WholeDatagram Consumed RunReturns
CHECK_DEADLOCK FALSE

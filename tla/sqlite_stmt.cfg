SPECIFICATION FairSpec
CONSTANTS
  e = e
  b = b
  zero = zero
  one = one
  Blobs = {e, b}
  NulBlobs = {b}
  Empty = e
  Null = null
  NoRow = norow
  Cut = cut
  Numbers = {zero, one}
  Whole <- MCWhole
  Queries = {q}
  Updates = {u}
INVARIANTS TypeOK NoStray
PROPERTIES AnswersTrue WriterGetsIn

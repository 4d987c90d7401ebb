CONSTANTS
  Byte = {0, 66, 67}
  LineSize = 3
  DecoderLineSize = 3
  Pages <- TwoLines
  MaxPages = 1
SPECIFICATION FairSpec
INVARIANTS
  TypeOK
  NextCmdAsserts
  EvenPage
PROPERTIES
  Transferred
  CallsAsAssumed
\* after MaxPages pages nothing is left to do
CHECK_DEADLOCK FALSE

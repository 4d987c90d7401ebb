CONSTANTS
  Byte = {0, 1, 2, 3, 67}
  LineSize = 265
  DecoderLineSize = 265
  Pages <- LongPages
  MaxPages = 1
SPECIFICATION FairSpec
PROPERTIES
  Transferred
\* after MaxPages pages nothing is left to do
CHECK_DEADLOCK FALSE

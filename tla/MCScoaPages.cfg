CONSTANTS
  Byte = {0, 67}
  LineSize = 2
  DecoderLineSize = 2
  Pages <- ThreeLines
  MaxPages = 2
SPECIFICATION FairSpec
INVARIANTS
  FirstLineAlone
PROPERTIES
  Transferred
\* after MaxPages pages nothing is left to do
CHECK_DEADLOCK FALSE

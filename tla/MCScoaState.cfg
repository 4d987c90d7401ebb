CONSTANTS
  Byte = {1, 2}
  LineSize = 5
SPECIFICATION FairSpec
INVARIANTS
  TypeOK
  Tiling
  Faithful
  NotLazy
PROPERTY
  Exhausted

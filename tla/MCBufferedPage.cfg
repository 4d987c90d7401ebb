\* A page of nothing, one shorter than a block and one of more than a block.
CONSTANTS
  Names = {curr, prev}
  Lengths = {0, 1, 4}
  blockSize = 2
  MaxPages = 2
SPECIFICATION Spec
INVARIANTS
  TypeOK
  NothingDropped
PROPERTIES
  Rewindable

CONSTANTS
  Sizes = {0, 3, 4, 5, 13, 19, 20, 21}
  MaxCalls = 3
SPECIFICATION FairSpec
INVARIANTS
  TypeOK
  InStep
  Drained
PROPERTIES
  CallsEnd
\* after MaxCalls calls nothing is left to do
CHECK_DEADLOCK FALSE

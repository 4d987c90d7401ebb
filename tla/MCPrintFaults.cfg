CONSTANTS
  Blocks = 2
  NumPages = 3
  Faults = {"jam", "paper", "misprint", "comm", "service", "video"}
  MaxFaults = 2
  Watched = FALSE
SPECIFICATION FairSpec
INVARIANTS
  TypeOK
  InOrder
  FromTheTop
  MissingOnlyIf
PROPERTIES
  Stops
\* the program ends
CHECK_DEADLOCK FALSE

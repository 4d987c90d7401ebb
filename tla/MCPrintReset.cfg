CONSTANTS
  Blocks = 1
  NumPages = 1
  Faults = {"comm"}
  MaxFaults = 1
  Watched = FALSE
SPECIFICATION Spec
INVARIANTS
  AssertsHold
\* the program ends
CHECK_DEADLOCK FALSE

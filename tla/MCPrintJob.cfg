CONSTANTS
  Blocks = 2
  NumPages = 3
  Faults = {"jam", "paper", "misprint", "video"}
  MaxFaults = 1
  Watched = TRUE
SPECIFICATION AttendedSpec
INVARIANTS
  AssertsHold
PROPERTIES
  AllOut
  Ends
\* the program ends
CHECK_DEADLOCK FALSE

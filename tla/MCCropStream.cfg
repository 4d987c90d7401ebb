CONSTANTS
  origLineSize = 5
  origLines = 4
  cropLineSize = 3
  cropLines = 2
  Lengths = {60, 59, 44, 43, 42, 40, 39, 30, 29, 28, 26, 25, 24, 23, 22, 20, 10, 8, 7, 6, 5, 4, 3, 2, 0}
  Wanted = {1, 2, 3, 4, 5, 6, 7, 9}
  MaxRead = 18
SPECIFICATION Spec
INVARIANTS
  TypeOK
  Cropped
  NoShortLines
  PeekIsNext
PROPERTIES
  Returns
\* a reader stops when it has MaxRead bytes
CHECK_DEADLOCK FALSE

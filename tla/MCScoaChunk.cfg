CONSTANTS
  CopyLens <- MCCopies
  RepeatLens <- MCRepeats
  Raws <- MCRaws
  Bytes = {0, 67}
SPECIFICATION FairSpec
INVARIANTS
  TypeOK
  WithinBounds
PROPERTIES
  MeaningKept
  Finishes

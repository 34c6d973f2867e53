SPECIFICATION FairSpec
CONSTANTS
  Readers = {1, 2}
  Regular = {"two", ")"}
  Shift = {"left", "right"}
  Blank <- MCBlank
  nb_elems = 2
  Word = 4
  Byte = 4
  MaxKeys = 5
  MaxStray = 2
  None = None
INVARIANTS
  NeverEOF
  ShiftTracksKeys
PROPERTIES
  ImplementsQueue
  WaitingReaderServed
CONSTRAINT
  Explored

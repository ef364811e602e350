SPECIFICATION StorageSpec
CONSTANTS
  a = a
  b = b
  c = c
  d = d
  e = e
  x = x
  y = y
  z = z
  Definitions <- Messages
  Extensions <- NewFields
  Unlocated <- Autos
  Renames <- Renaming
  Alignments = {8, 32}
  ElemSizes = {8, 16, 32}
  Spare = {0}
  Lengths = {1}
  Brought <- Contents
  GivenValues <- Given
  NewValues <- Patterns
  MaxGiven = 1
  MaxOps = 2
  MaxSets = 1
INVARIANTS
  GetsWhatWasSet
  WritesInStorage
  PackedApart
PROPERTY
  OtherBitsKept
CHECK_DEADLOCK FALSE

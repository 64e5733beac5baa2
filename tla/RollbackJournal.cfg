SPECIFICATION Spec
CONSTANTS
  Val = {v1, v2}
  MaxPage = 3
  InitPages = 1
  MayShrink = FALSE
  Absent = Absent
  Torn = Torn
  NoHeader = NoHeader
  NoImage = NoImage
INVARIANTS Atomic WriteAhead
PROPERTY ImplementsStore

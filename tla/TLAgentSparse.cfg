SPECIFICATION Spec
CONSTANTS
  BeatBytes = 4
  DataLen = 4
  MemBytes = 8
  FirstByte = 6
  Values = {x, y}
  SparseMasks = TRUE
INVARIANTS PayloadPlaced

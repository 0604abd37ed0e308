SPECIFICATION Spec
CONSTANTS
  BeatBytes = 4
  DataLen = 4
  MemBytes = 8
  FirstByte = 4
  Values = {x, y}
  SparseMasks = FALSE
INVARIANTS TypeOK CopiesStayInside BytesLand GetMaskSelects

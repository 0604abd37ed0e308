SPECIFICATION Spec
CONSTANTS
  BeatBytes = 2
  MaxTransferBytes = 6
  Threads = {t1, t2}
  NoThread = NoThread
  MemBytes = 8
  p = p
  q = zero
  Zero = zero
  Data = {zero, p}
  Blank = blank
  Buffers <- MCBuffers
  ACapacity = 1
  DCapacity = 1
  MayDeny = FALSE
SYMMETRY Symmetry
INVARIANTS TypeOK AbortsExplained QuietBetweenCalls RequestsWellFormed BeatsAccounted
  NeverWedged DataInv
PROPERTIES EveryStepCounts ImplementsContract

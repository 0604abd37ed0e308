SPECIFICATION FairSpec
CONSTANTS
  BeatBytes = 2
  MaxTransferBytes = 5
  Threads = {t1, t2}
  NoThread = NoThread
  MemBytes = 6
  p = p
  q = zero
  Zero = zero
  Data = {zero, p}
  Blank = blank
  Buffers <- MCBuffers
  ACapacity = 2
  DCapacity = 1
  MayDeny = TRUE
INVARIANTS AbortsExplained
PROPERTIES HolderReturns DenialStops
CHECK_DEADLOCK FALSE

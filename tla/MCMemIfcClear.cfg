SPECIFICATION Spec
CONSTANTS
  BeatBytes = 4
  MaxTransferBytes = 6
  Threads = {t1, t2}
  NoThread = NoThread
  MemBytes = 8
  p = p
  q = zero
  Zero = zero
  Data = {zero, p}
  Blank = blank
  Buffers <- MCBuffers
  ACapacity = 1
  DCapacity = 1
  MayDeny = FALSE
INVARIANTS ClearIsServed

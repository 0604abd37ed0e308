SPECIFICATION Spec
CONSTANTS
  Packets = 6
  IdBits = 1
  NBytes = 4
  TxCapacity = 1
  MidCapacity = 2
  RxCapacity = 1
INVARIANT SourceEchoed
CHECK_DEADLOCK FALSE

SPECIFICATION FairSpec
CONSTANTS
  Packets = 8
  IdBits = 1
  NBytes = 4
  TxCapacity = 1
  MidCapacity = 3
  RxCapacity = 2
INVARIANTS TypeOK Accounted InOrder ChecksPass QuietAfterJoin
  NeverWedged
PROPERTIES EveryStepCounts Joins
CHECK_DEADLOCK FALSE

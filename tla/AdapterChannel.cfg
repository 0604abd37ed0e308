SPECIFICATION FairSpec
CONSTANTS
  PortWidth <- LoopbackWidth
  Garbled = Garbled
  Messages <- SomeMessages
  QCapacity = 2
  Depth = 2
INVARIANT TypeOK
PROPERTY ImplementsFifo

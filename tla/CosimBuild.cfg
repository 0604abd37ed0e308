SPECIFICATION FairSpec
CONSTANTS
  Runs = {r1, r2}
  NoRun = NoRun
  Configs = {plain, traced}
  None = None
  MaxRtl = 2
INVARIANTS TypeOK StampDescribesBinary BinaryIsCurrent
PROPERTIES EveryRunEnds
CHECK_DEADLOCK FALSE

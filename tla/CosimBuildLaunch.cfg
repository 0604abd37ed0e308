SPECIFICATION Spec
CONSTANTS
  Runs = {r1, r2}
  NoRun = NoRun
  Configs = {plain, traced}
  None = None
  MaxRtl = 2
INVARIANTS LaunchesItsOwnBuild
CHECK_DEADLOCK FALSE

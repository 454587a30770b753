SPECIFICATION FairSpec
CONSTANTS
  goRt = goRt  nodeRt = nodeRt  f1 = f1
  Caller = {c1}
  Reaper = reaper
  Main = main
  Slot = {s1}
  Runtime = {goRt, nodeRt}
  WarmOrder <- OneRuntime
  WarmSize = 0
  MaxOrphans = 0
  None = None
  Fn = {f1}
  RuntimeOf <- AllGo
  MaxLimit = 1
CHECK_DEADLOCK FALSE
PROPERTY RefusedOnlyWhenFull

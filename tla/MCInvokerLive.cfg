SPECIFICATION FairSpec
CONSTANTS
  goRt = goRt  nodeRt = nodeRt  f1 = f1
  Caller = {c1, c2}
  Reaper = reaper
  Main = main
  Slot = {s1}
  Runtime = {goRt, nodeRt}
  WarmOrder <- GoNodeGo
  WarmSize = 0
  MaxOrphans = 0
  None = None
  Fn = {f1, f2}
  RuntimeOf <- Mixed
  MaxLimit = 1
CHECK_DEADLOCK FALSE
PROPERTIES SlotComesBack InvocationsReturn

SPECIFICATION PoolSpec
CONSTANTS
  goRt = goRt
  Caller = {c1, c2}
  Reaper = reaper
  Main = main
  Slot = {s1, s2}
  Runtime = {goRt}
  WarmOrder <- OneRuntime
  WarmSize = 1
  MaxOrphans = 0
  None = None
SYMMETRY Interchangeable
CHECK_DEADLOCK FALSE
INVARIANTS TypeOK TrackedSlotsRun NoLeak ExclusiveUnlessContested

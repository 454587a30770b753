SPECIFICATION PoolSpec
CONSTANTS
  goRt = goRt
  Caller = {c1, c2}
  Reaper = reaper
  Main = main
  Slot = {s1}
  Runtime = {goRt}
  WarmOrder <- OneRuntime
  WarmSize = 1
  MaxOrphans = 0
  None = None
CHECK_DEADLOCK FALSE
INVARIANT ReapsOnlyIdle

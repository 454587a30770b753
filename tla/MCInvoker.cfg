SPECIFICATION Spec
CONSTANTS
  goRt = goRt  nodeRt = nodeRt  f1 = f1
  Caller = {c1, c2}
  Reaper = reaper
  Main = main
  Slot = {s1}
  Runtime = {goRt, nodeRt}
  WarmOrder <- OneRuntime
  WarmSize = 1
  MaxOrphans = 1
  None = None
  Fn = {f1}
  RuntimeOf <- AllGo
  MaxLimit = 2
SYMMETRY Symmetric
CHECK_DEADLOCK FALSE
INVARIANTS InvokerTypeOK InflightIsExact ConcurrencyBound
PROPERTIES DrivesPool LifecycleSpec

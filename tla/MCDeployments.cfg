SPECIFICATION FairSpec
CONSTANTS
  n1 = n1
  Fn = {i1}
  NameOf <- SameName
  Deployer = {d1, d2}
  Patcher = {p1}
  Deleter = {}
  Builder = builder
  Setting = {s1}
  Keep = 1
  MaxVersion = 2
  MaxFaults = 0
  None = None
CHECK_DEADLOCK FALSE
INVARIANTS RecentVersionsKept ReadyRowWasBuilt
PROPERTIES VersionTableSpec BuildNotLost BuildingEnds

SPECIFICATION FairSpec
CONSTANTS
  n1 = n1
  Fn = {i1}
  NameOf <- SameName
  Deployer = {d1}
  Patcher = {}
  Deleter = {}
  Builder = builder
  Setting = {s1}
  Keep = 2
  MaxVersion = 2
  MaxFaults = 0
  None = None
CHECK_DEADLOCK FALSE
PROPERTY DeployedVersionIsBuilt

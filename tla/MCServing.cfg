SPECIFICATION FairSSpec
CONSTANTS
  n1 = n1
  Fn = {i1, i2}
  NameOf <- SameName
  Deployer = {d1}
  Patcher = {}
  Deleter = {x1}
  Caller = {c1}
  Builder = builder
  Setting = {s1}
  Keep = 2
  MaxVersion = 1
  MaxFaults = 1
  None = None
CHECK_DEADLOCK FALSE
INVARIANTS TypeOK ServingTypeOK ReadyHasArtifact NeverForeignCode
PROPERTIES InvocationsEnd BuilderReturns

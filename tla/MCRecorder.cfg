SPECIFICATION RecFairSpec
CONSTANTS
  n1 = n1
  Publisher = {k1, k2}
  Request = {k1, k2}
  Viewer = {s1, s2}
  Name = {n1}
  Topic <- SameTopic
  Fn = {i1, i2}
  NameOf <- SameName
  Capacity = 1
  None = None
CHECK_DEADLOCK FALSE
INVARIANTS RecTypeOK NoSendOnClosed StreamIsFaithful OnlySlowViewersMiss RecordsBelong
PROPERTY RecordEnds

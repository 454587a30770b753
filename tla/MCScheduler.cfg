SPECIFICATION CronFairSpec
CONSTANTS
  n1 = n1
  always = always  every2 = every2  blank = blank
  Publisher = {k1}
  Request = {}
  Viewer = {}
  Name = {n1}
  Topic <- SameTopic
  Fn = {i1, i2}
  NameOf <- SameName
  Capacity = 1
  Trigger = {t1}
  Expr = {always, every2, blank}
  Parsed <- Parsable
  Due <- Schedules
  MaxTime = 4
  Followed = {4}
  MaxFaults = 1
  None = None
CHECK_DEADLOCK FALSE
INVARIANTS CronTypeOK FiresOncePerDueTime AtMostOneLateFiring FiringRunsItsFunction
PROPERTY DueTimesFire

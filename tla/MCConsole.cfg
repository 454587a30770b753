SPECIFICATION FairSpec
CONSTANTS
  Tab = {tab}
  Script = {script}
  Mask = Mask
  None = None
  Absent = Absent
  Cron <- Texts
  Trim <- AsTrimmed
  Fires <- Parsed
  TimeoutInput <- Typed
  Lifetime = 1
  Drift = 1
  MaxLogins = 2
  MaxTime = 4
  MaxRequests = 4
INVARIANTS
  ConsoleTypeOK
  LogoutIsFinal
  SessionsLast
  SecretsHidden
  MaskComesFromForms
  StoredCronFires
PROPERTIES
  SessionsEnd
CHECK_DEADLOCK FALSE

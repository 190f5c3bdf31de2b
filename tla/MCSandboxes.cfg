SPECIFICATION FairSpec
CONSTANTS
  Sandbox = {s1, s2}
  Requests = {q1, q2}
  Snapshots = {n1}
  Kinds = {"create", "wake", "run", "snapshot", "sleep", "stop", "delete"}
  MaxPerOperator = 1
  RetryLimit = 1
  MaxFaults = 1
  NONE = NONE
INVARIANTS
  LossesNeedFaults
PROPERTIES
  DeletedStaysDeleted StaleRunningFades
CHECK_DEADLOCK FALSE

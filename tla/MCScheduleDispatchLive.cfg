SPECIFICATION FairSpec
CONSTANTS
  cloud = cloud
  local = local
  ScheduleIds = {s1}
  JobIds = {j1, j2}
  ManualJobIds = {m1}
  Planes = {cloud}
  Passes = {c1}
  PlaneOf <- OnePlane
  Intervals = {1}
  MinInterval = 1
  Deployments <- AnyServed
  Skew = 1
  MaxTime = 1
  NONE = NONE
INVARIANTS
  CompletedJobsArePlanned
PROPERTIES
  DueIsClaimed
CHECK_DEADLOCK FALSE

SPECIFICATION Spec
CONSTANTS
  cloud = cloud
  local = local
  ScheduleIds = {s1}
  JobIds = {j1, j2}
  ManualJobIds = {}
  Planes = {cloud, local}
  Passes = {c1, c2}
  PlaneOf <- OnePlane
  Intervals = {1, 2}
  MinInterval = 1
  Deployments <- AllServed
  Skew = 1
  MaxTime = 2
  NONE = NONE
SYMMETRY Symmetry
INVARIANTS
  TypeOK OneSeederPerJob JobsAreSpaced
PROPERTIES
  DueTimeMovesWithAJob DispatchedOnce
CHECK_DEADLOCK FALSE

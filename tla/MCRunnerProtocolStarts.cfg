SPECIFICATION Spec
CONSTANTS
  RunIds = {r1}
  Pipeline <- MCThree
  Workers <- MCWorkers
  OwnerOf <- MCOwnerOf
  HasManifest <- MCHasManifest
  Target = "container-runner"
  BrowserRequired = TRUE
  LateStart = TRUE
  Agent = agent
  Plane = plane
  MaxCrashes = 1
  MaxRetries = 0
  MaxCancels = 0
  NONE = NONE
INVARIANTS
  ExecutedByOne NoLostWakeup
CHECK_DEADLOCK FALSE

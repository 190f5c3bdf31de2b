SPECIFICATION Spec
CONSTANTS
  RunIds = {r1}
  Pipeline <- MCThree
  Workers <- MCWorkersBrowser
  OwnerOf <- MCOwnerOfBrowser
  HasManifest <- MCManifestBrowser
  Target = "container-runner"
  BrowserRequired = TRUE
  LateStart = FALSE
  Agent = agent
  Plane = plane
  MaxCrashes = 0
  MaxRetries = 1
  MaxCancels = 1
  NONE = NONE
INVARIANTS
  ExecutedByOne DependencyCompleted BrowserStepHasResult
PROPERTIES
  CompletedStaysCompleted
CHECK_DEADLOCK FALSE

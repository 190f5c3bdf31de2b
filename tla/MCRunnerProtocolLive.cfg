SPECIFICATION FairSpec
CONSTANTS
  RunIds = {r1}
  Pipeline <- MCSeven
  Workers <- MCWorkersPair
  OwnerOf <- MCOwnerOfPair
  HasManifest <- MCManifestPair
  Target = "vercel-edge"
  BrowserRequired = TRUE
  LateStart = FALSE
  Agent = agent
  Plane = plane
  MaxCrashes = 0
  MaxRetries = 0
  MaxCancels = 0
  NONE = NONE
PROPERTIES
  RunEnds
CHECK_DEADLOCK FALSE

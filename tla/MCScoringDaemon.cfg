SPECIFICATION FairSpec
CONSTANTS
  Trajectories = {t1, t2, t3}
  Profiles = {"lightweight", "balanced"}
  ChannelBuffer = 2
  ColdStart = 2
  Unit = 2
  MaxPauses = 2
  MaxDelight = 4
  MaxScores = 3
  WindowSize = 3
  Period = 1
  MinWindow = 1
  RelaxAfter = 4
  RateUnit = 20
  TargetRate = 7
  MinRate = 5
  MaxRate = 9
  NONE = NONE
INVARIANTS
  HeldEntriesWait RowsAgree
PROPERTIES
  CeilingHolds StopsEmptyHanded DroppedHandlesStop StateFollowsResume
CHECK_DEADLOCK FALSE

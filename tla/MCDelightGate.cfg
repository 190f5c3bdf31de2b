SPECIFICATION StarvingSpec
CONSTANTS
  MaxDelight = 2
  WindowSize = 5
  Period = 2
  MinWindow = 2
  RelaxAfter = 4
  RateUnit = 20
  TargetRate = 7
  MinRate = 5
  MaxRate = 9
  MaxScores = 9
PROPERTIES
  StarvedGateRelaxes
CHECK_DEADLOCK FALSE

SPECIFICATION DrillSpec
CONSTANTS
  Markets <- MCMarkets
  Batch = 3
  HistoryMs = 8
  HistoryCandles = 5
  ScoreCandles = 3
  Slack = 2
  ScaleSlack = 5
  FitFrom = 1
  Confidence = 54
  Warmup = 1
  MinTrain = 2
  RollingWindow = 4
  RetrainEvery = 2
INVARIANTS HistoryIsContiguous WalkForward FreshModel ThreeColoursSilence TableIsPointInTime
PROPERTY DrillEnds
CHECK_DEADLOCK FALSE

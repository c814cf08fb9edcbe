SPECIFICATION WatcherSpec
CONSTANTS
  Prices = {2, 6, 8, 10}
  Infinity = 99
  Levels = {7}
  ReclaimWindow = 3
  CheckBack = 3
  SqueezeShort = 2
  SqueezeLong = 4
  PivotWindow = 1
  RocWindow = 1
  MaxCandles = 5
  MaxLines = 5
  ParamSets <- MCParamSets
  Warmups <- MCWarmups
INVARIANTS
  TrackerAnchored
  BearMirrorsBull
  SwingsAlternate
  CoilNeedsWideBand
PROPERTY
  PullbackChangesAreReported
CHECK_DEADLOCK FALSE

SPECIFICATION AgentSpec
CONSTANTS
  app = app
  Torn = Torn
  Missing = Missing
  NoFile = NoFile
  Files = {app}
  Contents = {0, 1, 2, Torn}
  Valid = {0, 2}
  Initial <- MCInitial
  Labels <- MCLabels
  ErrorLines <- MCErrorLines
  FixOf <- MCFixOf
  Window = 1
  TopErrors = 2
  HistoryTail = 2
  MaxApplies = 2
  MaxFaults = 2
INVARIANTS RefusedPatchLeavesNoTrace LastGoodSurvives HealingLogIsTrue
 

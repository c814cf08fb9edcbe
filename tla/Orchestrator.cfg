SPECIFICATION OrchSpec
CONSTANTS
  Services <- MCServices
  DependsOn <- MCDependsOn
  Fed <- MCFed
  MaxRestarts = 1
  HealEvery = 1
  RetryEvery = 2
  MaxErrors = 1
  SpawnMayFail = TRUE
  MaxFaults = 3
  Slots = 6
PROPERTY ServicesComeBack
INVARIANTS NoDuplicateService ShutdownStopsServices
CHECK_DEADLOCK FALSE

SPECIFICATION FairSwitchSpec
CONSTANTS
  usdc = usdc
  NoAsset = NoAsset
  Plan <- MCPlan
  Conversions = {usdc}
  Grace = 1
  Escalation = 1
  AbortableUntil = 2
  LiquidationGrace = 1
  StrictSigning = FALSE
  Stoppable = TRUE
  MaxLag = 1
CHECK_DEADLOCK FALSE
INVARIANTS SwitchTypeOK PlanRunsInOrder NoAssetConvertedTwice
PROPERTIES StepsOnlyAfterSilence SilenceEndsInDormancy

SPECIFICATION TradingSpec
CONSTANTS
  usdc = usdc
  NoAsset = NoAsset
  Plan <- MCPlan
  Conversions = {usdc}
  Grace = 3
  Escalation = 1
  AbortableUntil = 2
  LiquidationGrace = 1
  StrictSigning = FALSE
  Stoppable = TRUE
  MaxLag = 1
  TickInterval = 2
  MaxWork = 1
  MaxLate = 1
CHECK_DEADLOCK FALSE
INVARIANT ArmedWhileTrading
PROPERTY HungLoopEscalates

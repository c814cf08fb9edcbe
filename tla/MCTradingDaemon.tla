--------------------------- MODULE MCTradingDaemon ---------------------------
(* Small instances of the trading loop and its switch.                       *)
EXTENDS TradingDaemon

CONSTANTS usdc

MCPlan ==
  <<[step |-> "notify", asset_out |-> NoAsset],
    [step |-> "acquire_assets", asset_out |-> usdc]>>
==============================================================================

--------------------------- MODULE MCDeadManSwitch ---------------------------
(* Small instances of the dead-man switch.                                   *)
EXTENDS DeadManSwitch

CONSTANTS usdc

Step(type, asset) == [step |-> type, asset_out |-> asset]

\* The shape of the documented plans: a reversible step, a conversion beyond
\* the point of no return, the seal.
MCPlan ==
  <<Step("notify", NoAsset), Step("acquire_assets", usdc), Step("seal", NoAsset)>>
==============================================================================

------------------------------ MODULE RiskGate ------------------------------
(***************************************************************************)
(* What clients may rely on of the Iron Constitution: a gate through which *)
(* orders are approved, which a drawdown breach closes and which only a    *)
(* two-phase recovery opens again.  How limits are computed and what is    *)
(* journalled is left to ConstitutionKernel, which implements this module. *)
(***************************************************************************)
VARIABLES
  gate,    \* "open", "halted" (EmergencyHalt) or "recovering"
  answer   \* the last answer a client was given

gateVars == <<gate, answer>>

GateInit == gate = "open" /\ answer = "none"

Approve == gate = "open" /\ answer' = "approved" /\ UNCHANGED gate

\* A refusal is always possible and never moves the gate.
Refuse == answer' = "refused" /\ UNCHANGED gate

Breach == gate = "open" /\ gate' = "halted" /\ answer' = "liquidate"

Advance ==
  /\ \/ gate = "halted" /\ gate' = "recovering"
     \/ gate = "recovering" /\ gate' = "open"
  /\ answer' = "advanced"

\* An invalid proof, or a proof when there is nothing to recover from.
Deny == answer' = "denied" /\ UNCHANGED gate

GateNext == Approve \/ Refuse \/ Breach \/ Advance \/ Deny

GateSpec == GateInit /\ [][GateNext]_gateVars
=============================================================================

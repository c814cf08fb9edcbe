------------------------- MODULE ConstitutionKernel -------------------------
(***************************************************************************)
(* The deterministic risk kernel (constitution/src/state_machine.rs) and   *)
(* the limit checks it applies (constitution/src/invariants.rs).           *)
(*                                                                         *)
(* Money is an integer number of units and the three limits are integer    *)
(* percentages, so every comparison of the code is exact cross-            *)
(* multiplication here.  JSON cannot carry a NaN or an infinity, so those  *)
(* tests of evaluate_proposal never decide anything on a request that was  *)
(* decoded, and only the sign tests remain.                                *)
(***************************************************************************)
EXTENDS Integers, Sequences, FiniteSets, Functions

CONSTANTS
  Assets,                \* asset identifiers
  Portfolios,            \* the portfolios clients may present
  Proposals,             \* the proposals clients may present
  MaxDrawdown,           \* max_drawdown_threshold, percent
  LeverageCap,           \* global_leverage_cap, percent
  MaxConcentration,      \* max_asset_concentration, percent
  MaxTransitionHistory,  \* MAX_TRANSITION_HISTORY
  CounterMax             \* where the u64 counters saturate

\* A portfolio is what the checks read of it: equity, high-water mark and,
\* per asset, the sum of |notional_value| over that asset's open positions.
ASSUME KernelAssumption ==
  /\ IsFiniteSet(Assets)
  /\ Portfolios \subseteq [equity : Int, hwm : Int, exposure : [Assets -> Nat]]
  /\ Proposals \subseteq [asset : Assets, notional : Int]
  /\ MaxDrawdown \in Int /\ LeverageCap \in Int /\ MaxConcentration \in Int
  /\ MaxTransitionHistory \in Nat \ {0}
  /\ CounterMax \in Nat

VARIABLES
  state,               \* SystemOperationalState
  proposal_count,
  emergency_count,
  transition_count,
  transition_history,  \* the journal of <<from, to>> pairs, oldest first
  reply                \* what the last call of the kernel returned, and to what

kernelVars == <<state, proposal_count, emergency_count,
                transition_count, transition_history, reply>>

OperationalStates ==
  {"Normal", "SoftDeleveraging", "EmergencyHalt", "AutonomousRecovery"}

Halted == {"EmergencyHalt", "AutonomousRecovery"}

JournalEntries == OperationalStates \X OperationalStates

-----------------------------------------------------------------------------
(* Verdicts and the limit checks.                                          *)

RiskViolationCodes ==
  {"MaxDrawdownBreached", "GlobalLeverageCapExceeded",
   "AssetConcentrationLimitExceeded", "InvalidNumericalState"}

Approved(n)   == [kind |-> "Approved", notional |-> n]
Rejected(why) == [kind |-> "Rejected", reason |-> why]
EmergencyLiquidationAll == [kind |-> "EmergencyLiquidationAll"]

Verdicts ==
  [kind : {"Approved"}, notional : Int]
    \cup [kind : {"Rejected"}, reason : RiskViolationCodes]
    \cup {EmergencyLiquidationAll}

InvalidNumbers(pf, pr) == pf.equity <= 0 \/ pf.hwm <= 0 \/ pr.notional <= 0

\* drawdown >= pct% of the high-water mark, for a positive mark
DrawdownAtLeast(pf, pct) == 100 * (pf.hwm - pf.equity) >= pct * pf.hwm

\* drawdown >= 80% of the threshold
InSoftBand(pf) == 500 * (pf.hwm - pf.equity) >= 4 * MaxDrawdown * pf.hwm

GrossNotional(pf) == SumFunction(pf.exposure)

\* Mutant: the proposal's own notional is left out of the projected leverage.
OverLeverage_CurrentOnly(pf, pr) ==
  100 * GrossNotional(pf) > LeverageCap * pf.equity

OverLeverage(pf, pr) ==
  100 * (GrossNotional(pf) + pr.notional) > LeverageCap * pf.equity

OverConcentration(pf, pr) ==
  100 * (pf.exposure[pr.asset] + pr.notional) > MaxConcentration * pf.equity

EvaluateProposal(pf, pr) ==
  IF InvalidNumbers(pf, pr) THEN Rejected("InvalidNumericalState")
  ELSE IF DrawdownAtLeast(pf, MaxDrawdown) THEN EmergencyLiquidationAll
  ELSE IF OverLeverage(pf, pr) THEN Rejected("GlobalLeverageCapExceeded")
  ELSE IF OverConcentration(pf, pr)
    THEN Rejected("AssetConcentrationLimitExceeded")
  ELSE Approved(pr.notional)

-----------------------------------------------------------------------------
(* The state machine.                                                      *)

KernelInit ==
  /\ state = "Normal"
  /\ proposal_count = 0
  /\ emergency_count = 0
  /\ transition_count = 0
  /\ transition_history = <<>>
  /\ reply = [op |-> "new"]

\* Mutant: plain addition.
SaturatingInc_Plain(n) == n + 1

SaturatingInc(n) == IF n < CounterMax THEN n + 1 ELSE n

\* The most recent MaxTransitionHistory entries: push_back, then pop_front
\* while the journal is too long.
Recent(s) ==
  IF Len(s) > MaxTransitionHistory
    THEN SubSeq(s, Len(s) - MaxTransitionHistory + 1, Len(s))
    ELSE s

\* Mutant: the journal stops growing at its bound instead of dropping its
\* oldest entry.
RecordTransition_DropNewest(from, to) ==
  /\ transition_count' = SaturatingInc(transition_count)
  /\ transition_history' = IF Len(transition_history) < MaxTransitionHistory
                             THEN Append(transition_history, <<from, to>>)
                             ELSE transition_history
  /\ state' = to

\* record_transition, with the assignment of the new state it always goes with.
RecordTransition(from, to) ==
  /\ transition_count' = SaturatingInc(transition_count)
  /\ transition_history' = Recent(Append(transition_history, <<from, to>>))
  /\ state' = to

NoTransition == UNCHANGED <<state, transition_count, transition_history>>

Answered(pf, pr, verdict) ==
  reply' = [op |-> "process_proposal", from |-> state,
            portfolio |-> pf, proposal |-> pr, verdict |-> verdict]

\* Halted or recovering: refused without looking at the portfolio.
RefuseWhileHalted(pf, pr) ==
  /\ state \in Halted
  /\ NoTransition
  /\ UNCHANGED emergency_count
  /\ Answered(pf, pr, Rejected("MaxDrawdownBreached"))

\* Mutant: only the first emergency is counted.
EnterEmergency_CountOnce(pf, pr) ==
  /\ state \notin Halted
  /\ EvaluateProposal(pf, pr)
       \in {EmergencyLiquidationAll, Rejected("MaxDrawdownBreached")}
  /\ emergency_count' = IF emergency_count = 0 THEN SaturatingInc(emergency_count)
                                               ELSE emergency_count
  /\ RecordTransition(state, "EmergencyHalt")
  /\ Answered(pf, pr, EmergencyLiquidationAll)

\* enter_emergency; the code's `from != EmergencyHalt` test is always true
\* here, since a halted kernel has returned before evaluating.
EnterEmergency(pf, pr) ==
  /\ state \notin Halted
  /\ EvaluateProposal(pf, pr)
       \in {EmergencyLiquidationAll, Rejected("MaxDrawdownBreached")}
  /\ emergency_count' = SaturatingInc(emergency_count)
  /\ RecordTransition(state, "EmergencyHalt")
  /\ Answered(pf, pr, EmergencyLiquidationAll)

RejectProposal(pf, pr) ==
  /\ state \notin Halted
  /\ \E why \in RiskViolationCodes \ {"MaxDrawdownBreached"} :
       /\ EvaluateProposal(pf, pr) = Rejected(why)
       /\ Answered(pf, pr, Rejected(why))
  /\ NoTransition
  /\ UNCHANGED emergency_count

\* An approval also moves the kernel between Normal and SoftDeleveraging.
ApproveProposal(pf, pr) ==
  /\ state \notin Halted
  /\ EvaluateProposal(pf, pr) = Approved(pr.notional)
  /\ \/ /\ state = "SoftDeleveraging" /\ ~InSoftBand(pf)
        /\ RecordTransition("SoftDeleveraging", "Normal")
     \/ /\ state = "Normal" /\ InSoftBand(pf)
        /\ RecordTransition("Normal", "SoftDeleveraging")
     \/ /\ InSoftBand(pf) <=> state = "SoftDeleveraging"
        /\ NoTransition
  /\ UNCHANGED emergency_count
  /\ Answered(pf, pr, Approved(pr.notional))

ProcessProposal(pf, pr) ==
  /\ proposal_count' = SaturatingInc(proposal_count)
  /\ \/ RefuseWhileHalted(pf, pr)
     \/ EnterEmergency(pf, pr)
     \/ RejectProposal(pf, pr)
     \/ ApproveProposal(pf, pr)

\* Mutant: one valid proof leads from the halt straight to Normal.
AttemptRecovery_OnePhase(valid) ==
  /\ UNCHANGED <<proposal_count, emergency_count>>
  /\ reply' = [op |-> "attempt_recovery", from |-> state,
               success |-> valid /\ state \in Halted]
  /\ IF valid /\ state \in Halted THEN RecordTransition(state, "Normal")
                                  ELSE NoTransition

\* A valid proof advances a halted kernel by one phase; anything else is
\* refused and changes nothing.
AttemptRecovery(valid) ==
  /\ UNCHANGED <<proposal_count, emergency_count>>
  /\ reply' = [op |-> "attempt_recovery", from |-> state,
               success |-> valid /\ state \in Halted]
  /\ \/ /\ valid /\ state = "EmergencyHalt"
        /\ RecordTransition("EmergencyHalt", "AutonomousRecovery")
     \/ /\ valid /\ state = "AutonomousRecovery"
        /\ RecordTransition("AutonomousRecovery", "Normal")
     \/ /\ ~(valid /\ state \in Halted)
        /\ NoTransition

KernelNext ==
  \/ \E pf \in Portfolios, pr \in Proposals : ProcessProposal(pf, pr)
  \/ \E valid \in BOOLEAN : AttemptRecovery(valid)

KernelSpec == KernelInit /\ [][KernelNext]_kernelVars

-----------------------------------------------------------------------------
(* Properties.                                                             *)

Replies ==
  {[op |-> "new"]}
    \cup [op : {"process_proposal"}, from : OperationalStates,
          portfolio : Portfolios, proposal : Proposals, verdict : Verdicts]
    \cup [op : {"attempt_recovery"}, from : OperationalStates, success : BOOLEAN]

\* Type invariant of ConstitutionKernel (state_machine.rs:19-26): counters
\* never pass the saturation point and the journal never its bound.
KernelTypeOK ==
  /\ state \in OperationalStates
  /\ proposal_count \in 0..CounterMax
  /\ emergency_count \in 0..CounterMax
  /\ transition_count \in 0..CounterMax
  /\ transition_history \in Seq(JournalEntries)
  /\ Len(transition_history) <= MaxTransitionHistory
  /\ reply \in Replies

\* The edges of the four-state machine the code may take.
Edges ==
  {<<"Normal", "SoftDeleveraging">>, <<"SoftDeleveraging", "Normal">>,
   <<"Normal", "EmergencyHalt">>, <<"SoftDeleveraging", "EmergencyHalt">>,
   <<"EmergencyHalt", "AutonomousRecovery">>,
   <<"AutonomousRecovery", "Normal">>}

\* The journal an auditor reads over GetStatus is an unbroken suffix of the
\* kernel's history: every entry is a legal edge, each starts where the one
\* before it ended, the last ends in the current state, and nothing is missing
\* from the front until the bound has been reached (record_transition is
\* called next to each assignment of self.state, sometimes before it and
\* sometimes after).
JournalIsHistory ==
  LET h == transition_history
      n == Len(h)
  IN  /\ \A i \in 1..n : h[i] \in Edges
      /\ \A i \in 1..n : i < n => h[i][2] = h[i + 1][1]
      /\ n > 0 => h[n][2] = state
      /\ n = 0 => state = "Normal"
      /\ n < MaxTransitionHistory /\ n > 0 => h[1][1] = "Normal"
      /\ n < MaxTransitionHistory /\ transition_count < CounterMax
           => n = transition_count
      /\ transition_count >= n \/ transition_count = CounterMax

\* The emergency counter and the journal tell the same story: as long as
\* nothing was dropped or saturated, emergency_count is the number of journal
\* entries that end in EmergencyHalt; a halt is never counted twice and never
\* journalled uncounted.
EmergenciesAreJournalled ==
  LET halts == {i \in 1..Len(transition_history) :
                  transition_history[i][2] = "EmergencyHalt"}
  IN  /\ Cardinality(halts) <= emergency_count \/ emergency_count = CounterMax
      /\ transition_count = Len(transition_history) /\ transition_count < CounterMax
           => emergency_count = Cardinality(halts)

\* The portfolio after the approved order has been filled.
Filled(pf, pr) ==
  [pf EXCEPT !.exposure[pr.asset] = @ + pr.notional]

\* An approval is sound for the portfolio it leads to: the kernel was not
\* halted when it answered, the drawdown is below the limit, and after the
\* fill the gross leverage (I2) and the traded asset's concentration (I3) are
\* within their caps.
ApprovalIsSound ==
  reply.op = "process_proposal" /\ reply.verdict.kind = "Approved" =>
    LET after == Filled(reply.portfolio, reply.proposal)
    IN  /\ reply.from \notin Halted
        /\ ~DrawdownAtLeast(after, MaxDrawdown)
        /\ 100 * GrossNotional(after) <= LeverageCap * after.equity
        /\ 100 * after.exposure[reply.proposal.asset]
             <= MaxConcentration * after.equity

-----------------------------------------------------------------------------
(* What the kernel promises, without limits, counters or journal.          *)

abstractGate ==
  IF state = "EmergencyHalt" THEN "halted"
  ELSE IF state = "AutonomousRecovery" THEN "recovering" ELSE "open"

verdictAnswer ==
  IF reply.verdict.kind = "Approved" THEN "approved"
  ELSE IF reply.verdict.kind = "Rejected" THEN "refused" ELSE "liquidate"

abstractAnswer ==
  IF reply.op = "new" THEN "none"
  ELSE IF reply.op = "process_proposal" THEN verdictAnswer
  ELSE IF reply.success THEN "advanced" ELSE "denied"

Gate == INSTANCE RiskGate WITH gate <- abstractGate, answer <- abstractAnswer

\* The kernel implements the abstract risk gate: approvals only through an
\* open gate, a breach closes it, and only two accepted proofs in a row,
\* with nothing approved in between, open it again.
ImplementsRiskGate == Gate!GateSpec
=============================================================================

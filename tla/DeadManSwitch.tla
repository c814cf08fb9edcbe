--------------------------- MODULE DeadManSwitch ---------------------------
(***************************************************************************)
(* The dead-man switch (doomsday/doomsday/daemon.py), the conversion book  *)
(* of its oracle (oracle.py), and the passage of time.                     *)
(*                                                                         *)
(* The code compares differences of clock readings only, so the model      *)
(* keeps ages instead of times: sinceBeat is the age of _last_beat,        *)
(* sinceLiquidating that of _liquidating_since.  A tick reads the clock    *)
(* before it takes the lock; lag is the age of that reading when the tick  *)
(* body runs, and beats, disarms and settlements may come in between.      *)
(* The journal is written and never read by the code, and is left out.     *)
(***************************************************************************)
EXTENDS Integers, Sequences, FiniteSets, FiniteSetsExt

CONSTANTS
  Plan,                 \* cfg.plan: a sequence of [step, asset_out] records
  Conversions,          \* the assets conversion steps may name in asset_out
  NoAsset,              \* asset_out = None
  Grace,                \* cfg.grace_period, in clock units
  Escalation,           \* cfg.escalation_period
  AbortableUntil,       \* cfg.abortable_until_step
  LiquidationGrace,     \* grace_period * liquidation_grace_multiplier
  StrictSigning,        \* cfg.strict_heartbeat_signing
  Stoppable,            \* the owner may call stop() and start() again
  MaxLag                \* bound: clock units a tick may wait for the lock

StepTypes ==
  {"notify", "halt_placements", "reduce_exposure", "acquire_assets", "seal"}

ASSUME SwitchAssumption ==
  /\ Plan \in Seq([step : StepTypes, asset_out : Conversions \cup {NoAsset}])
  /\ NoAsset \notin Conversions
  /\ Grace \in Nat \ {0} /\ Escalation \in Nat \ {0}
  /\ AbortableUntil \in Nat /\ LiquidationGrace \in Nat \ {0}
  /\ StrictSigning \in BOOLEAN /\ Stoppable \in BOOLEAN
  /\ MaxLag \in Nat

VARIABLES
  state,             \* _state
  step_index,        \* _step_index
  sinceBeat,         \* age of _last_beat, Never before the first beat
  sinceLiquidating,  \* age of _liquidating_since, Never when it is None
  book,              \* per asset, the order the oracle holds under its id
  orphaned,          \* assets with an older order still SUBMITTED in _orders
  thread,            \* _run_loop: "off", "sleep" or in a "tick"
  stop_requested,    \* _stop_requested
  lag,               \* age of the tick's clock reading
  escalation_enabled, \* cfg.escalation_enabled, fixed when the switch is built
  governed,          \* governance_key is not None, fixed as well
  beating,           \* the source of heartbeats is alive
  executed,          \* history: plan indices attempted since last ARMED
  failed,            \* history: the plan index that raised, 0 if none
  resubmitted        \* history: assets for which two orders were submitted

orderVars  == <<book, orphaned, resubmitted>>
threadVars == <<thread, stop_requested, lag>>
planVars   == <<state, step_index, sinceLiquidating, executed, failed>>
configVars == <<escalation_enabled, governed>>
switchVars == <<planVars, orderVars, threadVars, sinceBeat, beating, configVars>>

Never == -1
Threshold == Grace + (Len(Plan) + 1) * Escalation + LiquidationGrace

\* Ages are not told apart beyond the last comparison the code can make.
AgeCap == Threshold + MaxLag + 1
Ages   == 0..AgeCap \cup {Never}

EscalationStates == {"ARMED", "WATCHING", "ESCALATING", "LIQUIDATING", "DORMANT"}

Transitions(s) ==
  CASE s = "ARMED"       -> {"WATCHING"}
    [] s = "WATCHING"    -> {"ESCALATING", "ARMED"}
    [] s = "ESCALATING"  -> {"ARMED", "LIQUIDATING"}
    [] s = "LIQUIDATING" -> {"DORMANT"}
    [] s = "DORMANT"     -> {}

SwitchInit ==
  /\ state = "ARMED" /\ step_index = 0
  /\ sinceBeat = Never /\ sinceLiquidating = Never
  /\ book = [a \in Conversions |-> "none"]
  /\ orphaned = {} /\ resubmitted = {}
  /\ thread = "off" /\ stop_requested = FALSE /\ lag = 0
  /\ beating = TRUE /\ escalation_enabled \in BOOLEAN /\ governed \in BOOLEAN
  /\ executed = <<>> /\ failed = 0

-----------------------------------------------------------------------------
(* Heartbeats and governance.                                              *)

\* beat(signed): in strict mode an unsigned beat raises and changes nothing.
Beat(signed) ==
  /\ beating
  /\ StrictSigning => signed
  /\ sinceBeat' = 0
  /\ UNCHANGED <<planVars, orderVars, threadVars, beating, configVars>>

\* disarm with the governance key.  _move may refuse, and its result is not
\* looked at: the counters are reset in every state.
Disarm ==
  /\ governed
  /\ IF "ARMED" \in Transitions(state)
       THEN state' = "ARMED" /\ executed' = <<>> /\ failed' = 0
       ELSE UNCHANGED <<state, executed, failed>>
  /\ step_index' = 0
  /\ sinceLiquidating' = Never
  /\ sinceBeat' = 0
  /\ UNCHANGED <<orderVars, threadVars, beating, configVars>>

\* The source of heartbeats stops for good.
SourceDies ==
  /\ beating
  /\ beating' = FALSE
  /\ UNCHANGED <<planVars, orderVars, threadVars, sinceBeat, configVars>>

-----------------------------------------------------------------------------
(* The tick.                                                               *)

Elapsed == IF sinceBeat = Never THEN 0 ELSE sinceBeat - lag

\* Mutant: the plan can always be aborted.
CanAbort_Always == step_index <= Len(Plan)

CanAbort == step_index < AbortableUntil

StepNo == (Elapsed - Grace) \div Escalation

Pending == orphaned # {} \/ \E a \in Conversions : book[a] = "SUBMITTED"

\* _run_loop after a tick: the stop flag is looked at before sleeping again.
EndTick ==
  /\ thread = "tick"
  /\ thread' = IF stop_requested THEN "off" ELSE "sleep"
  /\ lag' = 0
  /\ UNCHANGED <<stop_requested, sinceBeat, beating, configVars>>

\* Leave every variable of the ladder and the orders as they are.
Stay == UNCHANGED <<planVars, orderVars>>

\* Mutant: re-arming forgets to reset the step counter.
Rearm_KeepIndex ==
  state' = "ARMED" /\ executed' = <<>> /\ failed' = 0 /\ UNCHANGED step_index

Rearm == state' = "ARMED" /\ step_index' = 0 /\ executed' = <<>> /\ failed' = 0

\* Escalation switched off: the switch is put back to ARMED.
TickDisabled ==
  /\ ~escalation_enabled
  /\ state' = "ARMED"
  /\ UNCHANGED <<step_index, sinceLiquidating, executed, failed, orderVars>>

TickArmed ==
  /\ escalation_enabled /\ state = "ARMED"
  /\ \/ Elapsed > Grace /\ state' = "WATCHING"
     \/ Elapsed <= Grace /\ state' = state
  /\ UNCHANGED <<step_index, sinceLiquidating, executed, failed, orderVars>>

TickWatching ==
  /\ escalation_enabled /\ state = "WATCHING"
  /\ \/ /\ Elapsed <= Grace
        /\ Rearm /\ sinceLiquidating' = Never
     \/ /\ Elapsed > Grace + Escalation
        /\ state' = "ESCALATING"
        /\ UNCHANGED <<step_index, sinceLiquidating, executed, failed>>
     \/ /\ Grace < Elapsed /\ Elapsed <= Grace + Escalation
        /\ UNCHANGED planVars
  /\ UNCHANGED orderVars

TickAbort ==
  /\ escalation_enabled /\ state = "ESCALATING"
  /\ Elapsed <= Grace /\ CanAbort
  /\ Rearm
  /\ UNCHANGED <<sinceLiquidating, orderVars>>

\* Indices of the conversion steps of the plan among a set of steps.
Acquiring(steps) == {i \in steps : Plan[i].step = "acquire_assets"}

\* Steps that raise whatever the oracle and the hooks do: a quote cannot be
\* built for an asset_out of None.
Broken(i) == Plan[i].step = "acquire_assets" /\ Plan[i].asset_out = NoAsset

\* The orders a run of conversion steps submits.  The order id is a hash of
\* the request, so a second order for an asset takes the place of the first
\* in the oracle's book, and settle() can no longer reach the first one.
SubmitOrders(steps) ==
  LET assets == {Plan[i].asset_out : i \in steps}
      twice  == {a \in assets :
                   \/ book[a] # "none"
                   \/ \E i, j \in steps : i # j /\ Plan[i].asset_out = a
                                                /\ Plan[j].asset_out = a}
      stuck  == {a \in twice :
                   \/ book[a] = "SUBMITTED"
                   \/ \E i, j \in steps : i # j /\ Plan[i].asset_out = a
                                                /\ Plan[j].asset_out = a}
  IN  /\ book' = [a \in Conversions |-> IF a \in assets THEN "SUBMITTED" ELSE book[a]]
      /\ orphaned' = orphaned \cup stuck
      /\ resubmitted' = resubmitted \cup twice

IndexRange(from, to) == [k \in 1..(to - from) |-> from + k]

\* The clock reading of the tick, as an age.
MarkLiquidating == sinceLiquidating' = lag

\* Mutant: the counter takes the uncapped step number.
RunSteps_Uncapped(last) ==
  /\ \A i \in (step_index + 1)..last : ~Broken(i)
  /\ SubmitOrders(Acquiring((step_index + 1)..last))
  /\ step_index' = StepNo
  /\ executed' = executed \o IndexRange(step_index, last)
  /\ IF last = Len(Plan) /\ last > step_index
       THEN state' = "LIQUIDATING" /\ MarkLiquidating
       ELSE UNCHANGED <<state, sinceLiquidating>>
  /\ UNCHANGED failed

\* The steps that are due all run, in one tick, under the lock.
RunSteps(last) ==
  /\ \A i \in (step_index + 1)..last : ~Broken(i)
  /\ SubmitOrders(Acquiring((step_index + 1)..last))
  /\ step_index' = last
  /\ executed' = executed \o IndexRange(step_index, last)
  /\ IF last = Len(Plan) /\ last > step_index
       THEN state' = "LIQUIDATING" /\ MarkLiquidating
       ELSE UNCHANGED <<state, sinceLiquidating>>
  /\ UNCHANGED failed

\* Step i is the first to raise: its own hook or the oracle raised.  placed
\* says whether a conversion order had been recorded by then.
FailStep(i, placed) ==
  LET done == Acquiring((step_index + 1)..(i - 1))
      own  == Acquiring({i})
  IN  /\ \A j \in (step_index + 1)..(i - 1) : ~Broken(j)
      /\ placed => own # {} /\ ~Broken(i)
      /\ SubmitOrders(IF placed THEN done \cup own ELSE done)
      /\ step_index' = i
      /\ executed' = executed \o IndexRange(step_index, i)
      /\ state' = "LIQUIDATING"
      /\ failed' = i
      /\ UNCHANGED sinceLiquidating

\* Mutant: off by one, a step runs one period early.
DueStep_Early ==
  IF StepNo + 1 < Len(Plan) THEN StepNo + 1 ELSE Len(Plan)

DueStep == IF StepNo < Len(Plan) THEN StepNo ELSE Len(Plan)

TickEscalating ==
  /\ escalation_enabled /\ state = "ESCALATING"
  /\ ~(Elapsed <= Grace /\ CanAbort)
  /\ \/ StepNo <= step_index /\ Stay
     \/ StepNo > step_index /\ RunSteps(DueStep)
     \/ /\ StepNo > step_index
        /\ \E i \in (step_index + 1)..DueStep, placed \in BOOLEAN : FailStep(i, placed)

\* Mutant: a plan that failed never starts the liquidation clock.
TickLiquidating_NoClock ==
  /\ escalation_enabled /\ state = "LIQUIDATING"
  /\ state' = IF ~Pending \/ (sinceLiquidating # Never
                                /\ sinceLiquidating - lag > LiquidationGrace)
                THEN "DORMANT" ELSE "LIQUIDATING"
  /\ UNCHANGED <<sinceLiquidating, step_index, executed, failed, orderVars>>

TickLiquidating ==
  /\ escalation_enabled /\ state = "LIQUIDATING"
  /\ IF sinceLiquidating = Never THEN MarkLiquidating ELSE UNCHANGED sinceLiquidating
  /\ state' = IF ~Pending \/ (sinceLiquidating # Never
                                /\ sinceLiquidating - lag > LiquidationGrace)
                THEN "DORMANT" ELSE "LIQUIDATING"
  /\ UNCHANGED <<step_index, executed, failed, orderVars>>

TickDormant == escalation_enabled /\ state = "DORMANT" /\ Stay

Tick ==
  /\ EndTick
  /\ \/ TickDisabled \/ TickArmed \/ TickWatching \/ TickAbort
     \/ TickEscalating \/ TickLiquidating \/ TickDormant

\* The first statement of tick(): now = self.clock().
TickBegin ==
  /\ thread = "sleep"
  /\ thread' = "tick" /\ lag' = 0
  /\ UNCHANGED <<planVars, orderVars, stop_requested, sinceBeat, beating,
                 configVars>>

-----------------------------------------------------------------------------
(* The thread, the oracle and the clock.                                   *)

\* start() returns at once, without clearing the stop flag, when the thread
\* is still alive (stop() waits for it for two seconds only).
Start ==
  /\ IF thread = "off" THEN thread' = "sleep" /\ stop_requested' = FALSE
                       ELSE UNCHANGED <<thread, stop_requested>>
  /\ UNCHANGED <<planVars, orderVars, lag, sinceBeat, beating, configVars>>

Stop ==
  /\ Stoppable /\ thread # "off"
  /\ stop_requested' = TRUE
  /\ UNCHANGED <<planVars, orderVars, thread, lag, sinceBeat, beating,
                 configVars>>

\* SimulationOracle.settle.
Settle(a) ==
  /\ book[a] = "SUBMITTED"
  /\ book' = [book EXCEPT ![a] = "SETTLED"]
  /\ UNCHANGED <<planVars, orphaned, resubmitted, threadVars, sinceBeat, beating,
                 configVars>>

Older(age) == IF age \in 0..(AgeCap - 1) THEN age + 1 ELSE age

\* One clock unit passes.  A tick that has read the clock runs its body
\* before its reading is more than MaxLag old.
Clock ==
  /\ thread = "tick" => lag < MaxLag
  /\ sinceBeat' = Older(sinceBeat)
  /\ sinceLiquidating' = Older(sinceLiquidating)
  /\ lag' = IF thread = "tick" THEN lag + 1 ELSE lag
  /\ UNCHANGED <<state, step_index, executed, failed, orderVars, thread,
                 stop_requested, beating, configVars>>

SwitchNext ==
  \/ \E signed \in BOOLEAN : Beat(signed)
  \/ Disarm \/ SourceDies
  \/ TickBegin \/ Tick
  \/ Start \/ Stop
  \/ \E a \in Conversions : Settle(a)
  \/ Clock

SwitchSpec == SwitchInit /\ [][SwitchNext]_switchVars

\* Time passes, also past a thread that ticks again and again, and the thread,
\* once started, keeps ticking (_run_loop sleeps a bounded time between two
\* ticks).  Nothing is assumed of beats,
\* settlements, disarms or deaths.
FairSwitchSpec ==
  SwitchSpec /\ SF_switchVars(Clock) /\ WF_switchVars(TickBegin) /\ WF_switchVars(Tick)

-----------------------------------------------------------------------------
(* Properties.                                                             *)

\* Type invariant of DeadManSwitchDaemon and its book (daemon.py:46-61).
SwitchTypeOK ==
  /\ state \in EscalationStates
  /\ step_index \in 0..Len(Plan)
  /\ sinceBeat \in Ages /\ sinceLiquidating \in Ages
  /\ book \in [Conversions -> {"none", "SUBMITTED", "SETTLED"}]
  /\ orphaned \subseteq Conversions /\ resubmitted \subseteq Conversions
  /\ thread \in {"off", "sleep", "tick"}
  /\ stop_requested \in BOOLEAN /\ lag \in 0..MaxLag
  /\ beating \in BOOLEAN /\ escalation_enabled \in BOOLEAN /\ governed \in BOOLEAN
  /\ executed \in Seq(1..Len(Plan))
  /\ failed \in 0..Len(Plan)

\* As long as no step has raised, the plan runs in order: however beats,
\* aborts, disarms and late ticks interleave with the catch-up loop of tick(),
\* the steps attempted since the switch was last armed are 1, 2, .., n, each
\* once; while it escalates n is the step counter; and it liquidates only once
\* all of them ran.  A switch that is armed or watching, also after an abort,
\* starts its plan afresh, and with escalation switched off nothing ever runs
\* (daemon.py:135-175).
PlanRunsInOrder ==
  /\ ~escalation_enabled => state = "ARMED"
  /\ state \in {"ARMED", "WATCHING"} => executed = <<>> /\ step_index = 0 /\ failed = 0
  /\ failed = 0 =>
       /\ \A k \in 1..Len(executed) : executed[k] = k
       /\ state = "ESCALATING" => Len(executed) = step_index
       /\ state \in {"LIQUIDATING", "DORMANT"} => Len(executed) = Len(Plan)

\* No step runs early: whatever the delay between the clock reading of a tick
\* and its body, and whatever beats arrive in between, step n of the plan is
\* attempted only after grace_period + n * escalation_period of real silence.
StepsOnlyAfterSilence ==
  [][Len(executed') > Len(executed)
       => sinceBeat >= Grace + Len(executed') * Escalation]_switchVars

\* The conversion steps name distinct assets and all lie beyond the point
\* where a resumed heartbeat can still abort the plan.
ConvertsPastThreshold ==
  \A i \in Acquiring(1..Len(Plan)) :
    /\ i >= AbortableUntil
    /\ \A j \in Acquiring(1..Len(Plan)) : Plan[i].asset_out = Plan[j].asset_out => i = j

\* Under such a plan and without governance intervention, no asset is
\* converted twice, although submit_conversion_request does not look whether
\* an order for it exists: the switch cannot be re-armed after a conversion.
NoAssetConvertedTwice ==
  ConvertsPastThreshold /\ ~governed => resubmitted = {} /\ orphaned = {}

\* Once armed by a first beat, silence is never forgotten: when the source of
\* heartbeats has died the switch reaches DORMANT, unless its thread is
\* stopped; also when a step raises, an order is never settled, or the last
\* beat falls into a running tick.
SilenceEndsInDormancy ==
  (~beating /\ sinceBeat # Never /\ thread # "off" /\ escalation_enabled /\ ~governed)
    ~> (state = "DORMANT" \/ thread = "off")

\* docs/DOOMSDAY.md:44: once the plan has passed the threshold beyond which
\* it "is no longer reversible" (:68), it goes on to its end.
IrreversiblePlanCompletes ==
  (state = "ESCALATING" /\ ~CanAbort) ~> state \in {"LIQUIDATING", "DORMANT"}
=============================================================================

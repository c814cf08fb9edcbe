------------------------ MODULE DeadManSwitchProofs ------------------------
(***************************************************************************)
(* Theorems about the dead-man switch, alone and driven by the trading     *)
(* loop, for every plan, every period, every abort threshold and every     *)
(* bound on the delay of a tick.                                           *)
(***************************************************************************)
EXTENDS TradingDaemon, TLAPS

USE DEF configVars

\* The number of the step that is due is an integer, and never beyond the plan.
LEMMA DueStepType ==
  ASSUME SwitchTypeOK
  PROVE  /\ Elapsed \in Int /\ StepNo \in Int /\ DueStep \in Int
         /\ DueStep <= Len(Plan) /\ DueStep <= StepNo
         /\ StepNo > step_index => DueStep >= step_index
         /\ Len(Plan) \in Nat
<1>1. Len(Plan) \in Nat /\ Grace \in Nat /\ Escalation \in Nat \ {0}
  BY SwitchAssumption
<1>2. Elapsed \in Int
  BY <1>1 DEF SwitchTypeOK, Elapsed, Ages, Never, AgeCap, Threshold
<1>3. StepNo \in Int
  BY <1>1, <1>2 DEF StepNo
<1> QED
  BY <1>1, <1>2, <1>3 DEF DueStep, SwitchTypeOK

\* Ages stay ages as the clock advances.
LEMMA OlderType == ASSUME NEW age \in Ages PROVE Older(age) \in Ages
<1>1. AgeCap \in Nat
  BY SwitchAssumption DEF AgeCap, Threshold
<1> QED
  BY <1>1 DEF Older, Ages, Never

\* Appending the indices from+1..to to the run 1..from gives the run 1..to.
LEMMA ExecutedGrows ==
  ASSUME NEW N \in Nat, NEW run \in Seq(1..N), NEW from \in Nat, NEW to \in Nat,
         Len(run) = from, from <= to, to <= N,
         \A k \in 1..Len(run) : run[k] = k
  PROVE  LET new == run \o IndexRange(from, to)
         IN  /\ new \in Seq(1..N) /\ Len(new) = to
             /\ \A k \in 1..Len(new) : new[k] = k
<1> DEFINE tail == IndexRange(from, to)
           new  == run \o tail
<1>1. tail \in Seq(1..N) /\ Len(tail) = to - from
  BY DEF IndexRange
<1>2. \A k \in 1..Len(tail) : tail[k] = from + k
  BY <1>1 DEF IndexRange
<1> HIDE DEF tail
<1>3. new \in Seq(1..N) /\ Len(new) = to
  BY <1>1
<1>4. ASSUME NEW k \in 1..Len(new) PROVE new[k] = k
  <2>1. CASE k <= from
    BY <2>1, <1>1, <1>3
  <2>2. CASE k > from
    <3>1. new[k] = tail[k - from] /\ k - from \in 1..Len(tail)
      BY <2>2, <1>1, <1>3
    <3> QED BY <3>1, <1>2, <1>3
  <2> QED BY <2>1, <2>2, <1>3
<1> QED BY <1>3, <1>4 DEF tail

\* Submitting orders for conversion steps that name assets keeps the book typed.
LEMMA SubmitType ==
  ASSUME SwitchTypeOK, NEW steps \in SUBSET (1..Len(Plan)),
         \A i \in steps : Plan[i].asset_out \in Conversions,
         SubmitOrders(steps)
  PROVE  /\ book' \in [Conversions -> {"none", "SUBMITTED", "SETTLED"}]
         /\ orphaned' \subseteq Conversions /\ resubmitted' \subseteq Conversions
  BY DEF SwitchTypeOK, SubmitOrders

\* Conversion steps that are not broken name an asset of Conversions.
LEMMA AcquiringType ==
  ASSUME NEW steps \in SUBSET (1..Len(Plan)), \A i \in steps : ~Broken(i)
  PROVE  /\ Acquiring(steps) \in SUBSET (1..Len(Plan))
         /\ \A i \in Acquiring(steps) : Plan[i].asset_out \in Conversions
<1>1. \A i \in 1..Len(Plan) : Plan[i].asset_out \in Conversions \cup {NoAsset}
  <2> DEFINE Steps == [step : StepTypes, asset_out : Conversions \cup {NoAsset}]
  <2>1. Plan \in Seq(Steps)
    BY SwitchAssumption
  <2> HIDE DEF Steps
  <2>2. \A i \in 1..Len(Plan) : Plan[i] \in Steps
    BY <2>1
  <2> QED BY <2>2 DEF Steps
<1> QED
  BY <1>1 DEF Acquiring, Broken

\* What the step counter and the history of steps say of each other in every
\* state, also when a step has raised: PlanRunsInOrder, made inductive.
PlanAccount ==
  /\ ~escalation_enabled => state = "ARMED"
  /\ \A k \in 1..Len(executed) : executed[k] = k
  /\ state \in {"ARMED", "WATCHING"} => executed = <<>> /\ step_index = 0 /\ failed = 0
  /\ state = "ESCALATING" => Len(executed) = step_index /\ failed = 0
  /\ state \in {"LIQUIDATING", "DORMANT"} =>
       IF failed = 0 THEN Len(executed) = Len(Plan) ELSE Len(executed) = failed

SwitchInv == SwitchTypeOK /\ PlanAccount

\* The steps that are due all run.
LEMMA RunStepsKeepsInv ==
  ASSUME SwitchInv, escalation_enabled, state = "ESCALATING", StepNo > step_index,
         RunSteps(DueStep), EndTick
  PROVE  SwitchInv'
<1> DEFINE last == DueStep
<1>1. /\ last \in Nat /\ step_index \in Nat /\ step_index <= last
      /\ last <= Len(Plan) /\ Len(Plan) \in Nat
  BY DueStepType DEF SwitchInv, SwitchTypeOK
<1>2. /\ executed \in Seq(1..Len(Plan)) /\ Len(executed) = step_index
      /\ \A k \in 1..Len(executed) : executed[k] = k
      /\ failed = 0
  BY DEF SwitchInv, SwitchTypeOK, PlanAccount
<1>3. executed' = executed \o IndexRange(step_index, last) /\ step_index' = last
  BY DEF RunSteps
<1> HIDE DEF last
<1>4. /\ executed' \in Seq(1..Len(Plan)) /\ Len(executed') = last
      /\ \A k \in 1..Len(executed') : executed'[k] = k
  BY <1>1, <1>2, <1>3, ExecutedGrows
<1>5. /\ book' \in [Conversions -> {"none", "SUBMITTED", "SETTLED"}]
      /\ orphaned' \subseteq Conversions /\ resubmitted' \subseteq Conversions
  <2>1. (step_index + 1)..last \in SUBSET (1..Len(Plan))
    BY <1>1
  <2>2. \A i \in (step_index + 1)..last : ~Broken(i)
    BY DEF RunSteps, last
  <2>3. SubmitOrders(Acquiring((step_index + 1)..last))
    BY DEF RunSteps, last
  <2> QED
    BY <2>1, <2>2, <2>3, AcquiringType, SubmitType DEF SwitchInv
<1>6. sinceLiquidating' \in Ages
  <2>1. MaxLag \in Nat /\ AgeCap \in Nat /\ MaxLag <= AgeCap
    BY SwitchAssumption DEF AgeCap, Threshold
  <2> QED
    BY <2>1 DEF SwitchInv, SwitchTypeOK, RunSteps, MarkLiquidating, Ages
<1>7. /\ thread' \in {"off", "sleep", "tick"} /\ stop_requested' \in BOOLEAN
      /\ lag' \in 0..MaxLag /\ sinceBeat' \in Ages
      /\ beating' \in BOOLEAN /\ UNCHANGED configVars
  BY SwitchAssumption DEF EndTick, SwitchInv, SwitchTypeOK
<1>8. /\ failed' = 0
      /\ \/ state' = "LIQUIDATING" /\ last = Len(Plan)
         \/ state' = "ESCALATING"
  BY <1>2 DEF RunSteps, last
<1>9. SwitchTypeOK'
  BY <1>1, <1>3, <1>4, <1>5, <1>6, <1>7, <1>8 DEF SwitchTypeOK, EscalationStates, SwitchInv
<1>10. PlanAccount'
  BY <1>3, <1>4, <1>7, <1>8 DEF PlanAccount
<1> QED
  BY <1>9, <1>10 DEF SwitchInv

\* One of the steps that are due raises.
LEMMA FailStepKeepsInv ==
  ASSUME SwitchInv, escalation_enabled, state = "ESCALATING", StepNo > step_index,
         NEW i \in (step_index + 1)..DueStep, NEW placed \in BOOLEAN,
         FailStep(i, placed), EndTick
  PROVE  SwitchInv'
<1>1. /\ i \in Nat \ {0} /\ step_index \in Nat /\ step_index < i
      /\ i <= Len(Plan) /\ Len(Plan) \in Nat
  BY DueStepType DEF SwitchInv, SwitchTypeOK
<1>2. /\ executed \in Seq(1..Len(Plan)) /\ Len(executed) = step_index
      /\ \A k \in 1..Len(executed) : executed[k] = k
  BY DEF SwitchInv, SwitchTypeOK, PlanAccount
<1>3. /\ executed' = executed \o IndexRange(step_index, i) /\ step_index' = i
      /\ state' = "LIQUIDATING" /\ failed' = i /\ sinceLiquidating' = sinceLiquidating
  BY DEF FailStep
<1>4. /\ executed' \in Seq(1..Len(Plan)) /\ Len(executed') = i
      /\ \A k \in 1..Len(executed') : executed'[k] = k
  BY <1>1, <1>2, <1>3, ExecutedGrows
<1>5. /\ book' \in [Conversions -> {"none", "SUBMITTED", "SETTLED"}]
      /\ orphaned' \subseteq Conversions /\ resubmitted' \subseteq Conversions
  <2> DEFINE before == (step_index + 1)..(i - 1)
             done   == Acquiring(before)
             own    == Acquiring({i})
  <2>1. before \in SUBSET (1..Len(Plan)) /\ {i} \in SUBSET (1..Len(Plan))
    BY <1>1
  <2>2. /\ \A j \in before : ~Broken(j)
        /\ placed => ~Broken(i)
        /\ SubmitOrders(IF placed THEN done \cup own ELSE done)
    BY DEF FailStep
  <2>3. /\ done \in SUBSET (1..Len(Plan))
        /\ \A j \in done : Plan[j].asset_out \in Conversions
    BY <2>1, <2>2, AcquiringType
  <2>4. placed => /\ own \in SUBSET (1..Len(Plan))
                  /\ \A j \in own : Plan[j].asset_out \in Conversions
    BY <2>1, <2>2, AcquiringType
  <2> HIDE DEF done, own, before
  <2>5. CASE placed
    <3>1. /\ done \cup own \in SUBSET (1..Len(Plan))
          /\ \A j \in done \cup own : Plan[j].asset_out \in Conversions
          /\ SubmitOrders(done \cup own)
      BY <2>2, <2>3, <2>4, <2>5
    <3> QED BY <3>1, SubmitType DEF SwitchInv
  <2>6. CASE ~placed
    <3>1. SubmitOrders(done)
      BY <2>2, <2>6
    <3> QED BY <3>1, <2>3, SubmitType DEF SwitchInv
  <2> QED BY <2>5, <2>6
<1>6. /\ thread' \in {"off", "sleep", "tick"} /\ stop_requested' \in BOOLEAN
      /\ lag' \in 0..MaxLag /\ sinceBeat' \in Ages
      /\ beating' \in BOOLEAN /\ UNCHANGED configVars
  BY SwitchAssumption DEF EndTick, SwitchInv, SwitchTypeOK
<1>7. SwitchTypeOK'
  BY <1>1, <1>3, <1>4, <1>5, <1>6 DEF SwitchTypeOK, EscalationStates, SwitchInv
<1>8. PlanAccount'
  BY <1>1, <1>3, <1>4, <1>6 DEF PlanAccount
<1> QED
  BY <1>7, <1>8 DEF SwitchInv

\* Every body of a tick keeps the invariant.
LEMMA TickKeepsInv == ASSUME SwitchInv, Tick PROVE SwitchInv'
<1>0. /\ EndTick /\ UNCHANGED configVars
      /\ MaxLag \in Nat /\ AgeCap \in Nat /\ MaxLag <= AgeCap
      /\ Len(Plan) \in Nat
  BY SwitchAssumption DEF Tick, EndTick, AgeCap, Threshold
<1>a. /\ thread' \in {"off", "sleep", "tick"} /\ stop_requested' \in BOOLEAN
      /\ lag' \in 0..MaxLag /\ sinceBeat' \in Ages
      /\ beating' \in BOOLEAN /\ UNCHANGED configVars
  BY <1>0 DEF EndTick, SwitchInv, SwitchTypeOK
<1>1. CASE TickDisabled
  BY <1>0, <1>a, <1>1
     DEF TickDisabled, SwitchInv, SwitchTypeOK, PlanAccount, EscalationStates, orderVars
<1>2. CASE TickArmed
  BY <1>0, <1>a, <1>2
     DEF TickArmed, SwitchInv, SwitchTypeOK, PlanAccount, EscalationStates, orderVars
<1>3. CASE TickWatching
  <2>1. UNCHANGED orderVars
    BY <1>3 DEF TickWatching
  <2>2. CASE Rearm /\ sinceLiquidating' = Never
    <3>1. Never \in Ages /\ <<>> \in Seq(1..Len(Plan))
      BY DEF Ages
    <3>2. SwitchTypeOK'
      BY <1>0, <1>a, <2>1, <2>2, <3>1
         DEF Rearm, SwitchInv, SwitchTypeOK, EscalationStates, orderVars
    <3>3. PlanAccount'
      BY <1>0, <2>2 DEF Rearm, PlanAccount
    <3> QED BY <3>2, <3>3 DEF SwitchInv
  <2>3. CASE /\ state = "WATCHING" /\ state' = "ESCALATING" /\ escalation_enabled
             /\ UNCHANGED <<step_index, sinceLiquidating, executed, failed>>
    BY <1>0, <1>a, <2>1, <2>3
       DEF SwitchInv, SwitchTypeOK, PlanAccount, EscalationStates, orderVars
  <2>4. CASE UNCHANGED planVars
    BY <1>0, <1>a, <2>1, <2>4
       DEF SwitchInv, SwitchTypeOK, PlanAccount, orderVars, planVars
  <2> QED BY <1>3, <2>2, <2>3, <2>4 DEF TickWatching
<1>4. CASE TickAbort
  BY <1>0, <1>a, <1>4
     DEF TickAbort, Rearm, SwitchInv, SwitchTypeOK, PlanAccount, EscalationStates, orderVars
<1>5. CASE TickEscalating
  <2>1. CASE Stay
    BY <1>0, <1>a, <2>1
       DEF Stay, SwitchInv, SwitchTypeOK, PlanAccount, orderVars, planVars
  <2>2. CASE StepNo > step_index /\ RunSteps(DueStep)
    BY <1>0, <1>5, <2>2, RunStepsKeepsInv DEF TickEscalating
  <2>3. CASE /\ StepNo > step_index
             /\ \E i \in (step_index + 1)..DueStep, placed \in BOOLEAN : FailStep(i, placed)
    BY <1>0, <1>5, <2>3, FailStepKeepsInv DEF TickEscalating
  <2> QED BY <1>5, <2>1, <2>2, <2>3 DEF TickEscalating
<1>6. CASE TickLiquidating
  BY <1>0, <1>a, <1>6
     DEF TickLiquidating, MarkLiquidating, SwitchInv, SwitchTypeOK, PlanAccount,
         EscalationStates, orderVars, Ages
<1>7. CASE TickDormant
  BY <1>0, <1>a, <1>7
     DEF TickDormant, Stay, SwitchInv, SwitchTypeOK, PlanAccount, orderVars, planVars
<1> QED
  BY <1>1, <1>2, <1>3, <1>4, <1>5, <1>6, <1>7 DEF Tick

LEMMA SwitchInvInductive ==
  ASSUME SwitchInv, [SwitchNext]_switchVars PROVE SwitchInv'
<1>0. MaxLag \in Nat /\ AgeCap \in Nat /\ Len(Plan) \in Nat
  BY SwitchAssumption DEF AgeCap, Threshold
<1> USE DEF SwitchInv
<1>1. ASSUME NEW signed \in BOOLEAN, Beat(signed) PROVE SwitchInv'
  BY <1>0, <1>1 DEF Beat, SwitchTypeOK, PlanAccount, planVars, orderVars, threadVars, Ages
<1>2. CASE Disarm
  <2>1. state \in EscalationStates
    BY DEF SwitchTypeOK
  <2>2. SwitchTypeOK'
    <3>1. /\ state' \in EscalationStates /\ executed' \in Seq(1..Len(Plan))
          /\ failed' \in 0..Len(Plan) /\ step_index' \in 0..Len(Plan)
      <4>1. <<>> \in Seq(1..Len(Plan)) /\ 0 \in 0..Len(Plan) /\ "ARMED" \in EscalationStates
        BY <1>0 DEF EscalationStates
      <4>2. \/ state' = "ARMED" /\ executed' = <<>> /\ failed' = 0
            \/ UNCHANGED <<state, executed, failed>>
        BY <1>2 DEF Disarm
      <4>3. step_index' = 0
        BY <1>2 DEF Disarm
      <4> QED BY <4>1, <4>2, <4>3 DEF SwitchTypeOK
    <3>2. sinceBeat' \in Ages /\ sinceLiquidating' \in Ages
      BY <1>0, <1>2 DEF Disarm, Ages
    <3> QED
      BY <1>2, <3>1, <3>2 DEF Disarm, SwitchTypeOK, orderVars, threadVars
  <2>3. PlanAccount'
    BY <1>2, <2>1 DEF Disarm, Transitions, PlanAccount, EscalationStates
  <2> QED BY <2>2, <2>3
<1>3. CASE SourceDies
  BY <1>3 DEF SourceDies, SwitchTypeOK, PlanAccount, planVars, orderVars, threadVars
<1>4. CASE TickBegin
  BY <1>0, <1>4 DEF TickBegin, SwitchTypeOK, PlanAccount, planVars, orderVars
<1>5. CASE Tick
  BY <1>5, TickKeepsInv
<1>6. CASE Start
  BY <1>6 DEF Start, SwitchTypeOK, PlanAccount, planVars, orderVars
<1>7. CASE Stop
  BY <1>7 DEF Stop, SwitchTypeOK, PlanAccount, planVars, orderVars
<1>8. ASSUME NEW a \in Conversions, Settle(a) PROVE SwitchInv'
  BY <1>8 DEF Settle, SwitchTypeOK, PlanAccount, planVars, threadVars
<1>9. CASE Clock
  <2>1. sinceBeat' \in Ages /\ sinceLiquidating' \in Ages
    BY <1>9, OlderType DEF Clock, SwitchTypeOK
  <2>2. lag' \in 0..MaxLag
    BY <1>0, <1>9 DEF Clock, SwitchTypeOK
  <2> QED
    BY <1>9, <2>1, <2>2 DEF Clock, SwitchTypeOK, PlanAccount, orderVars
<1>10. CASE UNCHANGED switchVars
  BY <1>10 DEF switchVars, planVars, orderVars, threadVars, SwitchTypeOK, PlanAccount
<1> QED
  BY <1>1, <1>2, <1>3, <1>4, <1>5, <1>6, <1>7, <1>8, <1>9, <1>10 DEF SwitchNext

LEMMA SwitchInvInitially == SwitchInit => SwitchInv
<1> SUFFICES ASSUME SwitchInit PROVE SwitchInv
  OBVIOUS
<1>1. MaxLag \in Nat /\ AgeCap \in Nat /\ Len(Plan) \in Nat
  BY SwitchAssumption DEF AgeCap, Threshold
<1>2. Never \in Ages /\ <<>> \in Seq(1..Len(Plan))
  BY DEF Ages
<1>3. SwitchTypeOK
  <2>1. /\ state \in EscalationStates /\ step_index \in 0..Len(Plan)
        /\ sinceBeat \in Ages /\ sinceLiquidating \in Ages
        /\ executed \in Seq(1..Len(Plan)) /\ failed \in 0..Len(Plan)
    BY <1>1, <1>2 DEF SwitchInit, EscalationStates
  <2>2. /\ book \in [Conversions -> {"none", "SUBMITTED", "SETTLED"}]
        /\ orphaned \subseteq Conversions /\ resubmitted \subseteq Conversions
    BY DEF SwitchInit
  <2>3. thread \in {"off", "sleep", "tick"} /\ lag \in 0..MaxLag
    BY <1>1 DEF SwitchInit
  <2>4. /\ stop_requested \in BOOLEAN /\ beating \in BOOLEAN
        /\ escalation_enabled \in BOOLEAN /\ governed \in BOOLEAN
    BY Zenon DEF SwitchInit
  <2> QED BY <2>1, <2>2, <2>3, <2>4 DEF SwitchTypeOK
<1>4. PlanAccount
  BY DEF SwitchInit, PlanAccount
<1> QED
  BY <1>3, <1>4 DEF SwitchInv

\* Type correctness of the switch (daemon.py:46-61): in particular the step
\* counter never leaves the plan, although tick() computes it from the clock.
THEOREM SwitchTypeCorrect == SwitchSpec => []SwitchTypeOK
<1>1. SwitchSpec => []SwitchInv
  BY SwitchInvInitially, SwitchInvInductive, PTL DEF SwitchSpec
<1> QED
  BY <1>1, PTL DEF SwitchInv

\* The escalation plan runs in order, each step once, and as long as no step
\* raises liquidation starts only when it is complete (daemon.py:128-192).
THEOREM SwitchPlanInOrder == SwitchSpec => []PlanRunsInOrder
<1>1. SwitchSpec => []SwitchInv
  BY SwitchInvInitially, SwitchInvInductive, PTL DEF SwitchSpec
<1>2. SwitchInv => PlanRunsInOrder
  BY DEF SwitchInv, PlanAccount, PlanRunsInOrder
<1> QED
  BY <1>1, <1>2, PTL

\* A quotient rounded down, times the divisor, does not exceed the dividend.
LEMMA DivisionBound ==
  ASSUME NEW d \in Int, NEW e \in Nat \ {0}, NEW n \in Int, n <= d \div e
  PROVE  n * e <= d
<1> DEFINE q == d \div e
<1>1. q \in Int /\ q * e <= d
  BY SMTT(30)
<1>2. \A a, b \in Int : a <= b => a * e <= b * e
  BY SMTT(30)
<1> HIDE DEF q
<1>3. n * e <= q * e
  BY <1>1, <1>2 DEF q
<1>4. n * e \in Int /\ q * e \in Int
  BY <1>1
<1> QED BY <1>1, <1>3, <1>4

\* If at most StepNo steps have run, and some have, there was silence enough.
LEMMA SilenceBound ==
  ASSUME SwitchTypeOK, NEW n \in Nat, n <= StepNo
  PROVE  sinceBeat >= Grace + n * Escalation
<1>1. /\ Grace \in Nat \ {0} /\ Escalation \in Nat \ {0}
      /\ Elapsed \in Int /\ n * Escalation \in Nat
  BY DueStepType, SwitchAssumption
<1>2. n * Escalation <= Elapsed - Grace
  <2>1. Elapsed - Grace \in Int /\ n <= (Elapsed - Grace) \div Escalation
    BY <1>1 DEF StepNo
  <2> QED BY <1>1, <2>1, DivisionBound
<1>3. sinceBeat # Never
  BY <1>1, <1>2 DEF Elapsed
<1>4. Elapsed = sinceBeat - lag
  BY <1>3 DEF Elapsed
<1>5. sinceBeat \in Int /\ lag \in Nat
  BY SwitchAssumption DEF SwitchTypeOK, Ages, Never, AgeCap, Threshold
<1> QED BY <1>1, <1>2, <1>4, <1>5

\* Only the catch-up loop of an escalating tick attempts steps.
LEMMA StepsRunInTicks ==
  ASSUME SwitchInv, [SwitchNext]_switchVars, Len(executed') > Len(executed)
  PROVE  Len(executed') \in Nat /\ Len(executed') <= StepNo
<1> USE DEF SwitchInv
<1>0. /\ executed \in Seq(1..Len(Plan)) /\ Len(executed) \in Nat
      /\ Len(<<>>) = 0 /\ ~(Len(executed) > Len(executed)) /\ ~(0 > Len(executed))
  BY DEF SwitchTypeOK
<1>1. executed' # executed /\ executed' # <<>>
  BY <1>0
<1>2. Tick
  BY <1>1, Zenon
     DEF SwitchNext, switchVars, planVars, Beat, Disarm, SourceDies, TickBegin, Start, Stop,
         Settle, Clock
<1>3. TickEscalating
  BY <1>1, <1>2, Zenon
     DEF Tick, TickDisabled, TickArmed, TickWatching, TickAbort, Rearm, TickLiquidating,
         TickDormant, Stay, planVars
<1>4. state = "ESCALATING" /\ StepNo > step_index /\ DueStep <= StepNo
  BY <1>1, <1>3, DueStepType DEF TickEscalating, Stay, planVars
<1>5. /\ DueStep \in Int /\ StepNo \in Int /\ step_index \in Nat /\ Len(Plan) \in Nat
      /\ step_index <= DueStep /\ DueStep <= Len(Plan)
      /\ Len(executed) = step_index /\ \A k \in 1..Len(executed) : executed[k] = k
  BY <1>4, DueStepType DEF PlanAccount, SwitchTypeOK
<1>6. CASE RunSteps(DueStep)
  <2>1. executed' = executed \o IndexRange(step_index, DueStep)
    BY <1>6 DEF RunSteps
  <2>2. Len(executed') = DueStep
    BY <1>0, <1>5, <2>1, ExecutedGrows
  <2> QED BY <1>4, <1>5, <2>2
<1>7. ASSUME NEW i \in (step_index + 1)..DueStep, NEW placed \in BOOLEAN, FailStep(i, placed)
      PROVE  Len(executed') \in Nat /\ Len(executed') <= StepNo
  <2>1. executed' = executed \o IndexRange(step_index, i)
    BY <1>7 DEF FailStep
  <2>2. Len(executed') = i
    BY <1>0, <1>5, <2>1, ExecutedGrows
  <2> QED BY <1>4, <1>5, <2>2
<1> QED
  BY <1>3, <1>4, <1>1, <1>6, <1>7 DEF TickEscalating, Stay, planVars

\* No plan step runs before its share of real silence has passed, for every
\* delay between a tick's clock reading and its body (daemon.py:130-162).
THEOREM SwitchStepsAfterSilence == SwitchSpec => StepsOnlyAfterSilence
<1>1. SwitchSpec => []SwitchInv
  BY SwitchInvInitially, SwitchInvInductive, PTL DEF SwitchSpec
<1>2. SwitchInv /\ [SwitchNext]_switchVars
        => [Len(executed') > Len(executed)
              => sinceBeat >= Grace + Len(executed') * Escalation]_switchVars
  BY StepsRunInTicks, SilenceBound DEF SwitchInv
<1> QED
  BY <1>1, <1>2, PTL DEF SwitchSpec, StepsOnlyAfterSilence

-----------------------------------------------------------------------------
(* No asset is converted twice.                                            *)

\* Every order in the oracle's book is that of a conversion step the counter
\* has passed.
OneOrderEach ==
  ConvertsPastThreshold /\ ~governed =>
    /\ resubmitted = {} /\ orphaned = {}
    /\ \A a \in Conversions : book[a] # "none" =>
         \E i \in Acquiring(1..step_index) : Plan[i].asset_out = a

\* Later steps convert other assets.
LEMMA SubmitOnce ==
  ASSUME SwitchTypeOK, OneOrderEach, UNCHANGED governed, NEW n \in step_index..Len(Plan),
         NEW steps \in SUBSET Acquiring((step_index + 1)..n), SubmitOrders(steps),
         \A i \in steps : Plan[i].asset_out \in Conversions,
         step_index' = n
  PROVE  OneOrderEach'
<1> SUFFICES ASSUME ConvertsPastThreshold, ~governed
             PROVE  /\ resubmitted' = {} /\ orphaned' = {}
                    /\ \A a \in Conversions : book'[a] # "none" =>
                         \E i \in Acquiring(1..n) : Plan[i].asset_out = a
  BY DEF OneOrderEach
<1> DEFINE assets == {Plan[i].asset_out : i \in steps}
           twice  == {a \in assets :
                        \/ book[a] # "none"
                        \/ \E i, j \in steps : i # j /\ Plan[i].asset_out = a
                                                     /\ Plan[j].asset_out = a}
<1>1. /\ step_index \in Nat /\ n \in Nat /\ Len(Plan) \in Nat /\ step_index <= n
      /\ n <= Len(Plan)
  BY SwitchAssumption DEF SwitchTypeOK
<1>2. /\ resubmitted = {} /\ orphaned = {}
      /\ \A a \in Conversions : book[a] # "none" =>
           \E i \in Acquiring(1..step_index) : Plan[i].asset_out = a
  BY DEF OneOrderEach
<1>3. \A i \in steps : /\ i \in Acquiring(1..Len(Plan)) /\ i \in Acquiring(1..n)
                      /\ i \in Int /\ i > step_index
  BY <1>1 DEF Acquiring
<1>4. \A i \in Acquiring(1..step_index) :
        /\ i \in Acquiring(1..Len(Plan)) /\ i \in Acquiring(1..n)
        /\ i \in Int /\ i <= step_index
  BY <1>1 DEF Acquiring
<1>5. \A i, j \in steps : Plan[i].asset_out = Plan[j].asset_out => i = j
  BY <1>3 DEF ConvertsPastThreshold
<1>6. \A i \in steps, j \in Acquiring(1..step_index) : Plan[i].asset_out # Plan[j].asset_out
  BY <1>1, <1>3, <1>4 DEF ConvertsPastThreshold
<1>7. \A a \in assets : a \in Conversions /\ book[a] = "none"
  BY <1>2, <1>6
<1>8. twice = {}
  BY <1>5, <1>7
<1>9. /\ book' = [a \in Conversions |-> IF a \in assets THEN "SUBMITTED" ELSE book[a]]
      /\ orphaned' \subseteq orphaned \cup twice /\ resubmitted' = resubmitted \cup twice
  BY Zenon DEF SubmitOrders
<1>10. resubmitted' = {} /\ orphaned' = {}
  BY <1>2, <1>8, <1>9
<1>11. ASSUME NEW a \in Conversions, book'[a] # "none"
       PROVE  \E i \in Acquiring(1..n) : Plan[i].asset_out = a
  <2>1. CASE a \in assets
    BY <2>1, <1>3
  <2>2. CASE a \notin assets
    <3>1. book[a] # "none"
      BY <1>9, <1>11, <2>2
    <3> QED BY <3>1, <1>2, <1>4
  <2> QED BY <2>1, <2>2
<1> QED BY <1>10, <1>11

\* A step that leaves the orders, the counter and the configuration alone.
LEMMA OrdersUntouched ==
  ASSUME OneOrderEach, UNCHANGED <<orderVars, step_index, governed>> PROVE OneOrderEach'
  BY DEF OneOrderEach, orderVars

\* An order is for good: the tick that goes back to step 0 finds no order.
LEMMA TickConvertsOnce ==
  ASSUME SwitchInv, OneOrderEach, Tick PROVE OneOrderEach'
<1> USE DEF SwitchInv
<1>0. UNCHANGED governed /\ EndTick
  BY DEF Tick, EndTick
<1>1. CASE TickDisabled \/ TickArmed \/ TickLiquidating \/ TickDormant
  BY <1>0, <1>1, OrdersUntouched
     DEF TickDisabled, TickArmed, TickLiquidating, TickDormant, Stay, planVars
<1>2. CASE TickWatching
  <2>1. step_index = 0 /\ step_index' = 0 /\ UNCHANGED orderVars
    BY <1>2 DEF TickWatching, PlanAccount, Rearm, planVars
  <2> QED BY <1>0, <2>1, OrdersUntouched
<1>3. CASE TickAbort
  <2>1. step_index' = 0 /\ UNCHANGED orderVars /\ step_index < AbortableUntil
    BY <1>3 DEF TickAbort, Rearm, CanAbort
  <2> SUFFICES ASSUME ConvertsPastThreshold, ~governed
               PROVE  \A a \in Conversions : book[a] = "none"
    BY <1>0, <2>1 DEF OneOrderEach, orderVars
  <2>2. step_index \in Nat /\ Len(Plan) \in Nat /\ step_index <= Len(Plan) /\ AbortableUntil \in Nat
    BY SwitchAssumption DEF SwitchTypeOK
  <2>3. Acquiring(1..step_index) = {}
    BY <2>1, <2>2 DEF ConvertsPastThreshold, Acquiring
  <2> QED BY <2>3 DEF OneOrderEach
<1>4. CASE TickEscalating
  <2>1. CASE Stay
    BY <1>0, <2>1, OrdersUntouched DEF Stay, planVars
  <2>2. CASE StepNo > step_index /\ RunSteps(DueStep)
    <3> DEFINE due   == (step_index + 1)..DueStep
               steps == Acquiring(due)
    <3>1. /\ \A i \in due : ~Broken(i)
          /\ SubmitOrders(steps) /\ step_index' = DueStep
      BY <2>2 DEF RunSteps
    <3>2. due \in SUBSET (1..Len(Plan)) /\ DueStep \in step_index..Len(Plan)
      BY <2>2, DueStepType DEF SwitchTypeOK
    <3>3. \A i \in steps : Plan[i].asset_out \in Conversions
      BY <3>1, <3>2, AcquiringType
    <3>4. steps \in SUBSET Acquiring((step_index + 1)..DueStep)
      OBVIOUS
    <3> HIDE DEF steps
    <3> QED BY <1>0, <3>1, <3>2, <3>3, <3>4, SubmitOnce
  <2>3. ASSUME StepNo > step_index, NEW i \in (step_index + 1)..DueStep,
               NEW placed \in BOOLEAN, FailStep(i, placed)
        PROVE  OneOrderEach'
    <3> DEFINE before == (step_index + 1)..(i - 1)
               done   == Acquiring(before)
               own    == Acquiring({i})
               steps  == IF placed THEN done \cup own ELSE done
    <3>1. /\ \A j \in before : ~Broken(j)
          /\ placed => ~Broken(i)
          /\ SubmitOrders(steps) /\ step_index' = i
      BY <2>3 DEF FailStep
    <3>2. /\ i \in step_index..Len(Plan)
          /\ before \in SUBSET (1..Len(Plan)) /\ {i} \in SUBSET (1..Len(Plan))
          /\ before \subseteq (step_index + 1)..i /\ {i} \subseteq (step_index + 1)..i
      BY <2>3, DueStepType DEF SwitchTypeOK
    <3>3. /\ \A j \in done : Plan[j].asset_out \in Conversions
          /\ placed => \A j \in own : Plan[j].asset_out \in Conversions
      BY <3>1, <3>2, AcquiringType
    <3>4. \A j \in steps : Plan[j].asset_out \in Conversions
      <4> HIDE DEF done, own
      <4> QED BY <3>3
    <3>5. steps \in SUBSET Acquiring((step_index + 1)..i)
      BY <3>2 DEF Acquiring
    <3> HIDE DEF steps
    <3> QED BY <1>0, <3>1, <3>2, <3>4, <3>5, SubmitOnce
  <2> QED BY <1>4, <2>1, <2>2, <2>3 DEF TickEscalating
<1> QED
  BY <1>1, <1>2, <1>3, <1>4 DEF Tick

LEMMA OneOrderEachInductive ==
  ASSUME SwitchInv, OneOrderEach, [SwitchNext]_switchVars PROVE OneOrderEach'
<1>1. CASE Disarm
  BY <1>1 DEF Disarm, OneOrderEach
<1>2. CASE Tick
  BY <1>2, TickConvertsOnce
<1>3. ASSUME NEW a \in Conversions, Settle(a) PROVE OneOrderEach'
  <2>1. /\ UNCHANGED <<resubmitted, orphaned, step_index, governed>>
        /\ \A b \in Conversions : book'[b] # "none" => book[b] # "none"
    BY <1>3 DEF Settle, SwitchInv, SwitchTypeOK, planVars
  <2> QED BY <2>1 DEF OneOrderEach
<1>4. CASE \/ \E signed \in BOOLEAN : Beat(signed)
           \/ SourceDies \/ TickBegin \/ Start \/ Stop \/ Clock \/ UNCHANGED switchVars
  BY <1>4, OrdersUntouched
     DEF Beat, SourceDies, TickBegin, Start, Stop, Clock, switchVars, planVars
<1> QED
  BY <1>1, <1>2, <1>3, <1>4 DEF SwitchNext

\* Under a plan whose conversion steps name distinct assets and lie beyond the
\* abort threshold, and without governance intervention, no asset is converted
\* twice (daemon.py:128-192, oracle.py): neither an abort, nor a catch-up over
\* several steps, nor a step that raised makes the switch submit again.
THEOREM SwitchConvertsOnce == SwitchSpec => []NoAssetConvertedTwice
<1>1. SwitchInit => OneOrderEach
  BY DEF SwitchInit, OneOrderEach
<1>2. SwitchSpec => [](SwitchInv /\ OneOrderEach)
  BY <1>1, SwitchInvInitially, SwitchInvInductive, OneOrderEachInductive, PTL DEF SwitchSpec
<1>3. OneOrderEach => NoAssetConvertedTwice
  BY DEF OneOrderEach, NoAssetConvertedTwice
<1> QED
  BY <1>2, <1>3, PTL

-----------------------------------------------------------------------------
(* Forward only.                                                           *)

\* The ladder, from the bottom.
Rung(s) ==
  IF s = "ARMED" THEN 0 ELSE IF s = "WATCHING" THEN 1 ELSE IF s = "ESCALATING" THEN 2
  ELSE IF s = "LIQUIDATING" THEN 3 ELSE 4

\* A step leaves what has become irreversible as it is: liquidation and dormancy
\* for everybody, and a plan past its abort threshold for everybody but
\* governance.
NeverUndone ==
  /\ state = "DORMANT" => state' = "DORMANT"
  /\ state = "LIQUIDATING" => state' \in {"LIQUIDATING", "DORMANT"}
  /\ ~governed /\ state = "ESCALATING" /\ ~CanAbort =>
       state' \in {"ESCALATING", "LIQUIDATING"} /\ step_index' >= step_index

\* The tick bodies, by what they do to the ladder and the counter.
LEMMA TickMoves ==
  ASSUME SwitchInv, Tick
  PROVE  \/ UNCHANGED <<state, step_index>>
         \/ Elapsed <= Grace /\ state' = "ARMED" /\ (state = "WATCHING" \/ (state = "ESCALATING" /\ CanAbort))
         \/ state = "ARMED" /\ state' = "WATCHING" /\ step_index' = step_index
         \/ state = "WATCHING" /\ state' = "ESCALATING" /\ step_index' = step_index
         \/ state = "ESCALATING" /\ state' \in {"ESCALATING", "LIQUIDATING"} /\ step_index' >= step_index
         \/ state = "LIQUIDATING" /\ state' = "DORMANT" /\ step_index' = step_index
<1>0. step_index \in Int
  BY SwitchAssumption DEF SwitchInv, SwitchTypeOK
<1>1. CASE TickDisabled
  BY <1>1 DEF TickDisabled, SwitchInv, PlanAccount
<1>2. CASE TickArmed
  BY <1>2 DEF TickArmed
<1>3. CASE TickWatching
  BY <1>3 DEF TickWatching, Rearm, planVars
<1>4. CASE TickAbort
  BY <1>4 DEF TickAbort, Rearm
<1>5. CASE TickEscalating
  <2>1. state = "ESCALATING"
    BY <1>5 DEF TickEscalating
  <2>2. CASE Stay
    BY <2>2 DEF Stay, planVars
  <2>3. CASE StepNo > step_index /\ RunSteps(DueStep)
    <3>1. DueStep >= step_index
      BY <2>3, DueStepType DEF SwitchInv
    <3>2. step_index' = DueStep /\ state' \in {"ESCALATING", "LIQUIDATING"}
      BY <2>1, <2>3 DEF RunSteps
    <3> QED BY <2>1, <3>1, <3>2
  <2>4. ASSUME NEW i \in (step_index + 1)..DueStep, NEW placed \in BOOLEAN, FailStep(i, placed)
        PROVE  state' = "LIQUIDATING" /\ step_index' >= step_index
    <3>1. DueStep \in Int /\ step_index' = i /\ state' = "LIQUIDATING"
      BY <2>4, DueStepType DEF SwitchInv, FailStep
    <3> QED BY <1>0, <3>1
  <2> QED BY <1>5, <2>1, <2>2, <2>3, <2>4 DEF TickEscalating
<1>6. CASE TickLiquidating
  BY <1>6 DEF TickLiquidating
<1>7. CASE TickDormant
  BY <1>7 DEF TickDormant, Stay, planVars
<1> QED BY <1>1, <1>2, <1>3, <1>4, <1>5, <1>6, <1>7 DEF Tick

\* The other steps of the switch, disarming apart, touch neither.
LEMMA OthersStay ==
  ASSUME [SwitchNext]_switchVars, ~Tick, ~Disarm
  PROVE  UNCHANGED <<state, step_index>>
BY DEF SwitchNext, switchVars, planVars, Beat, SourceDies, TickBegin, Start, Stop, Settle, Clock

LEMMA NeverUndoneStep ==
  ASSUME SwitchInv, [SwitchNext]_switchVars
  PROVE  NeverUndone
<1>0. step_index \in Int /\ state \in EscalationStates
  BY SwitchAssumption DEF SwitchInv, SwitchTypeOK
<1>1. CASE Tick
  BY <1>0, <1>1, TickMoves DEF NeverUndone
<1>2. CASE Disarm
  BY <1>2 DEF Disarm, Transitions, NeverUndone
<1>3. CASE UNCHANGED <<state, step_index>>
  BY <1>0, <1>3 DEF NeverUndone
<1> QED BY <1>1, <1>2, <1>3, OthersStay

\* What is irreversible stays so, for every plan and every threshold: a beat
\* that comes back after abortable_until_step stalls the plan at worst, it
\* never re-arms the switch, and nothing takes it back from liquidation
\* (daemon.py:29-35, 82-104, 154-157).
THEOREM SwitchNeverUndone == SwitchSpec => [][NeverUndone]_switchVars
<1>1. SwitchSpec => []SwitchInv
  BY SwitchInvInitially, SwitchInvInductive, PTL DEF SwitchSpec
<1>2. SwitchInv /\ [SwitchNext]_switchVars => [NeverUndone]_switchVars
  BY NeverUndoneStep
<1> QED BY <1>1, <1>2, PTL DEF SwitchSpec

-----------------------------------------------------------------------------
(* Before the first beat.                                                  *)

Unbeaten == sinceBeat = Never => state = "ARMED"

LEMMA UnbeatenStep ==
  ASSUME SwitchInv, Unbeaten, [SwitchNext]_switchVars
  PROVE  /\ Unbeaten'
         /\ ~beating /\ ~governed /\ sinceBeat = Never => sinceBeat' = Never
<1>0. AgeCap \in Nat /\ Grace \in Nat
  BY SwitchAssumption DEF AgeCap, Threshold
<1>1. CASE Tick
  <2>1. sinceBeat' = sinceBeat
    BY <1>1 DEF Tick, EndTick
  <2>2. sinceBeat = Never => state = "ARMED" /\ Elapsed = 0
    BY DEF Unbeaten, Elapsed
  <2>3. sinceBeat = Never => state' = "ARMED"
    BY <1>0, <1>1, <2>2
       DEF Tick, TickDisabled, TickArmed, TickWatching, TickAbort, TickEscalating, TickLiquidating,
           TickDormant
  <2> QED BY <2>1, <2>3 DEF Unbeaten
<1>2. CASE Disarm
  BY <1>2 DEF Disarm, Unbeaten, Never
<1>3. ASSUME NEW signed \in BOOLEAN, Beat(signed)
      PROVE  sinceBeat' # Never /\ beating
  BY <1>3 DEF Beat, Never
<1>4. CASE Clock
  <2>1. state' = state /\ sinceBeat' = Older(sinceBeat)
    BY <1>4 DEF Clock
  <2>2. sinceBeat \in Ages
    BY DEF SwitchInv, SwitchTypeOK
  <2>3. sinceBeat' = Never <=> sinceBeat = Never
    BY <1>0, <2>1, <2>2 DEF Older, Never, Ages
  <2> QED BY <2>1, <2>3 DEF Unbeaten
<1>5. CASE UNCHANGED <<state, sinceBeat>>
  BY <1>5 DEF Unbeaten
<1> QED
  BY <1>1, <1>2, <1>3, <1>4, <1>5
     DEF SwitchNext, switchVars, planVars, SourceDies, TickBegin, Start, Stop, Settle, Unbeaten

\* The switch is blind until its first beat: it stays ARMED, whatever the
\* clock says, and if the source dies before it has beaten once and nobody
\* disarms, that is for ever (daemon.py:132: elapsed is 0 without _last_beat).
THEOREM SwitchBlindUntilBeat ==
  SwitchSpec => /\ []Unbeaten
                /\ [][~beating /\ ~governed /\ sinceBeat = Never => sinceBeat' = Never]_switchVars
<1>1. SwitchSpec => []SwitchInv
  BY SwitchInvInitially, SwitchInvInductive, PTL DEF SwitchSpec
<1>2. SwitchInit => Unbeaten
  BY DEF SwitchInit, Unbeaten
<1>3. SwitchInv /\ Unbeaten /\ [SwitchNext]_switchVars
        => Unbeaten' /\ [~beating /\ ~governed /\ sinceBeat = Never => sinceBeat' = Never]_switchVars
  BY UnbeatenStep
<1> QED BY <1>1, <1>2, <1>3, PTL DEF SwitchSpec

-----------------------------------------------------------------------------
(* Silence.  That the switch does reach DORMANT needs fairness and stays   *)
(* with TLC; that silence is never forgotten and that a late tick never    *)
(* idles are facts about the steps.                                        *)

\* The tick at hand, or the next one, reads a clock beyond the grace period.
Late == sinceBeat # Never /\ Elapsed > Grace

\* The source has died, nobody can disarm, and its silence shows.
Silent == ~beating /\ ~governed /\ Late

\* The ladder is climbed and the plan goes on, neither goes back.
Forward == Rung(state') >= Rung(state) /\ step_index' >= step_index

\* The reading of a tick, and of the tick after it, stays beyond the grace
\* period, also when ages are no longer told apart.
LEMMA LateStays ==
  ASSUME SwitchInv, Late, Clock \/ Tick \/ TickBegin \/ UNCHANGED <<sinceBeat, lag>>
  PROVE  Late'
<1>0. /\ Grace \in Nat /\ Escalation \in Nat /\ LiquidationGrace \in Nat /\ MaxLag \in Nat
      /\ sinceBeat \in Ages /\ lag \in 0..MaxLag
  BY SwitchAssumption DEF SwitchInv, SwitchTypeOK
<1>1. PICK cap \in Nat : cap = AgeCap
  BY SwitchAssumption DEF AgeCap, Threshold
<1>2. cap > Grace + MaxLag
  <2>1. PICK n \in Nat : n = (Len(Plan) + 1) * Escalation
    BY <1>0, SwitchAssumption
  <2>2. cap = Grace + n + LiquidationGrace + MaxLag + 1
    BY <1>0, <1>1, <2>1 DEF AgeCap, Threshold
  <2> QED BY <1>0, <2>1, <2>2
<1>3. sinceBeat \in 0..cap /\ sinceBeat - lag > Grace
  BY <1>0, <1>1 DEF Late, Elapsed, Ages
<1>4. CASE Clock
  <2>1. /\ sinceBeat' = IF sinceBeat \in 0..(cap - 1) THEN sinceBeat + 1 ELSE sinceBeat
        /\ lag' = lag \/ (lag' = lag + 1 /\ lag < MaxLag)
    BY <1>1, <1>4 DEF Clock, Older
  <2>2. sinceBeat' - lag' > Grace /\ sinceBeat' # -1
    <3>1. CASE sinceBeat \in 0..(cap - 1)
      BY <1>0, <1>1, <1>3, <2>1, <3>1
    <3>2. CASE sinceBeat = cap
      BY <1>0, <1>1, <1>2, <2>1, <3>2
    <3> QED BY <1>1, <1>3, <3>1, <3>2
  <2> QED BY <2>2 DEF Late, Elapsed, Never
<1>5. CASE Tick \/ TickBegin
  <2>1. sinceBeat' = sinceBeat /\ lag' = 0
    BY <1>5 DEF Tick, EndTick, TickBegin
  <2> QED BY <1>0, <1>1, <1>3, <2>1 DEF Late, Elapsed, Never
<1>6. CASE UNCHANGED <<sinceBeat, lag>>
  BY <1>6 DEF Late, Elapsed
<1> QED BY <1>4, <1>5, <1>6

LEMMA SilenceLasts ==
  ASSUME SwitchInv, Silent, [SwitchNext]_switchVars
  PROVE  Silent'
<1>1. ~beating /\ ~governed /\ Late
  BY DEF Silent
<1>2. Clock \/ Tick \/ TickBegin \/ UNCHANGED <<sinceBeat, lag>>
  BY <1>1 DEF SwitchNext, switchVars, threadVars, Beat, Disarm, SourceDies, Start, Stop, Settle
<1>3. beating' = beating /\ governed' = governed
  BY <1>1 DEF SwitchNext, switchVars, Beat, Disarm, SourceDies, Start, Stop, Settle, Clock, Tick,
              EndTick, TickBegin
<1> QED BY <1>1, <1>2, <1>3, LateStays DEF Silent

\* A late tick never re-arms.
LEMMA LateForward ==
  ASSUME SwitchInv, Late, Tick \/ UNCHANGED <<state, step_index>>
  PROVE  Forward
<1>0. step_index \in Int /\ state \in EscalationStates /\ Elapsed \in Int /\ Grace \in Int
  BY SwitchAssumption, DueStepType DEF SwitchInv, SwitchTypeOK
<1>1. CASE Tick
  BY <1>0, <1>1, TickMoves DEF Late, Forward, Rung
<1>2. CASE UNCHANGED <<state, step_index>>
  BY <1>0, <1>2 DEF Forward, Rung
<1> QED BY <1>1, <1>2

LEMMA SilenceForward ==
  ASSUME SwitchInv, Silent, [SwitchNext]_switchVars
  PROVE  Forward
<1>1. Late /\ ~Disarm
  BY DEF Silent, Disarm
<1> QED BY <1>1, LateForward, OthersStay

\* Once the source has died and its silence has passed the grace period, the
\* switch only moves forward: no delayed tick, settlement, stop or restart of
\* the thread takes it back a rung or makes it forget a step
\* (daemon.py:128-192).
THEOREM SwitchSilenceForward == SwitchSpec => [][Silent => Silent' /\ Forward]_switchVars
<1>1. SwitchSpec => []SwitchInv
  BY SwitchInvInitially, SwitchInvInductive, PTL DEF SwitchSpec
<1>2. SwitchInv /\ [SwitchNext]_switchVars => [Silent => Silent' /\ Forward]_switchVars
  BY SilenceLasts, SilenceForward
<1> QED BY <1>1, <1>2, PTL DEF SwitchSpec

\* A multiple of the divisor that fits into the dividend fits into the quotient.
LEMMA DivisionReached ==
  ASSUME NEW d \in Int, NEW e \in Nat \ {0}, NEW n \in Nat, n * e <= d
  PROVE  n <= d \div e
<1>1. PICK q \in Int : q = d \div e
  OBVIOUS
<1>2. d < (q + 1) * e
  BY <1>1, SMTT(30)
<1>3. \A a, b \in Int : a <= b => a * e <= b * e
  BY SMTT(30)
<1>4. ~(q + 1 <= n)
  <2>1. q + 1 <= n => (q + 1) * e <= n * e
    BY <1>1, <1>3
  <2>2. (q + 1) * e \in Int /\ n * e \in Int
    BY <1>1
  <2> QED BY <1>2, <2>1, <2>2
<1> QED BY <1>1, <1>4

\* The reading of the tick is beyond the time of every step of the plan.
Overdue == sinceBeat # Never /\ Elapsed >= Grace + (Len(Plan) + 1) * Escalation

\* A tick climbs a rung, unless the switch is dormant or an order is pending
\* and its clock, which is running, has not run out.
Climbs ==
  \/ Rung(state') > Rung(state)
  \/ state = "DORMANT" /\ state' = "DORMANT"
  \/ /\ state = "LIQUIDATING" /\ Pending
     /\ sinceLiquidating' # Never /\ sinceLiquidating' - lag <= LiquidationGrace

\* A plan that escalates is not complete; one without steps never liquidates.
PlanAhead ==
  /\ Plan # <<>> /\ state = "ESCALATING" => step_index < Len(Plan)
  /\ Plan = <<>> => state \notin {"LIQUIDATING", "DORMANT"}

LEMMA PlanAheadStep ==
  ASSUME SwitchInv, PlanAhead, [SwitchNext]_switchVars
  PROVE  PlanAhead'
<1>0. PICK n \in Nat : n = Len(Plan)
  BY SwitchAssumption
<1>1. (Plan = <<>> <=> n = 0) /\ step_index \in 0..n
  BY <1>0, SwitchAssumption DEF SwitchInv, SwitchTypeOK
<1>2. CASE UNCHANGED <<state, step_index>>
  BY <1>2 DEF PlanAhead
<1>3. CASE Disarm
  <2>1. state' = state \/ state' = "ARMED"
    BY <1>3 DEF Disarm
  <2>2. step_index' = 0
    BY <1>3 DEF Disarm
  <2> QED BY <1>0, <1>1, <2>1, <2>2 DEF PlanAhead
<1>4. CASE Tick
  <2>1. CASE TickEscalating
    <3>1. state = "ESCALATING"
      BY <2>1 DEF TickEscalating
    <3>2. CASE Stay
      BY <3>2 DEF Stay, planVars, PlanAhead
    <3>3. CASE StepNo > step_index /\ RunSteps(DueStep)
      <4>1. PICK last \in Int : last = DueStep /\ last <= n /\ last >= step_index
        BY <1>0, <3>3, DueStepType DEF SwitchInv
      <4>2. /\ step_index' = last
            /\ IF last = n /\ last > step_index THEN state' = "LIQUIDATING" ELSE state' = state
        BY <1>0, <3>3, <4>1 DEF RunSteps
      <4>3. CASE n = 0
        <5>1. ~(last > step_index)
          BY <1>1, <4>1, <4>3
        <5>2. state' = "ESCALATING"
          BY <3>1, <4>2, <5>1
        <5> QED BY <1>1, <4>3, <5>2 DEF PlanAhead
      <4>4. CASE n # 0
        <5>1. step_index < n
          BY <1>0, <1>1, <3>1, <4>4 DEF PlanAhead
        <5>2. state' = "ESCALATING" => last < n
          BY <1>1, <4>1, <4>2, <5>1
        <5> QED BY <1>0, <1>1, <4>2, <4>4, <5>2 DEF PlanAhead
      <4> QED BY <4>3, <4>4
    <3>4. ASSUME NEW i \in (step_index + 1)..DueStep, NEW placed \in BOOLEAN, FailStep(i, placed)
          PROVE  PlanAhead'
      <4>1. DueStep \in Int /\ DueStep <= n
        BY <1>0, DueStepType DEF SwitchInv
      <4>2. n # 0
        BY <1>1, <3>4, <4>1
      <4>3. state' = "LIQUIDATING"
        BY <3>4 DEF FailStep
      <4> QED BY <1>1, <4>2, <4>3 DEF PlanAhead
    <3> QED BY <2>1, <3>2, <3>3, <3>4 DEF TickEscalating
  <2>2. CASE TickWatching
    <3>1. step_index = 0 /\ step_index' = 0 /\ state' \in {"ARMED", "WATCHING", "ESCALATING"}
      BY <2>2 DEF TickWatching, Rearm, planVars, SwitchInv, PlanAccount
    <3> QED BY <1>0, <1>1, <3>1 DEF PlanAhead
  <2>3. CASE TickDisabled \/ TickArmed \/ TickAbort
    <3>1. state' \in {"ARMED", "WATCHING"}
      BY <2>3 DEF TickDisabled, TickArmed, TickAbort, Rearm
    <3> QED BY <3>1 DEF PlanAhead
  <2>4. CASE TickLiquidating \/ TickDormant
    <3>1. state \in {"LIQUIDATING", "DORMANT"} /\ state' \in {"LIQUIDATING", "DORMANT"}
      BY <2>4 DEF TickLiquidating, TickDormant, Stay, planVars
    <3> QED BY <3>1 DEF PlanAhead
  <2> QED BY <1>4, <2>1, <2>2, <2>3, <2>4 DEF Tick
<1> QED BY <1>2, <1>3, <1>4, OthersStay

LEMMA TickClimbs ==
  ASSUME SwitchInv, PlanAhead, Plan # <<>>, Tick, escalation_enabled, Overdue
  PROVE  Climbs
<1>0. PICK n \in Nat \ {0} : n = Len(Plan)
  BY SwitchAssumption
<1>1. /\ Grace \in Nat /\ Escalation \in Nat \ {0} /\ LiquidationGrace \in Nat
      /\ Elapsed \in Int /\ StepNo \in Int /\ lag \in Nat /\ step_index \in 0..n
      /\ sinceLiquidating \in Int
  <2>1. Elapsed \in Int /\ StepNo \in Int
    BY DueStepType DEF SwitchInv
  <2> QED BY <1>0, <2>1, SwitchAssumption
             DEF SwitchInv, SwitchTypeOK, Ages, Never, AgeCap, Threshold
<1>2. (n + 1) * Escalation <= Elapsed - Grace /\ (n + 1) * Escalation \in Int
  BY <1>0, <1>1 DEF Overdue
<1>3. StepNo >= n + 1
  <2>1. n + 1 <= (Elapsed - Grace) \div Escalation
    <3>1. Elapsed - Grace \in Int /\ n + 1 \in Nat
      BY <1>0, <1>1
    <3> QED BY <1>1, <1>2, <3>1, DivisionReached
  <2> QED BY <2>1 DEF StepNo
<1>4. Elapsed > Grace /\ Elapsed > Grace + Escalation
  <2>1. 2 * Escalation <= (n + 1) * Escalation
    <3>1. \A a, b \in Int, e \in Nat : a <= b => a * e <= b * e
      BY SMTT(30)
    <3> QED BY <1>0, <1>1, <3>1
  <2> QED BY <1>1, <1>2, <2>1
<1>5. CASE state = "ARMED"
  <2>1. state' = "WATCHING"
    BY <1>1, <1>4, <1>5
       DEF Tick, TickDisabled, TickArmed, TickWatching, TickAbort, TickEscalating, TickLiquidating,
           TickDormant
  <2> QED BY <1>5, <2>1 DEF Climbs, Rung
<1>6. CASE state = "WATCHING"
  <2>1. state' = "ESCALATING"
    BY <1>1, <1>4, <1>6
       DEF Tick, TickDisabled, TickArmed, TickWatching, TickAbort, TickEscalating, TickLiquidating,
           TickDormant
  <2> QED BY <1>6, <2>1 DEF Climbs, Rung
<1>7. CASE state = "ESCALATING"
  <2>1. TickEscalating
    BY <1>1, <1>4, <1>7
       DEF Tick, TickDisabled, TickArmed, TickWatching, TickAbort, TickLiquidating, TickDormant
  <2>2. step_index < n /\ StepNo > step_index /\ DueStep = n
    <3>1. step_index < n
      BY <1>0, <1>7 DEF PlanAhead
    <3> QED BY <1>0, <1>1, <1>3, <3>1 DEF DueStep
  <2>3. RunSteps(DueStep) \/ \E i \in (step_index + 1)..DueStep, placed \in BOOLEAN : FailStep(i, placed)
    BY <1>1, <2>1, <2>2 DEF TickEscalating
  <2>4. state' = "LIQUIDATING"
    BY <1>0, <1>1, <2>2, <2>3 DEF RunSteps, FailStep
  <2> QED BY <1>7, <2>4 DEF Climbs, Rung
<1>8. CASE state = "LIQUIDATING"
  <2>1. TickLiquidating
    BY <1>8 DEF Tick, TickDisabled, TickArmed, TickWatching, TickAbort, TickEscalating, TickDormant
  <2>2. CASE state' = "DORMANT"
    BY <1>8, <2>2 DEF Climbs, Rung
  <2>3. CASE state' # "DORMANT"
    <3>1. Pending /\ (sinceLiquidating # Never => ~(sinceLiquidating - lag > LiquidationGrace))
      BY <2>1, <2>3 DEF TickLiquidating
    <3>2. CASE sinceLiquidating = Never
      <4>1. sinceLiquidating' = lag
        BY <2>1, <3>2 DEF TickLiquidating, MarkLiquidating
      <4> QED BY <1>1, <1>8, <3>1, <4>1 DEF Climbs, Never
    <3>3. CASE sinceLiquidating # Never
      <4>1. sinceLiquidating' = sinceLiquidating
        BY <2>1, <3>3 DEF TickLiquidating
      <4> QED BY <1>1, <1>8, <3>1, <3>3, <4>1 DEF Climbs
    <3> QED BY <3>2, <3>3
  <2> QED BY <2>2, <2>3
<1>9. CASE state = "DORMANT"
  <2>1. state' = "DORMANT"
    BY <1>9 DEF Tick, TickDisabled, TickArmed, TickWatching, TickAbort, TickEscalating,
                TickLiquidating, TickDormant, Stay, planVars
  <2> QED BY <1>9, <2>1 DEF Climbs
<1> QED BY <1>5, <1>6, <1>7, <1>8, <1>9 DEF SwitchInv, SwitchTypeOK, EscalationStates

\* A tick that is late for the whole plan never idles: four of them take the
\* switch from ARMED to DORMANT, except that the last one waits for orders
\* until the liquidation clock has run out, and it starts that clock itself if
\* the plan failed before it did (daemon.py:140-189).
THEOREM SwitchOverdueClimbs ==
  SwitchSpec => [][Tick /\ Plan # <<>> /\ escalation_enabled /\ Overdue => Climbs]_switchVars
<1>1. SwitchInit => PlanAhead
  BY DEF SwitchInit, PlanAhead
<1>2. SwitchSpec => [](SwitchInv /\ PlanAhead)
  BY <1>1, SwitchInvInitially, SwitchInvInductive, PlanAheadStep, PTL DEF SwitchSpec
<1>3. SwitchInv /\ PlanAhead /\ [SwitchNext]_switchVars
        => [Tick /\ Plan # <<>> /\ escalation_enabled /\ Overdue => Climbs]_switchVars
  BY TickClimbs
<1> QED BY <1>2, <1>3, PTL DEF SwitchSpec

\* The default plan is empty (config.py:33), and the loop that runs the steps
\* is the only place where liquidation begins (daemon.py:164-174): a switch
\* without a plan escalates and stays there, whatever the silence.
THEOREM SwitchEmptyPlanNeverEnds ==
  SwitchSpec => [](Plan = <<>> => state \notin {"LIQUIDATING", "DORMANT"})
<1>1. SwitchInit => PlanAhead
  BY DEF SwitchInit, PlanAhead
<1>2. SwitchSpec => [](SwitchInv /\ PlanAhead)
  BY <1>1, SwitchInvInitially, SwitchInvInductive, PlanAheadStep, PTL DEF SwitchSpec
<1>3. PlanAhead => (Plan = <<>> => state \notin {"LIQUIDATING", "DORMANT"})
  BY DEF PlanAhead
<1> QED BY <1>2, <1>3, PTL

-----------------------------------------------------------------------------
(* The switch in the hands of the trading loop.                            *)

\* Every step of the trading process is a step of the switch, or leaves it
\* alone, or is the finally clause, which only sets the stop flag.
LEMMA TradingMovesSwitch ==
  ASSUME TradingNext
  PROVE  \/ [SwitchNext]_switchVars
         \/ /\ stop_requested' = TRUE
            /\ UNCHANGED <<planVars, orderVars, thread, lag, sinceBeat, beating, configVars>>
<1>1. CASE LoopStep
  <2>1. CASE StartTrading
    BY <2>1 DEF StartTrading, SwitchNext
  <2>2. CASE SkipTick \/ Adjudicate
    BY <2>2 DEF SkipTick, Adjudicate, Pulse, SwitchNext
  <2>3. CASE EvaluateFails
    BY <2>3 DEF EvaluateFails, Finally
  <2>4. CASE NextTick \/ Wake
    BY <2>4 DEF NextTick, Wake
  <2> QED BY <1>1, <2>1, <2>2, <2>3, <2>4 DEF LoopStep
<1>2. CASE Shutdown
  BY <1>2 DEF Shutdown, Finally
<1>3. CASE Hang \/ LoseConstitution \/ RecoverGate
  BY <1>3 DEF Hang, LoseConstitution, RecoverGate
<1>4. CASE SwitchStep
  BY <1>4 DEF SwitchStep, SwitchNext
<1>5. CASE Elapse
  BY <1>5 DEF Elapse, SwitchNext
<1> QED BY <1>1, <1>2, <1>3, <1>4, <1>5 DEF TradingNext

\* So the invariants of the switch are kept by the trading process.
LEMMA TradingKeepsSwitch ==
  ASSUME SwitchInv, OneOrderEach, [TradingNext]_tradingVars
  PROVE  SwitchInv' /\ OneOrderEach'
<1>1. CASE [SwitchNext]_switchVars
  BY <1>1, SwitchInvInductive, OneOrderEachInductive
<1>2. CASE /\ stop_requested' = TRUE
           /\ UNCHANGED <<planVars, orderVars, thread, lag, sinceBeat, beating, configVars>>
  BY <1>2, OrdersUntouched DEF SwitchInv, SwitchTypeOK, PlanAccount, planVars, orderVars
<1>3. CASE UNCHANGED tradingVars
  BY <1>3, <1>1 DEF tradingVars
<1> QED
  BY <1>1, <1>2, <1>3, TradingMovesSwitch

\* What the loop knows of the age of its last beat.
BeatIsRecent ==
  \/ sinceBeat = Never
  \/ pc = "sleep" /\ sinceBeat <= busy /\ busy <= TickInterval
  \/ pc \in {"loop", "process"} /\ sinceBeat <= TickInterval + busy /\ busy <= MaxWork

LoopPlaces == {"new", "loop", "process", "sleep", "hung", "crashed", "stopped"}

\* The loop before its start has never beaten; afterwards, as long as it makes
\* progress, its last beat is recent, and the switch is armed.
LoopInv ==
  /\ pc \in LoopPlaces /\ busy \in Nat
  /\ pc = "new" => sinceBeat = Never
  /\ pc \in Trading => BeatIsRecent
  /\ TickInterval + MaxWork <= Grace /\ pc \in Trading \cup {"new"} => state = "ARMED"

\* A tick of the switch that finds a recent beat leaves the switch armed.
LEMMA TickStaysArmed ==
  ASSUME SwitchInv, LoopInv, Tick, TickInterval + MaxWork <= Grace,
         pc \in Trading \cup {"new"}
  PROVE  state' = "ARMED"
<1>1. /\ state = "ARMED" /\ sinceBeat \in Int /\ lag \in Nat
      /\ Grace \in Nat /\ TickInterval \in Nat /\ MaxWork \in Nat
  BY SwitchAssumption, TradingAssumption
     DEF LoopInv, SwitchInv, SwitchTypeOK, Ages, Never, AgeCap, Threshold
<1>2. sinceBeat = Never \/ sinceBeat <= Grace
  BY <1>1 DEF LoopInv, BeatIsRecent, Trading
<1>3. ~(Elapsed > Grace)
  BY <1>1, <1>2 DEF Elapsed
<1> QED
  BY <1>1, <1>3 DEF Tick, TickDisabled, TickArmed, TickWatching, TickAbort, TickEscalating,
                    TickLiquidating, TickDormant

LEMMA LoopInvInductive ==
  ASSUME SwitchInv, LoopInv, [TradingNext]_tradingVars PROVE LoopInv'
<1>0. /\ sinceBeat \in Int /\ TickInterval \in Nat \ {0} /\ MaxWork \in Nat /\ Grace \in Nat
      /\ pc \in LoopPlaces /\ busy \in Nat
  BY SwitchAssumption, TradingAssumption
     DEF LoopInv, SwitchInv, SwitchTypeOK, Ages, Never, AgeCap, Threshold
<1>1. CASE StartTrading
  BY <1>1 DEF StartTrading, Start, planVars, switchVars, LoopInv, LoopPlaces, BeatIsRecent, Trading
<1>2. CASE NextTick
  BY <1>2 DEF NextTick, switchVars, planVars, LoopInv, LoopPlaces, BeatIsRecent, Trading
<1>3. CASE SkipTick \/ Adjudicate
  BY <1>0, <1>3
     DEF SkipTick, Adjudicate, Pulse, Beat, planVars, LoopInv, LoopPlaces, BeatIsRecent, Trading
<1>4. CASE EvaluateFails \/ Shutdown
  BY <1>4 DEF EvaluateFails, Shutdown, Finally, planVars, LoopInv, LoopPlaces, Trading
<1>5. CASE Wake
  BY <1>0, <1>5 DEF Wake, switchVars, planVars, LoopInv, LoopPlaces, BeatIsRecent, Trading
<1>6. CASE Hang
  BY <1>6 DEF Hang, switchVars, planVars, LoopInv, LoopPlaces, Trading
<1>7. CASE LoseConstitution \/ RecoverGate \/ UNCHANGED tradingVars
  BY <1>7 DEF LoseConstitution, RecoverGate, tradingVars, loopVars, switchVars, planVars,
              LoopInv, BeatIsRecent
<1>8. CASE SwitchStep
  <2>1. UNCHANGED <<sinceBeat, pc, busy>>
    BY <1>8 DEF SwitchStep, TickBegin, Tick, EndTick, Settle, loopVars
  <2>2. CASE Tick
    BY <2>1, <2>2, TickStaysArmed DEF LoopInv, BeatIsRecent
  <2>3. CASE state' = state
    BY <2>1, <2>3 DEF LoopInv, BeatIsRecent
  <2> QED BY <1>8, <2>2, <2>3 DEF SwitchStep, TickBegin, Settle, planVars
<1>9. CASE Elapse
  <2>1. /\ state' = state /\ pc' = pc /\ busy' = IF pc \in Trading THEN busy + 1 ELSE busy
        /\ pc \in Trading => busy < Limit
        /\ sinceBeat' = Older(sinceBeat)
    BY <1>9 DEF Elapse, Clock
  <2>2. sinceBeat' = sinceBeat \/ (sinceBeat' = sinceBeat + 1 /\ sinceBeat # Never)
    BY <2>1, SwitchAssumption DEF Older, Never
  <2>3. pc \in Trading => BeatIsRecent'
    BY <1>0, <2>1, <2>2 DEF LoopInv, BeatIsRecent, Trading, Limit
  <2>4. pc = "new" => sinceBeat' = Never
    BY <2>2 DEF LoopInv
  <2> QED BY <1>0, <2>1, <2>3, <2>4 DEF LoopInv
<1> QED
  BY <1>1, <1>2, <1>3, <1>4, <1>5, <1>6, <1>7, <1>8, <1>9 DEF TradingNext, LoopStep

\* The invariants hold throughout every run of the trading process.
LEMMA TradingInvariant == TradingSpec => [](SwitchInv /\ OneOrderEach /\ LoopInv)
<1>1. TradingInit => SwitchInv /\ OneOrderEach /\ LoopInv
  <2> SUFFICES ASSUME TradingInit PROVE SwitchInv /\ OneOrderEach /\ LoopInv
    OBVIOUS
  <2>1. SwitchInv
    BY SwitchInvInitially DEF TradingInit
  <2>2. OneOrderEach
    BY DEF TradingInit, SwitchInit, OneOrderEach
  <2>3. LoopInv
    BY DEF TradingInit, SwitchInit, LoopInv, LoopPlaces, Trading
  <2> QED BY <2>1, <2>2, <2>3
<1> QED
  BY <1>1, TradingKeepsSwitch, LoopInvInductive, PTL DEF TradingSpec

\* For every tick interval, work bound and grace period that leave a market
\* tick and its sleep within the grace period, a trading loop that makes
\* progress and whose health checks are answered never leaves ARMED, however
\* the ticks of the switch are delayed (trading_daemon.py:100-115).
THEOREM TradingStaysArmed == TradingSpec => []ArmedWhileTrading
<1>1. LoopInv => ArmedWhileTrading
  BY DEF LoopInv, ArmedWhileTrading, Trading
<1> QED
  BY <1>1, TradingInvariant, PTL

\* Driven by the loop, whose finally clause stops the thread without looking
\* at the plan, the switch still runs its plan in order and converts no asset
\* twice (trading_daemon.py:55-57, 100-115; daemon.py:128-192).
THEOREM TradingKeepsPlan == TradingSpec => [](PlanRunsInOrder /\ NoAssetConvertedTwice)
<1>1. SwitchInv /\ OneOrderEach => PlanRunsInOrder /\ NoAssetConvertedTwice
  BY DEF SwitchInv, PlanAccount, PlanRunsInOrder, OneOrderEach, NoAssetConvertedTwice
<1> QED
  BY <1>1, TradingInvariant, PTL

\* The rest of what the switch promises survives the loop as well: no step
\* before its share of silence, nothing irreversible undone, and no escalation
\* before the first beat (trading_daemon.py:55-57, 100-115; daemon.py:128-192).
THEOREM TradingKeepsPromises ==
  TradingSpec => StepsOnlyAfterSilence /\ [][NeverUndone]_switchVars /\ []Unbeaten
<1>1. TradingInit => Unbeaten
  BY DEF TradingInit, SwitchInit, Unbeaten
<1>2. ASSUME SwitchInv, Unbeaten, [TradingNext]_tradingVars
      PROVE  /\ Unbeaten' /\ NeverUndone
             /\ Len(executed') > Len(executed) => sinceBeat >= Grace + Len(executed') * Escalation
  <2>1. CASE [SwitchNext]_switchVars
    <3>1. Unbeaten' /\ NeverUndone
      BY <1>2, <2>1, UnbeatenStep, NeverUndoneStep
    <3>2. Len(executed') > Len(executed) => sinceBeat >= Grace + Len(executed') * Escalation
      BY <1>2, <2>1, StepsRunInTicks, SilenceBound DEF SwitchInv
    <3> QED BY <3>1, <3>2
  <2>2. CASE UNCHANGED <<planVars, sinceBeat>>
    <3>1. UNCHANGED <<state, step_index, executed, sinceBeat>>
      BY <2>2 DEF planVars
    <3>2. Unbeaten' /\ NeverUndone
      BY <1>2, <3>1 DEF Unbeaten, NeverUndone, SwitchInv, SwitchTypeOK
    <3>3. ~(Len(executed') > Len(executed))
      <4>1. PICK n \in Nat : n = Len(executed)
        BY <1>2 DEF SwitchInv, SwitchTypeOK
      <4> QED BY <3>1, <4>1
    <3> QED BY <3>2, <3>3
  <2> QED BY <1>2, <2>1, <2>2, TradingMovesSwitch DEF tradingVars
<1>3. SwitchInv /\ Unbeaten /\ [TradingNext]_tradingVars
        => /\ Unbeaten' /\ [NeverUndone]_switchVars
           /\ [Len(executed') > Len(executed)
                 => sinceBeat >= Grace + Len(executed') * Escalation]_switchVars
  BY <1>2
<1> QED BY <1>1, <1>3, TradingInvariant, PTL DEF TradingSpec, StepsOnlyAfterSilence

\* The loop has hung and the silence of its source shows.
Hung == pc = "hung" /\ Late

\* The thread of the switch runs as long as the loop has not ended.
SwitchRuns ==
  /\ ~governed
  /\ pc = "new" => ~stop_requested
  /\ pc \in Trading \cup {"hung"} => thread # "off" /\ ~stop_requested

LEMMA SwitchRunsStep ==
  ASSUME SwitchRuns, [TradingNext]_tradingVars
  PROVE  SwitchRuns'
<1>1. CASE StartTrading
  BY <1>1 DEF StartTrading, Start, switchVars, threadVars, SwitchRuns, Trading
<1>2. CASE SkipTick \/ Adjudicate
  BY <1>2 DEF SkipTick, Adjudicate, Pulse, Beat, threadVars, SwitchRuns, Trading
<1>3. CASE NextTick \/ Wake \/ Hang
  BY <1>3 DEF NextTick, Wake, Hang, switchVars, threadVars, SwitchRuns, Trading
<1>4. CASE EvaluateFails \/ Shutdown
  BY <1>4 DEF EvaluateFails, Shutdown, Finally, SwitchRuns, Trading
<1>5. CASE LoseConstitution \/ RecoverGate \/ UNCHANGED tradingVars
  BY <1>5 DEF LoseConstitution, RecoverGate, tradingVars, loopVars, switchVars, threadVars, SwitchRuns
<1>6. CASE SwitchStep
  BY <1>6 DEF SwitchStep, TickBegin, Tick, EndTick, Settle, threadVars, loopVars, SwitchRuns
<1>7. CASE Elapse
  BY <1>7 DEF Elapse, Clock, SwitchRuns
<1> QED BY <1>1, <1>2, <1>3, <1>4, <1>5, <1>6, <1>7 DEF TradingNext, LoopStep

\* A loop that hangs does not hold up its switch: the thread of the switch is
\* running and has not been told to stop, and from the end of the grace period
\* on it only moves forward, whatever else happens to the process
\* (trading_daemon.py:55-57, 87-98; daemon.py:128-192).
THEOREM TradingHangForward ==
  TradingSpec => /\ [](pc \in Trading \cup {"hung"} => thread # "off" /\ ~stop_requested)
                 /\ [][Hung => Hung' /\ Forward]_tradingVars
<1>1. TradingInit => SwitchRuns
  BY DEF TradingInit, SwitchInit, SwitchRuns, Trading
<1>2. SwitchRuns /\ [TradingNext]_tradingVars => SwitchRuns'
  BY SwitchRunsStep
<1>3. ASSUME SwitchInv, Hung, [TradingNext]_tradingVars PROVE Hung' /\ Forward
  <2>1. pc = "hung" /\ Late
    BY <1>3 DEF Hung
  <2>2. CASE LoseConstitution \/ RecoverGate \/ UNCHANGED tradingVars
    <3>1. pc' = pc /\ UNCHANGED <<sinceBeat, lag, state, step_index>>
      BY <2>2 DEF LoseConstitution, RecoverGate, tradingVars, loopVars, switchVars, threadVars, planVars
    <3> QED BY <1>3, <2>1, <3>1, LateStays, LateForward DEF Hung
  <2>3. CASE Elapse
    <3>1. pc' = pc /\ Clock /\ UNCHANGED <<state, step_index>>
      BY <2>3 DEF Elapse, Clock
    <3> QED BY <1>3, <2>1, <3>1, LateStays, LateForward DEF Hung
  <2>4. CASE SwitchStep
    <3>1. pc' = pc /\ (Tick \/ TickBegin \/ UNCHANGED <<sinceBeat, lag>>)
      BY <2>4 DEF SwitchStep, Settle, loopVars, threadVars
    <3>2. Tick \/ UNCHANGED <<state, step_index>>
      BY <2>4 DEF SwitchStep, Settle, TickBegin, planVars
    <3> QED BY <1>3, <2>1, <3>1, <3>2, LateStays, LateForward DEF Hung
  <2> QED
    BY <1>3, <2>1, <2>2, <2>3, <2>4
       DEF TradingNext, LoopStep, StartTrading, NextTick, SkipTick, Adjudicate, EvaluateFails, Wake,
           Shutdown, Hang
<1>4. SwitchInv /\ [TradingNext]_tradingVars => [Hung => Hung' /\ Forward]_tradingVars
  BY <1>3
<1>5. SwitchRuns => (pc \in Trading \cup {"hung"} => thread # "off" /\ ~stop_requested)
  BY DEF SwitchRuns
<1> QED BY <1>1, <1>2, <1>4, <1>5, TradingInvariant, PTL DEF TradingSpec
=============================================================================

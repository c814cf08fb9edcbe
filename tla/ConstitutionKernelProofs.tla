---------------------- MODULE ConstitutionKernelProofs ----------------------
(***************************************************************************)
(* Proofs about the risk kernel and the voter over its replicas, for any   *)
(* limits, any set of portfolios and proposals, any journal bound and any  *)
(* counter width.                                                          *)
(***************************************************************************)
EXTENDS TmrVoter, FiniteSetTheorems, TLAPS

-----------------------------------------------------------------------------
(* Lemmas on the operators.                                                *)

\* evaluate_proposal always returns one of the three verdicts, and never
\* MaxDrawdownBreached (invariants.rs:42-93): the kernel's branch for that
\* reason (state_machine.rs:102-104) is never taken.
LEMMA EvaluateType ==
  ASSUME NEW pf \in Portfolios, NEW pr \in Proposals
  PROVE  /\ EvaluateProposal(pf, pr) \in Verdicts
         /\ EvaluateProposal(pf, pr) # Rejected("MaxDrawdownBreached")
<1>1. pr.notional \in Int
  BY KernelAssumption
<1>2. QED
  BY <1>1 DEF EvaluateProposal, Verdicts, Approved, Rejected,
              EmergencyLiquidationAll, RiskViolationCodes

\* A saturating increment stays within the counter's range.
LEMMA SaturatingType ==
  ASSUME NEW n \in 0..CounterMax
  PROVE  /\ SaturatingInc(n) \in 0..CounterMax
         /\ SaturatingInc(n) = n + 1 \/ (n = CounterMax /\ SaturatingInc(n) = n)
BY KernelAssumption DEF SaturatingInc

\* What is left of the journal after one more entry: its length, and every
\* entry's place, shifted by one when the oldest entry was dropped.
LEMMA RecentAppend ==
  ASSUME NEW s \in Seq(JournalEntries), NEW e \in JournalEntries,
         Len(s) <= MaxTransitionHistory
  PROVE  LET t == Recent(Append(s, e))
             n == Len(s)
         IN  /\ t \in Seq(JournalEntries)
             /\ Len(t) > 0
             /\ t[Len(t)] = e
             /\ \/ /\ n < MaxTransitionHistory
                   /\ Len(t) = n + 1
                   /\ \A i \in 1..n : t[i] = s[i]
                \/ /\ n = MaxTransitionHistory
                   /\ Len(t) = n
                   /\ \A i \in 1..n-1 : t[i] = s[i + 1]
<1> DEFINE a == Append(s, e)
<1>1. /\ a \in Seq(JournalEntries) /\ Len(a) = Len(s) + 1 /\ a[Len(s) + 1] = e
      /\ \A i \in 1..Len(s) : a[i] = s[i]
  OBVIOUS
<1>2. Len(s) \in Nat /\ MaxTransitionHistory \in Nat \ {0}
  BY KernelAssumption
<1>3. CASE Len(s) < MaxTransitionHistory
  <2>1. Recent(a) = a
    BY <1>1, <1>2, <1>3 DEF Recent
  <2>2. QED
    BY <1>1, <1>2, <1>3, <2>1
<1>4. CASE Len(s) = MaxTransitionHistory
  <2>1. Recent(a) = SubSeq(a, 2, Len(s) + 1)
    BY <1>1, <1>2, <1>4 DEF Recent
  <2>2. /\ SubSeq(a, 2, Len(s) + 1) \in Seq(JournalEntries)
        /\ Len(SubSeq(a, 2, Len(s) + 1)) = Len(s)
        /\ \A i \in 1..Len(s) : SubSeq(a, 2, Len(s) + 1)[i] = a[i + 1]
    BY <1>1, <1>2, <1>4
  <2>3. \A i \in 1..Len(s)-1 : Recent(a)[i] = s[i + 1]
    BY <1>1, <1>2, <2>1, <2>2
  <2>4. Recent(a)[Len(s)] = e
    BY <1>1, <1>2, <1>4, <2>1, <2>2
  <2>5. QED
    BY <1>1, <1>2, <1>4, <2>1, <2>2, <2>3, <2>4
<1>5. QED
  BY <1>2, <1>3, <1>4

-----------------------------------------------------------------------------
(* The type invariant.                                                     *)

\* Every transition the code records leaves a well-typed kernel.
LEMMA RecordType ==
  ASSUME KernelTypeOK, NEW to \in OperationalStates, RecordTransition(state, to)
  PROVE  /\ state' \in OperationalStates
         /\ transition_count' \in 0..CounterMax
         /\ transition_history' \in Seq(JournalEntries)
         /\ Len(transition_history') <= MaxTransitionHistory
<1>1. transition_count' \in 0..CounterMax
  BY SaturatingType DEF RecordTransition, KernelTypeOK
<1>2. <<state, to>> \in JournalEntries
  BY DEF KernelTypeOK, JournalEntries
<1>3. /\ transition_history' \in Seq(JournalEntries)
      /\ Len(transition_history') <= MaxTransitionHistory
  <2>1. /\ transition_history \in Seq(JournalEntries)
        /\ Len(transition_history) \in Nat
        /\ Len(transition_history) <= MaxTransitionHistory
        /\ transition_history' = Recent(Append(transition_history, <<state, to>>))
        /\ MaxTransitionHistory \in Nat
    BY KernelAssumption DEF RecordTransition, KernelTypeOK
  <2>2. QED
    BY <1>2, <2>1, RecentAppend
<1>4. QED
  BY <1>1, <1>3 DEF RecordTransition

\* What every call does to the state machine: it records one legal edge, or
\* leaves state, journal and transition counter alone.
LEMMA StepShape ==
  ASSUME KernelTypeOK, KernelNext
  PROVE  \/ \E to \in OperationalStates :
               <<state, to>> \in Edges /\ RecordTransition(state, to)
         \/ NoTransition
<1>1. ASSUME NEW pf \in Portfolios, NEW pr \in Proposals, ProcessProposal(pf, pr)
      PROVE  \/ \E to \in OperationalStates :
                   <<state, to>> \in Edges /\ RecordTransition(state, to)
             \/ NoTransition
  <2>1. CASE RefuseWhileHalted(pf, pr)
    BY <2>1 DEF RefuseWhileHalted
  <2>2. CASE EnterEmergency(pf, pr)
    BY <2>2 DEF EnterEmergency, KernelTypeOK, OperationalStates, Halted, Edges
  <2>3. CASE RejectProposal(pf, pr)
    BY <2>3 DEF RejectProposal
  <2>4. CASE ApproveProposal(pf, pr)
    BY <2>4 DEF ApproveProposal, OperationalStates, Edges
  <2>5. QED
    BY <1>1, <2>1, <2>2, <2>3, <2>4 DEF ProcessProposal
<1>2. ASSUME NEW valid \in BOOLEAN, AttemptRecovery(valid)
      PROVE  \/ \E to \in OperationalStates :
                   <<state, to>> \in Edges /\ RecordTransition(state, to)
             \/ NoTransition
  BY <1>2 DEF AttemptRecovery, OperationalStates, Edges
<1>3. QED
  BY <1>1, <1>2 DEF KernelNext

\* Counters and replies stay well typed, whatever the call.
LEMMA StepCounters ==
  ASSUME KernelTypeOK, KernelNext
  PROVE  /\ proposal_count' \in 0..CounterMax
         /\ emergency_count' \in 0..CounterMax
         /\ reply' \in Replies
<1>1. ASSUME NEW pf \in Portfolios, NEW pr \in Proposals, ProcessProposal(pf, pr)
      PROVE  /\ proposal_count' \in 0..CounterMax
             /\ emergency_count' \in 0..CounterMax
             /\ reply' \in Replies
  <2>1. proposal_count' \in 0..CounterMax
    BY <1>1, SaturatingType DEF ProcessProposal, KernelTypeOK
  <2>2. emergency_count' \in 0..CounterMax
    BY <1>1, SaturatingType DEF ProcessProposal, KernelTypeOK, RefuseWhileHalted,
         EnterEmergency, RejectProposal, ApproveProposal
  <2>3. \E v \in Verdicts : Answered(pf, pr, v)
    <3>1. /\ EmergencyLiquidationAll \in Verdicts
          /\ \A why \in RiskViolationCodes : Rejected(why) \in Verdicts
          /\ Approved(pr.notional) \in Verdicts
          /\ "MaxDrawdownBreached" \in RiskViolationCodes
      BY KernelAssumption DEF Verdicts, Rejected, Approved, RiskViolationCodes
    <3>2. QED
      BY <1>1, <3>1 DEF ProcessProposal, RefuseWhileHalted, EnterEmergency,
           RejectProposal, ApproveProposal
  <2>4. reply' \in Replies
    BY <2>3 DEF Answered, Replies, KernelTypeOK
  <2>5. QED
    BY <2>1, <2>2, <2>4
<1>2. ASSUME NEW valid \in BOOLEAN, AttemptRecovery(valid)
      PROVE  /\ proposal_count' \in 0..CounterMax
             /\ emergency_count' \in 0..CounterMax
             /\ reply' \in Replies
  <2>1. (valid /\ state \in Halted) \in BOOLEAN
    OBVIOUS
  <2>2. QED
    BY <1>2, <2>1 DEF AttemptRecovery, Replies, KernelTypeOK
<1>3. QED
  BY <1>1, <1>2 DEF KernelNext

LEMMA KernelTypeInit == KernelInit => KernelTypeOK
BY KernelAssumption DEF KernelInit, KernelTypeOK, OperationalStates, Replies

LEMMA KernelTypeStep ==
  ASSUME KernelTypeOK, [KernelNext]_kernelVars
  PROVE  KernelTypeOK'
<1>1. CASE KernelNext
  <2>1. /\ proposal_count' \in 0..CounterMax
        /\ emergency_count' \in 0..CounterMax
        /\ reply' \in Replies
    BY <1>1, StepCounters
  <2>2. /\ state' \in OperationalStates
        /\ transition_count' \in 0..CounterMax
        /\ transition_history' \in Seq(JournalEntries)
        /\ Len(transition_history') <= MaxTransitionHistory
    <3>1. ASSUME NEW to \in OperationalStates, RecordTransition(state, to)
          PROVE  /\ state' \in OperationalStates
                 /\ transition_count' \in 0..CounterMax
                 /\ transition_history' \in Seq(JournalEntries)
                 /\ Len(transition_history') <= MaxTransitionHistory
      BY <3>1, RecordType
    <3>2. CASE NoTransition
      BY <3>2 DEF NoTransition, KernelTypeOK
    <3>3. QED
      BY <1>1, <3>1, <3>2, StepShape
  <2>3. QED
    BY <2>1, <2>2 DEF KernelTypeOK
<1>2. CASE UNCHANGED kernelVars
  BY <1>2 DEF kernelVars, KernelTypeOK, Replies
<1>3. QED
  BY <1>1, <1>2

\* The kernel's types hold in every reachable state (state_machine.rs:19-26):
\* in particular the journal stays within MAX_TRANSITION_HISTORY and the
\* counters never overflow.
THEOREM KernelTypeCorrect == KernelSpec => []KernelTypeOK
BY KernelTypeInit, KernelTypeStep, PTL DEF KernelSpec

-----------------------------------------------------------------------------
(* The journal is the kernel's history.                                    *)

\* Recording a legal edge out of the current state extends the history.
LEMMA RecordKeepsHistory ==
  ASSUME KernelTypeOK, JournalIsHistory, NEW to \in OperationalStates,
         <<state, to>> \in Edges, RecordTransition(state, to)
  PROVE  JournalIsHistory'
<1> DEFINE h == transition_history
           t == transition_history'
           n == Len(h)
<1>1. h \in Seq(JournalEntries) /\ n \in Nat /\ n <= MaxTransitionHistory
      /\ <<state, to>> \in JournalEntries /\ MaxTransitionHistory \in Nat \ {0}
  BY KernelAssumption DEF KernelTypeOK, JournalEntries
<1>2. t = Recent(Append(h, <<state, to>>)) /\ state' = to
  BY DEF RecordTransition
<1>3. /\ t \in Seq(JournalEntries)
      /\ Len(t) > 0
      /\ t[Len(t)] = <<state, to>>
      /\ \/ /\ n < MaxTransitionHistory
            /\ Len(t) = n + 1
            /\ \A i \in 1..n : t[i] = h[i]
         \/ /\ n = MaxTransitionHistory
            /\ Len(t) = n
            /\ \A i \in 1..n-1 : t[i] = h[i + 1]
  <2> HIDE DEF h, t, n
  <2>1. n = Len(h)
    BY DEF n
  <2>2. Len(h) <= MaxTransitionHistory
    BY <1>1, <2>1
  <2> HIDE <2>1
  <2>3. QED
    BY <1>1, <1>2, <2>1, <2>2, RecentAppend
<1>4. /\ \A i \in 1..n : h[i] \in Edges
      /\ \A i \in 1..n : i < n => h[i][2] = h[i + 1][1]
      /\ n > 0 => h[n][2] = state
      /\ n = 0 => state = "Normal"
      /\ n < MaxTransitionHistory /\ n > 0 => h[1][1] = "Normal"
      /\ n < MaxTransitionHistory /\ transition_count < CounterMax
           => n = transition_count
      /\ transition_count >= n \/ transition_count = CounterMax
  BY DEF JournalIsHistory
<1>5. /\ transition_count \in 0..CounterMax /\ transition_count' \in 0..CounterMax
      /\ \/ transition_count' = transition_count + 1
         \/ transition_count = CounterMax /\ transition_count' = transition_count
  BY SaturatingType DEF RecordTransition, KernelTypeOK
<1> HIDE DEF h, t, n
<1>6. \A i \in 1..Len(t) : t[i] \in Edges
  BY <1>1, <1>3, <1>4
<1>7. \A i \in 1..Len(t) : i < Len(t) => t[i][2] = t[i + 1][1]
  <2> SUFFICES ASSUME NEW i \in 1..Len(t), i < Len(t)
               PROVE  t[i][2] = t[i + 1][1]
    OBVIOUS
  <2>1. <<state, to>>[1] = state
    OBVIOUS
  <2>2. CASE i + 1 = Len(t)
    BY <1>1, <1>3, <1>4, <2>1, <2>2
  <2>3. CASE i + 1 < Len(t)
    BY <1>1, <1>3, <1>4, <2>3
  <2>4. QED
    BY <1>1, <1>3, <2>2, <2>3
<1>8. t[Len(t)][2] = state'
  BY <1>2, <1>3
<1>9. Len(t) < MaxTransitionHistory => t[1][1] = "Normal"
  <2>1. <<state, to>>[1] = state
    OBVIOUS
  <2>2. QED
    BY <1>1, <1>3, <1>4, <2>1
<1>10. Len(t) < MaxTransitionHistory /\ transition_count' < CounterMax
         => Len(t) = transition_count'
  BY <1>1, <1>3, <1>4, <1>5, KernelAssumption
<1>11. transition_count' >= Len(t) \/ transition_count' = CounterMax
  BY <1>1, <1>3, <1>4, <1>5, KernelAssumption
<1>12. QED
  <2>1. Len(t) > 0 /\ Len(t) \in Nat
    BY <1>3
  <2> HIDE <1>3
  <2>2. QED
    BY <1>6, <1>7, <1>8, <1>9, <1>10, <1>11, <2>1 DEF JournalIsHistory, t

LEMMA JournalInit == KernelInit => JournalIsHistory
BY KernelAssumption DEF KernelInit, JournalIsHistory

LEMMA JournalStep ==
  ASSUME KernelTypeOK, JournalIsHistory, [KernelNext]_kernelVars
  PROVE  JournalIsHistory'
<1>1. ASSUME NEW to \in OperationalStates, <<state, to>> \in Edges,
             RecordTransition(state, to)
      PROVE  JournalIsHistory'
  BY <1>1, RecordKeepsHistory
<1>2. CASE NoTransition
  BY <1>2 DEF NoTransition, JournalIsHistory
<1>3. CASE UNCHANGED kernelVars
  BY <1>3 DEF kernelVars, JournalIsHistory
<1>4. QED
  BY <1>1, <1>2, <1>3, StepShape

\* The journal served over GetStatus is always an unbroken suffix of the
\* kernel's history that ends in its current state (state_machine.rs:62-68 and
\* its five callers).
THEOREM KernelJournal == KernelSpec => []JournalIsHistory
BY JournalInit, JournalStep, KernelTypeCorrect, PTL DEF KernelSpec

-----------------------------------------------------------------------------
(* The emergency counter and the journal.                                  *)

\* A call counts an emergency exactly when it records an edge into the halt.
LEMMA EmergencyShape ==
  ASSUME KernelTypeOK, KernelNext
  PROVE  \/ \E to \in OperationalStates :
               /\ <<state, to>> \in Edges /\ RecordTransition(state, to)
               /\ emergency_count' = IF to = "EmergencyHalt" THEN SaturatingInc(emergency_count)
                                                              ELSE emergency_count
         \/ NoTransition /\ UNCHANGED emergency_count
<1>1. ASSUME NEW pf \in Portfolios, NEW pr \in Proposals, ProcessProposal(pf, pr)
      PROVE  \/ \E to \in OperationalStates :
                   /\ <<state, to>> \in Edges /\ RecordTransition(state, to)
                   /\ emergency_count' = IF to = "EmergencyHalt" THEN SaturatingInc(emergency_count)
                                                                  ELSE emergency_count
             \/ NoTransition /\ UNCHANGED emergency_count
  <2>1. CASE RefuseWhileHalted(pf, pr) \/ RejectProposal(pf, pr)
    BY <2>1 DEF RefuseWhileHalted, RejectProposal
  <2>2. CASE EnterEmergency(pf, pr)
    BY <2>2 DEF EnterEmergency, KernelTypeOK, OperationalStates, Halted, Edges
  <2>3. CASE ApproveProposal(pf, pr)
    BY <2>3 DEF ApproveProposal, OperationalStates, Edges
  <2>4. QED
    BY <1>1, <2>1, <2>2, <2>3 DEF ProcessProposal
<1>2. ASSUME NEW valid \in BOOLEAN, AttemptRecovery(valid)
      PROVE  \/ \E to \in OperationalStates :
                   /\ <<state, to>> \in Edges /\ RecordTransition(state, to)
                   /\ emergency_count' = IF to = "EmergencyHalt" THEN SaturatingInc(emergency_count)
                                                                  ELSE emergency_count
             \/ NoTransition /\ UNCHANGED emergency_count
  BY <1>2 DEF AttemptRecovery, OperationalStates, Edges
<1>3. QED
  BY <1>1, <1>2 DEF KernelNext

\* The places of a journal that enter the halt.
Halts(s) == {i \in 1..Len(s) : s[i][2] = "EmergencyHalt"}

LEMMA HaltsFinite ==
  ASSUME NEW s \in Seq(JournalEntries)
  PROVE  IsFiniteSet(Halts(s)) /\ Cardinality(Halts(s)) \in Nat /\ Cardinality(Halts(s)) <= Len(s)
<1>1. Len(s) \in Nat /\ 1 \in Int /\ Len(s) \in Int
  OBVIOUS
<1>2. IsFiniteSet(1..Len(s)) /\ Cardinality(1..Len(s)) = Len(s)
  BY <1>1, FS_Interval
<1>3. Halts(s) \in SUBSET (1..Len(s))
  BY DEF Halts
<1>4. QED
  BY <1>1, <1>2, <1>3, FS_Subset, FS_CardinalityType

\* One more entry adds its own halt, and drops at most one from the front.
LEMMA HaltsAppend ==
  ASSUME NEW s \in Seq(JournalEntries), NEW e \in JournalEntries,
         Len(s) <= MaxTransitionHistory
  PROVE  LET t == Recent(Append(s, e))
             d == IF e[2] = "EmergencyHalt" THEN 1 ELSE 0
         IN  /\ Cardinality(Halts(t)) <= Cardinality(Halts(s)) + d
             /\ Len(s) < MaxTransitionHistory
                  => Cardinality(Halts(t)) = Cardinality(Halts(s)) + d
<1> DEFINE t == Recent(Append(s, e))
           d == IF e[2] = "EmergencyHalt" THEN 1 ELSE 0
           n == Len(s)
<1>1. /\ t \in Seq(JournalEntries)
      /\ Len(t) > 0 /\ t[Len(t)] = e
      /\ \/ /\ n < MaxTransitionHistory
            /\ Len(t) = n + 1
            /\ \A i \in 1..n : t[i] = s[i]
         \/ /\ n = MaxTransitionHistory
            /\ Len(t) = n
            /\ \A i \in 1..n-1 : t[i] = s[i + 1]
  BY RecentAppend
<1>2. n \in Nat /\ MaxTransitionHistory \in Nat
  BY KernelAssumption
<1>3. IsFiniteSet(Halts(s)) /\ Cardinality(Halts(s)) \in Nat
  BY HaltsFinite
<1> DEFINE own == IF e[2] = "EmergencyHalt" THEN {Len(t)} ELSE {}
<1> HIDE DEF t, n
<1>4. CASE n < MaxTransitionHistory
  <2>1. Len(t) = n + 1 /\ t[n + 1] = e /\ \A i \in 1..n : t[i] = s[i]
    BY <1>1, <1>2, <1>4
  <2>2. Halts(t) = Halts(s) \cup own
    BY <1>2, <2>1 DEF Halts, n
  <2>3. Len(t) \notin Halts(s)
    BY <1>2, <2>1 DEF Halts, n
  <2>4. CASE e[2] = "EmergencyHalt"
    <3>1. Cardinality(Halts(s) \cup {Len(t)}) = Cardinality(Halts(s)) + 1
      BY <1>3, <2>3, FS_AddElement
    <3>2. QED
      BY <1>3, <2>2, <2>4, <3>1 DEF t
  <2>5. CASE e[2] # "EmergencyHalt"
    <3>1. Halts(t) = Halts(s)
      BY <2>2, <2>5
    <3>2. QED
      BY <1>3, <2>5, <3>1 DEF t
  <2>6. QED
    BY <2>4, <2>5
<1>5. CASE n = MaxTransitionHistory
  <2> DEFINE kept == {i \in 1..(n - 1) : s[i + 1][2] = "EmergencyHalt"}
             next == [i \in kept |-> i + 1]
  <2>1. Len(t) = n /\ t[n] = e /\ \A i \in 1..(n - 1) : t[i] = s[i + 1]
    BY <1>1, <1>2, <1>5
  <2>2. Halts(t) = kept \cup own
    BY <1>1, <1>2, <2>1 DEF Halts
  <2>3. next \in Injection(kept, Halts(s))
    BY <1>2 DEF Injection, IsInjective, Halts, n
  <2> HIDE DEF next, kept
  <2>4. IsFiniteSet(kept) /\ Cardinality(kept) <= Cardinality(Halts(s))
    BY <1>3, <2>3, FS_Injection
  <2>5. Cardinality(kept) \in Nat
    BY <2>4, FS_CardinalityType
  <2>6. CASE e[2] = "EmergencyHalt"
    <3>1. Cardinality(kept \cup {Len(t)}) = IF Len(t) \in kept THEN Cardinality(kept)
                                                              ELSE Cardinality(kept) + 1
      BY <2>4, FS_AddElement
    <3>2. Cardinality(Halts(t)) <= Cardinality(Halts(s)) + 1
      BY <1>3, <2>2, <2>4, <2>5, <2>6, <3>1
    <3>3. QED
      BY <1>2, <1>5, <2>6, <3>2 DEF t, n
  <2>7. CASE e[2] # "EmergencyHalt"
    <3>1. Halts(t) = kept
      BY <2>2, <2>7
    <3>2. QED
      BY <1>2, <1>3, <1>5, <2>4, <2>5, <2>7, <3>1 DEF t, n
  <2>8. QED
    BY <2>6, <2>7
<1>6. QED
  BY <1>1, <1>4, <1>5

\* The counter follows the journal: an entry dropped from the front only makes
\* the journal's count smaller, and then more transitions were counted than
\* the journal holds.
LEMMA EmergencyStep ==
  ASSUME KernelTypeOK, JournalIsHistory, EmergenciesAreJournalled, [KernelNext]_kernelVars
  PROVE  EmergenciesAreJournalled'
<1> DEFINE h == transition_history
           t == transition_history'
<1>1. ASSUME NEW to \in OperationalStates, RecordTransition(state, to),
             emergency_count' = IF to = "EmergencyHalt" THEN SaturatingInc(emergency_count)
                                                         ELSE emergency_count
      PROVE  EmergenciesAreJournalled'
  <2>1. /\ h \in Seq(JournalEntries) /\ Len(h) <= MaxTransitionHistory
        /\ <<state, to>> \in JournalEntries /\ <<state, to>>[2] = to
    BY DEF KernelTypeOK, JournalEntries
  <2>2. t = Recent(Append(h, <<state, to>>))
    BY <1>1 DEF RecordTransition
  <2>3. PICK d \in 0..1 : /\ d = IF to = "EmergencyHalt" THEN 1 ELSE 0
                          /\ Cardinality(Halts(t)) <= Cardinality(Halts(h)) + d
                          /\ Len(h) < MaxTransitionHistory
                               => Cardinality(Halts(t)) = Cardinality(Halts(h)) + d
    BY <2>1, <2>2, HaltsAppend
  <2>4. /\ t \in Seq(JournalEntries)
        /\ \/ Len(h) < MaxTransitionHistory /\ Len(t) = Len(h) + 1
           \/ Len(h) = MaxTransitionHistory /\ Len(t) = Len(h)
    BY <2>1, <2>2, RecentAppend
  <2>5. PICK n \in Nat, m \in Nat, c \in Nat, k \in Nat :
          /\ n = Len(h) /\ m = Len(t) /\ c = Cardinality(Halts(h)) /\ k = Cardinality(Halts(t))
          /\ c <= n
    <3>1. Len(h) \in Nat /\ Len(t) \in Nat
      BY <2>1, <2>4
    <3>2. Cardinality(Halts(h)) \in Nat /\ Cardinality(Halts(t)) \in Nat /\ Cardinality(Halts(h)) <= Len(h)
      BY <2>1, <2>4, HaltsFinite
    <3>3. QED
      BY <3>1, <3>2
  <2>6. PICK tc \in 0..CounterMax, tcp \in 0..CounterMax, ec \in 0..CounterMax, ecp \in 0..CounterMax :
          /\ tc = transition_count /\ tcp = transition_count'
          /\ ec = emergency_count /\ ecp = emergency_count'
          /\ tcp = tc + 1 \/ (tc = CounterMax /\ tcp = tc)
          /\ d = 0 => ecp = ec
          /\ d = 1 => ecp = ec + 1 \/ (ec = CounterMax /\ ecp = ec)
    <3>1. /\ transition_count \in 0..CounterMax /\ emergency_count \in 0..CounterMax
          /\ transition_count' = SaturatingInc(transition_count)
      BY <1>1 DEF KernelTypeOK, RecordTransition
    <3>2. /\ d = 0 => emergency_count' = emergency_count
          /\ d = 1 => emergency_count' = SaturatingInc(emergency_count)
          /\ d = 0 \/ d = 1
      BY <1>1, <2>3
    <3>3. /\ SaturatingInc(transition_count) \in 0..CounterMax
          /\ \/ SaturatingInc(transition_count) = transition_count + 1
             \/ /\ transition_count = CounterMax
                /\ SaturatingInc(transition_count) = transition_count
      BY <3>1, SaturatingType
    <3>4. /\ SaturatingInc(emergency_count) \in 0..CounterMax
          /\ \/ SaturatingInc(emergency_count) = emergency_count + 1
             \/ /\ emergency_count = CounterMax
                /\ SaturatingInc(emergency_count) = emergency_count
      BY <3>1, SaturatingType
    <3>5. QED
      BY <3>1, <3>2, <3>3, <3>4
  <2>7. /\ c <= ec \/ ec = CounterMax
        /\ tc = n /\ tc < CounterMax => ec = c
    BY <2>5, <2>6 DEF EmergenciesAreJournalled, Halts
  <2>8. tc >= n \/ tc = CounterMax
    BY <2>5, <2>6 DEF JournalIsHistory
  <2>9. /\ k <= c + d
        /\ n < MaxTransitionHistory => k = c + d
        /\ \/ n < MaxTransitionHistory /\ m = n + 1
           \/ n = MaxTransitionHistory /\ m = n
    BY <2>1, <2>3, <2>4, <2>5
  <2>10. /\ k <= ecp \/ ecp = CounterMax
         /\ tcp = m /\ tcp < CounterMax => ecp = k
    <3>1. CounterMax \in Nat /\ MaxTransitionHistory \in Nat /\ d \in {0, 1}
      BY KernelAssumption
    <3>2. QED
      BY <3>1, <2>5, <2>6, <2>7, <2>8, <2>9
  <2>11. QED
    BY <2>5, <2>6, <2>10 DEF EmergenciesAreJournalled, Halts
<1>2. CASE UNCHANGED <<transition_count, transition_history, emergency_count>>
  BY <1>2 DEF EmergenciesAreJournalled
<1>3. QED
  BY <1>1, <1>2, EmergencyShape DEF NoTransition, kernelVars

LEMMA EmergencyInit == KernelInit => EmergenciesAreJournalled
<1> SUFFICES ASSUME KernelInit PROVE EmergenciesAreJournalled
  OBVIOUS
<1>1. transition_history = <<>> /\ emergency_count = 0
  BY DEF KernelInit
<1>2. {i \in 1..Len(transition_history) : transition_history[i][2] = "EmergencyHalt"} = {}
  BY <1>1
<1>3. Cardinality({}) = 0
  BY FS_EmptySet
<1>4. 0 <= 0
  OBVIOUS
<1>5. QED
  BY <1>1, <1>2, <1>3, <1>4, Zenon DEF EmergenciesAreJournalled

\* The emergency counter and the journal tell the same story, for every journal
\* bound and counter width: no halt is counted twice or journalled uncounted
\* (state_machine.rs:62-77, 79-143).
THEOREM KernelEmergencies == KernelSpec => []EmergenciesAreJournalled
BY EmergencyInit, EmergencyStep, KernelTypeCorrect, KernelJournal, PTL DEF KernelSpec

-----------------------------------------------------------------------------
(* What a sum over finitely many assets does when one of them grows.       *)

\* Induction over the natural numbers, on a set instead of a predicate.
LEMMA NatSetInduction ==
  ASSUME NEW good \in SUBSET Nat, 0 \in good, \A n \in good : n + 1 \in good
  PROVE  good = Nat
<1> DEFINE bad == Nat \ good
           less == OpToRel(<, Nat)
<1> SUFFICES ASSUME bad # {} PROVE FALSE
  OBVIOUS
<1>1. \A i, j \in Nat : i < j => <<i, j>> \in less
  BY DEF OpToRel
<1>2. IsWellFoundedOn(less, Nat)
  BY NatLessThanWellFounded
<1>3. bad \subseteq Nat
  OBVIOUS
<1> HIDE DEF less
<1>4. \E n \in bad : \A m \in bad : ~(<<m, n>> \in less)
  <2> HIDE DEF bad
  <2> QED BY <1>2, <1>3, WFMin
<1>5. PICK n \in bad : \A m \in bad : ~(<<m, n>> \in less)
  BY <1>4
<1>6. n \in Nat /\ n # 0 /\ n - 1 \in Nat /\ n - 1 < n /\ (n - 1) + 1 = n
  OBVIOUS
<1>7. n - 1 \in bad
  BY <1>6
<1> QED BY <1>1, <1>5, <1>6, <1>7

\* The index the library's fold takes next.
Picked(s) == CHOOSE x \in s : TRUE

LEMMA PickedIn == ASSUME NEW s, s # {} PROVE Picked(s) \in s
BY DEF Picked

\* The equation that defines the sums of f over the subsets of S, and the
\* function the library's fold takes for its solution.
Summed(f, S, g) ==
  [s \in SUBSET S |-> IF s = {} THEN 0 ELSE f[Picked(s)] + g[s \ {Picked(s)}]]

PartialSum(f, S) == CHOOSE g : g = Summed(f, S, g)

LEMMA SumIsPartialSum == ASSUME NEW S, NEW f, DOMAIN f = S
  PROVE SumFunction(f) = PartialSum(f, S)[S]
BY DEF SumFunction, SumFunctionOnSet, FoldFunctionOnSet, MapThenFoldSet, PartialSum, Summed, Picked

\* The set of the remaining indices is smaller.
LEMMA Smaller ==
  ASSUME NEW S, IsFiniteSet(S), NEW s \in SUBSET S, s # {}
  PROVE  /\ s \ {Picked(s)} \in SUBSET S
         /\ Cardinality(s) \in Nat /\ Cardinality(s \ {Picked(s)}) = Cardinality(s) - 1
<1>1. IsFiniteSet(s) /\ Picked(s) \in s
  BY FS_Subset, PickedIn
<1> QED BY <1>1, FS_RemoveElement, FS_CardinalityType

\* The equations that define the partial sums have a solution.
LEMMA PartialSumsExist ==
  ASSUME NEW S, IsFiniteSet(S), NEW f \in [S -> Int]
  PROVE  \E g \in [SUBSET S -> Int] : g = Summed(f, S, g)
<1> DEFINE Solves(g, n) ==
             \A s \in SUBSET S : Cardinality(s) <= n => g[s] = Summed(f, S, g)[s]
           good == {n \in Nat : \E g \in [SUBSET S -> Int] : Solves(g, n)}
<1>1. \A g \in [SUBSET S -> Int] : Summed(f, S, g) \in [SUBSET S -> Int]
  <2> SUFFICES ASSUME NEW g \in [SUBSET S -> Int] PROVE Summed(f, S, g) \in [SUBSET S -> Int]
    OBVIOUS
  <2>1. \A s \in SUBSET S : s # {} => Picked(s) \in S /\ s \ {Picked(s)} \in SUBSET S
    BY PickedIn
  <2>2. \A s \in SUBSET S : s # {} => f[Picked(s)] \in Int /\ g[s \ {Picked(s)}] \in Int
    BY <2>1
  <2> QED BY <2>2 DEF Summed
<1>2. 0 \in good
  <2> DEFINE g == [s \in SUBSET S |-> 0]
  <2>1. ASSUME NEW s \in SUBSET S, Cardinality(s) <= 0 PROVE s = {}
    BY <2>1, Smaller, FS_Subset, FS_CardinalityType, FS_EmptySet
  <2>2. Solves(g, 0)
    BY <2>1 DEF Summed
  <2>3. g \in [SUBSET S -> Int]
    OBVIOUS
  <2> QED BY <2>2, <2>3
<1>3. ASSUME NEW n \in good PROVE n + 1 \in good
  <2>1. PICK g \in [SUBSET S -> Int] : Solves(g, n)
    OBVIOUS
  <2>2. PICK h \in [SUBSET S -> Int] : h = Summed(f, S, g)
    BY <1>1
  <2>3. ASSUME NEW s \in SUBSET S, Cardinality(s) <= n + 1 PROVE h[s] = Summed(f, S, h)[s]
    <3>1. CASE s = {}
      BY <2>2, <3>1 DEF Summed
    <3>2. CASE s # {}
      <4>1. /\ s \ {Picked(s)} \in SUBSET S
            /\ Cardinality(s) \in Nat /\ Cardinality(s \ {Picked(s)}) = Cardinality(s) - 1
        BY <3>2, Smaller
      <4>2. Cardinality(s \ {Picked(s)}) <= n
        BY <2>3, <4>1
      <4>3. h[s \ {Picked(s)}] = g[s \ {Picked(s)}]
        BY <2>1, <2>2, <4>1, <4>2
      <4>4. h[s] = f[Picked(s)] + g[s \ {Picked(s)}]
        BY <2>2, <3>2 DEF Summed
      <4>5. Summed(f, S, h)[s] = f[Picked(s)] + h[s \ {Picked(s)}]
        BY <3>2 DEF Summed
      <4> QED BY <4>3, <4>4, <4>5
    <3> QED BY <3>1, <3>2
  <2>4. Solves(h, n + 1)
    BY <2>3
  <2> QED BY <2>4
<1>4. good = Nat
  <2> HIDE DEF good
  <2>1. good \in SUBSET Nat
    BY DEF good
  <2> QED BY <1>2, <1>3, <2>1, NatSetInduction
<1>5. Cardinality(S) \in Nat /\ \A s \in SUBSET S : Cardinality(s) <= Cardinality(S)
  BY FS_Subset, FS_CardinalityType
<1>6. PICK g \in [SUBSET S -> Int] : Solves(g, Cardinality(S))
  <2> HIDE DEF Solves
  <2>1. Cardinality(S) \in good
    BY <1>4, <1>5
  <2> QED BY <2>1
<1>7. \A s \in SUBSET S : g[s] = Summed(f, S, g)[s]
  BY <1>5, <1>6
<1>8. g = Summed(f, S, g)
  <2>1. PICK h : h = Summed(f, S, g) /\ h \in [SUBSET S -> Int]
    BY <1>1
  <2>2. \A s \in SUBSET S : g[s] = h[s]
    BY <1>7, <2>1
  <2>3. g = [s \in SUBSET S |-> g[s]] /\ h = [s \in SUBSET S |-> h[s]]
    BY <2>1
  <2>4. g = h
    BY <2>2, <2>3, Zenon
  <2> QED BY <2>1, <2>4
<1> QED BY <1>8

LEMMA PartialSumEquation ==
  ASSUME NEW S, IsFiniteSet(S), NEW f \in [S -> Int]
  PROVE  PartialSum(f, S) = Summed(f, S, PartialSum(f, S))
<1>1. \E g : g = Summed(f, S, g)
  BY PartialSumsExist
<1> QED BY <1>1 DEF PartialSum

\* Adding to one summand adds to the sum.
LEMMA SumUpdate ==
  ASSUME NEW S, IsFiniteSet(S), NEW f \in [S -> Int], NEW a \in S, NEW d \in Int,
         NEW f2 \in [S -> Int], f2[a] = f[a] + d, \A x \in S : x # a => f2[x] = f[x]
  PROVE  SumFunction(f) \in Int /\ SumFunction(f2) = SumFunction(f) + d
<1> DEFINE G  == PartialSum(f, S)
           G2 == PartialSum(f2, S)
           share(s) == IF a \in s THEN d ELSE 0
           Shifted(s) == G[s] \in Int /\ G2[s] = G[s] + share(s)
           good == {n \in Nat : \A s \in SUBSET S : Cardinality(s) <= n => Shifted(s)}
<1>1. \A x \in S : x # a => f2[x] = f[x]
  OBVIOUS
<1>2. G = Summed(f, S, G) /\ G2 = Summed(f2, S, G2)
  BY PartialSumEquation
<1> HIDE DEF G, G2
<1>3. /\ G[{}] = 0 /\ G2[{}] = 0
      /\ \A s \in SUBSET S : s # {} => /\ G[s] = f[Picked(s)] + G[s \ {Picked(s)}]
                                       /\ G2[s] = f2[Picked(s)] + G2[s \ {Picked(s)}]
  BY <1>2 DEF Summed
<1>4. Shifted({})
  BY <1>3
<1>5. 0 \in good
  <2>1. ASSUME NEW s \in SUBSET S, Cardinality(s) <= 0 PROVE s = {}
    BY <2>1, FS_Subset, FS_CardinalityType, FS_EmptySet
  <2> HIDE DEF Shifted
  <2> QED BY <1>4, <2>1
<1>6. ASSUME NEW n \in good PROVE n + 1 \in good
  <2>a. n \in Nat /\ n + 1 \in Nat
    OBVIOUS
  <2> SUFFICES ASSUME NEW s \in SUBSET S, Cardinality(s) <= n + 1, s # {} PROVE Shifted(s)
    <3> HIDE DEF Shifted
    <3> QED BY <1>4, <2>a, Zenon
  <2>1. /\ s \ {Picked(s)} \in SUBSET S
        /\ Cardinality(s) \in Nat /\ Cardinality(s \ {Picked(s)}) = Cardinality(s) - 1
        /\ Picked(s) \in s /\ Picked(s) \in S
    BY Smaller, PickedIn
  <2>2. PICK p \in S : p = Picked(s)
    BY <2>1
  <2>3. Cardinality(s \ {p}) <= n
    BY <2>1, <2>2
  <2>4. Shifted(s \ {p})
    BY <2>1, <2>2, <2>3
  <2>5. G[s] = f[p] + G[s \ {p}] /\ G2[s] = f2[p] + G2[s \ {p}]
    BY <1>3, <2>2
  <2>6. f[p] \in Int /\ p \in s
    BY <2>1, <2>2
  <2>7. CASE p = a
    <3>1. f2[p] = f[p] + d /\ share(s \ {p}) = 0 /\ share(s) = d
      BY <2>6, <2>7
    <3> HIDE DEF share
    <3> QED BY <2>4, <2>5, <2>6, <3>1
  <2>8. CASE p # a
    <3>1. f2[p] = f[p] /\ share(s \ {p}) = share(s) /\ share(s) \in Int
      BY <1>1, <2>6, <2>8
    <3> HIDE DEF share
    <3> QED BY <2>4, <2>5, <2>6, <3>1
  <2> QED BY <2>7, <2>8
<1>7. good = Nat
  <2> HIDE DEF good
  <2>1. good \in SUBSET Nat
    BY DEF good
  <2> QED BY <1>5, <1>6, <2>1, NatSetInduction
<1>8. Cardinality(S) \in Nat /\ S \in SUBSET S
  BY FS_CardinalityType
<1>9. Shifted(S)
  <2> HIDE DEF Shifted
  <2>1. Cardinality(S) \in good
    BY <1>7, <1>8
  <2> QED BY <1>8, <2>1
<1>10. SumFunction(f) = G[S] /\ SumFunction(f2) = G2[S]
  BY SumIsPartialSum DEF G, G2
<1> QED BY <1>9, <1>10

-----------------------------------------------------------------------------
(* Approvals are sound.                                                    *)

\* An approval passed every check of evaluate_proposal (invariants.rs:42-93).
LEMMA ApprovedPassed ==
  ASSUME NEW pf, NEW pr, EvaluateProposal(pf, pr) = Approved(pr.notional)
  PROVE  /\ ~DrawdownAtLeast(pf, MaxDrawdown)
         /\ ~OverLeverage(pf, pr) /\ ~OverConcentration(pf, pr)
BY DEF EvaluateProposal, Approved, Rejected, EmergencyLiquidationAll

\* The checks look at the portfolio before the fill; the figures after it are
\* the ones they projected.
LEMMA FilledWithinLimits ==
  ASSUME NEW pf \in Portfolios, NEW pr \in Proposals,
         EvaluateProposal(pf, pr) = Approved(pr.notional)
  PROVE  LET after == Filled(pf, pr)
         IN  /\ ~DrawdownAtLeast(after, MaxDrawdown)
             /\ 100 * GrossNotional(after) <= LeverageCap * after.equity
             /\ 100 * after.exposure[pr.asset] <= MaxConcentration * after.equity
<1> DEFINE after == Filled(pf, pr)
<1>1. PICK e \in Int, h \in Int, f \in [Assets -> Nat], n \in Int, a \in Assets :
        /\ pf = [equity |-> e, hwm |-> h, exposure |-> f]
        /\ pr = [asset |-> a, notional |-> n]
  BY KernelAssumption
<1>2. PICK g : g = [f EXCEPT ![a] = @ + n]
  OBVIOUS
<1>3. after = [equity |-> e, hwm |-> h, exposure |-> g]
  <2>1. pf.exposure = f /\ pr.asset = a /\ pr.notional = n
    BY <1>1
  <2>2. after.exposure = g
    BY <1>1, <1>2, <2>1 DEF Filled
  <2>3. QED
    BY <1>1, <2>2 DEF Filled
<1>4. SumFunction(f) \in Int /\ SumFunction(g) = SumFunction(f) + n /\ g[a] = f[a] + n /\ f[a] \in Int
  <2>1. /\ f \in [Assets -> Int] /\ g \in [Assets -> Int]
        /\ g[a] = f[a] + n /\ f[a] \in Int /\ \A x \in Assets : x # a => g[x] = f[x]
    BY <1>2
  <2>2. IsFiniteSet(Assets)
    BY KernelAssumption
  <2>3. SumFunction(f) \in Int /\ SumFunction(g) = SumFunction(f) + n
    BY <2>1, <2>2, SumUpdate
  <2>4. QED
    BY <2>1, <2>3
<1> HIDE DEF after
<1>5. /\ ~DrawdownAtLeast(pf, MaxDrawdown)
      /\ ~OverLeverage(pf, pr) /\ ~OverConcentration(pf, pr)
  BY ApprovedPassed
<1>6. ~DrawdownAtLeast(after, MaxDrawdown)
  BY <1>1, <1>3, <1>5 DEF DrawdownAtLeast
<1>7. PICK c \in Int, k \in Int : c = LeverageCap * e /\ k = MaxConcentration * e
  BY KernelAssumption
<1>8. 100 * GrossNotional(after) <= LeverageCap * after.equity
  <2>1. ~(100 * (SumFunction(f) + n) > c)
    BY <1>1, <1>5, <1>7 DEF OverLeverage, GrossNotional
  <2>2. GrossNotional(after) = SumFunction(f) + n /\ LeverageCap * after.equity = c
    BY <1>3, <1>4, <1>7 DEF GrossNotional
  <2>3. QED
    BY <1>4, <2>1, <2>2
<1>9. 100 * after.exposure[pr.asset] <= MaxConcentration * after.equity
  <2>1. ~(100 * (f[a] + n) > k)
    BY <1>1, <1>5, <1>7 DEF OverConcentration
  <2>2. after.exposure[pr.asset] = f[a] + n /\ MaxConcentration * after.equity = k
    BY <1>1, <1>3, <1>4, <1>7
  <2>3. QED
    BY <1>4, <2>1, <2>2
<1>10. QED
  BY <1>6, <1>8, <1>9 DEF after

LEMMA ApprovalStep ==
  ASSUME KernelTypeOK, ApprovalIsSound, [KernelNext]_kernelVars
  PROVE  ApprovalIsSound'
<1>1. ASSUME NEW pf \in Portfolios, NEW pr \in Proposals, ApproveProposal(pf, pr)
      PROVE  ApprovalIsSound'
  <2>1. /\ state \notin Halted /\ EvaluateProposal(pf, pr) = Approved(pr.notional)
        /\ reply'.from = state /\ reply'.portfolio = pf /\ reply'.proposal = pr
    BY <1>1 DEF ApproveProposal, Answered
  <2>2. QED
    BY <2>1, FilledWithinLimits DEF ApprovalIsSound, DrawdownAtLeast, GrossNotional, Filled
<1>2. ASSUME NEW pf \in Portfolios, NEW pr \in Proposals,
             RefuseWhileHalted(pf, pr) \/ EnterEmergency(pf, pr) \/ RejectProposal(pf, pr)
      PROVE  ApprovalIsSound'
  BY <1>2 DEF RefuseWhileHalted, EnterEmergency, RejectProposal, Answered, Rejected,
              EmergencyLiquidationAll, ApprovalIsSound
<1>3. ASSUME NEW valid \in BOOLEAN, AttemptRecovery(valid) PROVE ApprovalIsSound'
  <2>1. reply'.op = "attempt_recovery"
    BY <1>3 DEF AttemptRecovery
  <2>2. QED
    BY <2>1 DEF ApprovalIsSound
<1>4. CASE UNCHANGED kernelVars
  <2>1. reply' = reply
    BY <1>4 DEF kernelVars
  <2>2. QED
    BY <2>1 DEF ApprovalIsSound, DrawdownAtLeast, GrossNotional, Filled
<1>5. QED
  BY <1>1, <1>2, <1>3, <1>4 DEF KernelNext, ProcessProposal

LEMMA ApprovalInit == KernelInit => ApprovalIsSound
BY DEF KernelInit, ApprovalIsSound

\* For every set of limits and every portfolio over finitely many assets, an
\* approval leaves drawdown, gross leverage and concentration within their
\* limits once the order is filled (invariants.rs:42-93, state_machine.rs:79-143).
THEOREM KernelApprovalSound == KernelSpec => []ApprovalIsSound
BY ApprovalInit, ApprovalStep, KernelTypeCorrect, PTL DEF KernelSpec

-----------------------------------------------------------------------------
(* The kernel implements the risk gate.                                    *)

\* Every call of the kernel is a step of the abstract gate.
LEMMA KernelStepIsGateStep ==
  ASSUME KernelTypeOK, [KernelNext]_kernelVars
  PROVE  [Gate!GateNext]_<<abstractGate, abstractAnswer>>
<1>1. ASSUME NEW pf \in Portfolios, NEW pr \in Proposals, ProcessProposal(pf, pr)
      PROVE  Gate!GateNext
  <2>1. CASE RefuseWhileHalted(pf, pr)
    <3>1. abstractGate' = abstractGate /\ abstractAnswer' = "refused"
      BY <2>1 DEF RefuseWhileHalted, NoTransition, Answered, Rejected, abstractGate, abstractAnswer, verdictAnswer
    <3>2. QED
      BY <3>1 DEF Gate!GateNext, Gate!Refuse
  <2>2. CASE EnterEmergency(pf, pr)
    <3>1. abstractGate = "open" /\ abstractGate' = "halted" /\ abstractAnswer' = "liquidate"
      BY <2>2 DEF EnterEmergency, RecordTransition, Answered, Halted,
           EmergencyLiquidationAll, abstractGate, abstractAnswer, verdictAnswer
    <3>2. QED
      BY <3>1 DEF Gate!GateNext, Gate!Breach
  <2>3. CASE RejectProposal(pf, pr)
    <3>1. abstractGate' = abstractGate /\ abstractAnswer' = "refused"
      BY <2>3 DEF RejectProposal, NoTransition, Answered, Rejected, abstractGate, abstractAnswer, verdictAnswer
    <3>2. QED
      BY <3>1 DEF Gate!GateNext, Gate!Refuse
  <2>4. CASE ApproveProposal(pf, pr)
    <3>1. abstractGate = "open" /\ abstractGate' = "open"
      BY <2>4 DEF ApproveProposal, NoTransition, RecordTransition, Halted, abstractGate
    <3>2. abstractAnswer' = "approved"
      BY <2>4 DEF ApproveProposal, Answered, Approved, abstractAnswer, verdictAnswer
    <3>3. QED
      BY <3>1, <3>2 DEF Gate!GateNext, Gate!Approve
  <2>5. QED
    BY <1>1, <2>1, <2>2, <2>3, <2>4 DEF ProcessProposal
<1>2. ASSUME NEW valid \in BOOLEAN, AttemptRecovery(valid)
      PROVE  Gate!GateNext
  <2>1. abstractAnswer' = IF valid /\ state \in Halted THEN "advanced" ELSE "denied"
    BY <1>2 DEF AttemptRecovery, abstractAnswer
  <2>2. CASE valid /\ state \in Halted
    <3>1. \/ abstractGate = "halted" /\ abstractGate' = "recovering"
          \/ abstractGate = "recovering" /\ abstractGate' = "open"
      BY <1>2, <2>2 DEF AttemptRecovery, RecordTransition, Halted, abstractGate
    <3>2. QED
      BY <2>1, <2>2, <3>1 DEF Gate!GateNext, Gate!Advance
  <2>3. CASE ~(valid /\ state \in Halted)
    <3>1. abstractGate' = abstractGate
      BY <1>2, <2>3 DEF AttemptRecovery, NoTransition, Halted, abstractGate
    <3>2. QED
      BY <2>1, <2>3, <3>1 DEF Gate!GateNext, Gate!Deny
  <2>4. QED
    BY <2>2, <2>3
<1>3. CASE UNCHANGED kernelVars
  BY <1>3 DEF kernelVars, abstractGate, abstractAnswer, verdictAnswer
<1>4. QED
  BY <1>1, <1>2, <1>3 DEF KernelNext

\* Whatever the limits and the inputs, the kernel keeps the promise of the
\* abstract gate: nothing is approved between a breach and the second accepted
\* proof (state_machine.rs:86-92, 145-168).
THEOREM KernelImplementsGate == KernelSpec => ImplementsRiskGate
<1>1. KernelInit => Gate!GateInit
  BY DEF KernelInit, Gate!GateInit, abstractGate, abstractAnswer, verdictAnswer
<1>2. KernelTypeOK /\ [KernelNext]_kernelVars => [Gate!GateNext]_<<abstractGate, abstractAnswer>>
  BY KernelStepIsGateStep
<1>3. QED
  BY <1>1, <1>2, KernelTypeCorrect, PTL
     DEF KernelSpec, ImplementsRiskGate, Gate!GateSpec, Gate!gateVars

-----------------------------------------------------------------------------
(* The voter.                                                              *)

\* What a replica can hold: a kernel's verdict, or one with a NaN in it.
Votes ==
  [kind : {"Approved"}, notional : Int \cup {NaN}]
    \cup [kind : {"Rejected"}, reason : RiskViolationCodes]
    \cup {EmergencyLiquidationAll}

LEMMA VoteTypes ==
  ASSUME KernelTypeOK
  PROVE  AnyVerdict \subseteq Votes /\ (Adjudicated => reply.verdict \in Verdicts) /\ Verdicts \subseteq Votes
<1>1. \A pr \in Proposals : pr.notional \in Int
  BY KernelAssumption
<1>2. AnyVerdict \subseteq Votes
  BY <1>1 DEF AnyVerdict, Votes, Approved, Rejected
<1>3. Adjudicated => reply.verdict \in Verdicts
  BY DEF KernelTypeOK, Replies, Adjudicated
<1>4. Verdicts \subseteq Votes
  BY DEF Verdicts, Votes
<1>5. QED
  BY <1>2, <1>3, <1>4

\* Two votes are two different replicas.
LEMMA TwoVotes ==
  ASSUME NEW H \in SUBSET Replicas
  PROVE  Cardinality(H) >= 2 <=> \E i, j \in H : i # j
<1>1. IsFiniteSet(H) /\ Cardinality(H) \in Nat
  <2>1. IsFiniteSet(Replicas)
    <3>1. PICK lo \in Int, hi \in Int : lo = 1 /\ hi = 3
      OBVIOUS
    <3>2. IsFiniteSet(lo..hi)
      BY FS_Interval
    <3>3. QED
      BY <3>1, <3>2 DEF Replicas
  <2>2. IsFiniteSet(H)
    BY <2>1, FS_Subset
  <2>3. QED
    BY <2>2, FS_CardinalityType
<1>2. ASSUME NEW i \in H, NEW j \in H, i # j PROVE Cardinality(H) >= 2
  <2>1. IsFiniteSet({i}) /\ Cardinality({i}) = 1
    BY FS_Singleton
  <2>2. Cardinality({i} \cup {j}) = 2
    BY <1>2, <2>1, FS_AddElement
  <2>3. ({i} \cup {j}) \in SUBSET H
    OBVIOUS
  <2>4. QED
    BY <1>1, <2>2, <2>3, FS_Subset
<1>3. ASSUME Cardinality(H) >= 2 PROVE \E i, j \in H : i # j
  <2>1. H # {}
    BY <1>3, FS_EmptySet
  <2>2. PICK i \in H : TRUE
    BY <2>1
  <2>3. Cardinality(H \ {i}) = Cardinality(H) - 1
    BY <1>1, FS_RemoveElement
  <2>4. H \ {i} # {}
    <3>1. Cardinality(H) - 1 # 0
      BY <1>1, <1>3
    <3>2. Cardinality({}) = 0
      BY FS_EmptySet
    <3>3. QED
      BY <2>3, <3>1, <3>2, Zenon
  <2>5. QED
    BY <2>4
<1>4. QED
  BY <1>2, <1>3

\* The smallest of at most three numbers.
LEMMA MinOfThree ==
  ASSUME NEW T \in SUBSET Int, NEW x, NEW y, NEW z, T \subseteq {x, y, z}, T # {}
  PROVE  Min(T) \in T /\ \A t \in T : Min(T) <= t
<1>1. \A p \in T : \A c : \E q \in T : q <= p /\ (c \in T => q <= c)
  <2> SUFFICES ASSUME NEW p \in T, NEW c PROVE \E q \in T : q <= p /\ (c \in T => q <= c)
    OBVIOUS
  <2>1. CASE c \in T
    <3>1. CASE c <= p
      BY <2>1, <3>1
    <3>2. CASE ~(c <= p)
      BY <2>1, <3>2
    <3>3. QED
      BY <3>1, <3>2
  <2>2. CASE c \notin T
    BY <2>2
  <2>3. QED
    BY <2>1, <2>2
<1>2. PICK p \in T : TRUE
  OBVIOUS
<1>3. PICK q1 \in T : q1 <= p /\ (x \in T => q1 <= x)
  BY <1>1
<1>4. PICK q2 \in T : q2 <= q1 /\ (y \in T => q2 <= y)
  BY <1>1
<1>5. PICK q3 \in T : q3 <= q2 /\ (z \in T => q3 <= z)
  BY <1>1
<1>6. ASSUME NEW t \in T PROVE q3 <= t
  <2>1. p \in Int /\ q1 \in Int /\ q2 \in Int /\ q3 \in Int /\ t \in Int
    OBVIOUS
  <2>2. t = x \/ t = y \/ t = z
    OBVIOUS
  <2>3. QED
    BY <1>3, <1>4, <1>5, <2>1, <2>2
<1>7. QED
  BY <1>6 DEF Min

\* A kind two replicas agree on is the kind of the outcome.
LEMMA MajorityDecides ==
  ASSUME NEW v, \A r \in Replicas : v[r] \in Votes,
         NEW i \in Replicas, NEW j \in Replicas, i # j, v[i].kind = v[j].kind
  PROVE  Reconcile(v).kind = v[i].kind
<1> DEFINE kind == v[i].kind
<1>1. kind \in {"Approved", "Rejected", "EmergencyLiquidationAll"}
  BY DEF Votes, EmergencyLiquidationAll
<1>2. \A k : HasMajority(v, k) <=> \E p, q \in Holders(v, k) : p # q
  <2>1. \A k : Holders(v, k) \in SUBSET Replicas
    BY DEF Holders
  <2>2. QED
    BY <2>1, TwoVotes DEF HasMajority, Threshold
<1>3. HasMajority(v, kind) /\ \A k : k # kind => ~HasMajority(v, k)
  BY <1>2 DEF Holders, Replicas
<1>4. CASE Unanimous(v)
  BY <1>4 DEF Unanimous, Same, Reconcile, Replicas
<1>5. CASE ~Unanimous(v)
  <2>1. \A x : Approved(x).kind = "Approved" /\ Rejected(x).kind = "Rejected"
    BY DEF Approved, Rejected
  <2>2. EmergencyLiquidationAll.kind = "EmergencyLiquidationAll"
    BY DEF EmergencyLiquidationAll
  <2> HIDE DEF kind
  <2>3. QED
    BY <1>1, <1>3, <1>5, <2>1, <2>2 DEF Reconcile, kind
<1>6. QED
  BY <1>4, <1>5

\* An approved outcome has two replicas behind it and exceeds no number that
\* any of them approved.
LEMMA ApprovalBounded ==
  ASSUME NEW v, \A r \in Replicas : v[r] \in Votes, Reconcile(v).kind = "Approved"
  PROVE  /\ Cardinality(Holders(v, "Approved")) >= 2
         /\ \A r \in Holders(v, "Approved") : v[r].notional # NaN =>
              Reconcile(v).notional \in Int /\ Reconcile(v).notional <= v[r].notional
<1>1. Holders(v, "Approved") \in SUBSET Replicas
  BY DEF Holders
<1>2. CASE Unanimous(v)
  <2>1. v[1] = v[2] /\ v[2] = v[3] /\ Reconcile(v) = v[1]
    BY <1>2 DEF Unanimous, Same, Reconcile
  <2>2. 1 \in Holders(v, "Approved") /\ 2 \in Holders(v, "Approved")
    BY <2>1 DEF Holders, Replicas
  <2>3. Cardinality(Holders(v, "Approved")) >= 2
    BY <1>1, <2>2, TwoVotes
  <2>4. \A r \in Replicas : v[r] = v[1]
    BY <2>1 DEF Replicas
  <2>5. v[1].notional # NaN => v[1].notional \in Int
    BY <2>1 DEF Votes, Replicas, EmergencyLiquidationAll
  <2>6. QED
    BY <1>1, <2>1, <2>3, <2>4, <2>5
<1>3. CASE ~Unanimous(v)
  <2> DEFINE numbers == {v[r].notional : r \in Holders(v, "Approved")} \ {NaN}
  <2>1. HasMajority(v, "Approved") /\ Reconcile(v) = Approved(MinimumAdjusted(v))
    BY <1>3 DEF Reconcile, Rejected, EmergencyLiquidationAll
  <2>2. Cardinality(Holders(v, "Approved")) >= 2
    BY <2>1 DEF HasMajority, Threshold
  <2>3. numbers \in SUBSET Int
    BY <1>1 DEF Holders, Votes, EmergencyLiquidationAll
  <2>4. numbers \subseteq {v[1].notional, v[2].notional, v[3].notional}
    BY <1>1 DEF Replicas
  <2>5. ASSUME NEW r \in Holders(v, "Approved"), v[r].notional # NaN
        PROVE  Reconcile(v).notional \in Int /\ Reconcile(v).notional <= v[r].notional
    <3>1. v[r].notional \in numbers
      BY <2>5
    <3>2. MinimumAdjusted(v) = Min(numbers)
      BY <3>1 DEF MinimumAdjusted
    <3> HIDE DEF numbers
    <3>3. Min(numbers) \in numbers /\ \A t \in numbers : Min(numbers) <= t
      BY <2>3, <2>4, <3>1, MinOfThree
    <3>4. Reconcile(v).notional = Min(numbers)
      BY <2>1, <3>2 DEF Approved
    <3>5. QED
      BY <2>3, <3>1, <3>3, <3>4
  <2>6. QED
    BY <2>2, <2>5
<1>4. QED
  BY <1>2, <1>3

\* Whatever one replica answers, and wherever it sits, the voted verdict is of
\* the kernel's kind and approves no more than the kernel did
\* (tmr_voter.rs:49-111).
THEOREM VoterMasksOneFault == KernelSpec => []OneFaultIsMasked
<1>1. KernelTypeOK => OneFaultIsMasked
  <2> SUFFICES ASSUME KernelTypeOK, Adjudicated, NEW r \in Replicas, NEW faulty \in AnyVerdict,
                      NEW v, v = [q \in Replicas |-> IF q = r THEN faulty ELSE reply.verdict]
               PROVE  /\ Reconcile(v).kind = reply.verdict.kind
                      /\ Reconcile(v).kind = "Approved" =>
                           /\ Reconcile(v).notional \in Int
                           /\ Reconcile(v).notional <= reply.verdict.notional
    BY DEF OneFaultIsMasked
  <2>1. faulty \in Votes /\ reply.verdict \in Verdicts /\ reply.verdict \in Votes
    BY VoteTypes
  <2>2. \A q \in Replicas : v[q] \in Votes
    BY <2>1
  <2>3. PICK i \in Replicas, j \in Replicas : i # j /\ i # r /\ j # r
    BY DEF Replicas
  <2>4. v[i] = reply.verdict /\ v[j] = reply.verdict
    BY <2>3
  <2>5. Reconcile(v).kind = reply.verdict.kind
    BY <2>2, <2>3, <2>4, MajorityDecides
  <2>6. ASSUME Reconcile(v).kind = "Approved"
        PROVE  /\ Reconcile(v).notional \in Int
               /\ Reconcile(v).notional <= reply.verdict.notional
    <3>1. i \in Holders(v, "Approved")
      BY <2>4, <2>5, <2>6 DEF Holders
    <3>2. v[i].notional # NaN
      <4>1. reply.verdict.kind = "Approved"
        BY <2>5, <2>6
      <4>2. reply.verdict.notional \in Int
        BY <2>1, <4>1 DEF Verdicts, EmergencyLiquidationAll
      <4>3. QED
        BY <2>4, <4>2, VoterAssumption
    <3>3. QED
      BY <2>2, <2>4, <2>6, <3>1, <3>2, ApprovalBounded
  <2>7. QED
    BY <2>5, <2>6
<1>2. QED
  BY <1>1, KernelTypeCorrect, PTL

\* With two replicas off, no approval comes out unless two replicas approve,
\* and never for more than a replica that approves a number allows
\* (tmr_voter.rs:77-88).
THEOREM VoterNeverLooser == KernelSpec => []NeverLooserThanTwo
<1>1. KernelTypeOK => NeverLooserThanTwo
  <2> SUFFICES ASSUME KernelTypeOK, Adjudicated, NEW v \in AnyVerdict, NEW w \in AnyVerdict,
                      NEW ballot \in {<<reply.verdict, v, w>>, <<v, reply.verdict, w>>,
                                      <<v, w, reply.verdict>>},
                      Reconcile(ballot).kind = "Approved"
               PROVE  /\ Cardinality(Holders(ballot, "Approved")) >= 2
                      /\ \A r \in Holders(ballot, "Approved") : ballot[r].notional # NaN =>
                           /\ Reconcile(ballot).notional \in Int
                           /\ Reconcile(ballot).notional <= ballot[r].notional
    BY DEF NeverLooserThanTwo, Holders
  <2>1. v \in Votes /\ w \in Votes /\ reply.verdict \in Votes
    BY VoteTypes
  <2>2. \A r \in Replicas : ballot[r] \in Votes
    BY <2>1 DEF Replicas
  <2>3. QED
    BY <2>2, ApprovalBounded
<1>2. QED
  BY <1>1, KernelTypeCorrect, PTL
=============================================================================

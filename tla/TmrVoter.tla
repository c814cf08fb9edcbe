------------------------------ MODULE TmrVoter ------------------------------
(***************************************************************************)
(* The triple-modular-redundancy voter (constitution/src/tmr_voter.rs)     *)
(* over replicas of the kernel: three of them answer the same proposal and *)
(* reconcile makes one verdict of their three.  Replicas that work start   *)
(* alike and see the same calls, so they answer what ConstitutionKernel    *)
(* answers; one that does not may say anything.  NaN stands for the f64    *)
(* that equals nothing, itself included, and that f64::min ignores.        *)
(***************************************************************************)
EXTENDS ConstitutionKernel, FiniteSetsExt

CONSTANTS NaN, Infinity

ASSUME VoterAssumption == NaN \notin Int /\ Infinity \notin Int /\ NaN # Infinity

Replicas == 1..3

\* What a replica may answer, out of order or on a stale portfolio.
AnyVerdict ==
  {Approved(n) : n \in {pr.notional : pr \in Proposals} \cup {NaN}}
    \cup {Rejected(why) : why \in RiskViolationCodes}
    \cup {EmergencyLiquidationAll}

-----------------------------------------------------------------------------
(* The ballot.                                                             *)

\* `==` of two verdicts: NaN is not equal to itself.
Same(v, w) == v = w /\ v # Approved(NaN)

Unanimous(v) == Same(v[1], v[2]) /\ Same(v[2], v[3])

Holders(v, kind) == {r \in Replicas : v[r].kind = kind}

\* reconcile_threshold
Threshold == 2

\* Mutant: one vote is as good as two.
HasMajority_Single(v, kind) == Cardinality(Holders(v, kind)) >= Threshold - 1

HasMajority(v, kind) == Cardinality(Holders(v, kind)) >= Threshold

\* Mutant: the larger notional wins.
MinimumAdjusted_Max(v) ==
  LET numbers == {v[r].notional : r \in Holders(v, "Approved")} \ {NaN}
  IN  IF numbers = {} THEN Infinity ELSE Max(numbers)

\* The fold of f64::min from infinity over the approved notionals.
MinimumAdjusted(v) ==
  LET numbers == {v[r].notional : r \in Holders(v, "Approved")} \ {NaN}
  IN  IF numbers = {} THEN Infinity ELSE Min(numbers)

\* The reason of the first replica that rejects.
FirstReason(v) == v[Min(Holders(v, "Rejected"))].reason

Reconcile(v) ==
  IF Unanimous(v) THEN v[1]
  ELSE IF HasMajority(v, "Approved") THEN Approved(MinimumAdjusted(v))
  ELSE IF HasMajority(v, "Rejected") THEN Rejected(FirstReason(v))
  ELSE IF HasMajority(v, "EmergencyLiquidationAll") THEN EmergencyLiquidationAll
  ELSE Rejected("InvalidNumericalState")

-----------------------------------------------------------------------------
(* Properties.                                                             *)

Adjudicated == reply.op = "process_proposal"

\* Whatever one replica says, and wherever it sits, the voted answer is the one
\* the kernel gave: of the same kind, and an approval is a number and for no
\* more than the kernel approved (tmr_voter.rs:49-111; docs/ARCHITECTURE.md:111,
\* "majority rules").
OneFaultIsMasked ==
  Adjudicated =>
    \A r \in Replicas, faulty \in AnyVerdict :
      LET outcome == Reconcile([q \in Replicas |-> IF q = r THEN faulty ELSE reply.verdict])
      IN  /\ outcome.kind = reply.verdict.kind
          /\ outcome.kind = "Approved" => /\ outcome.notional \in Int
                                          /\ outcome.notional <= reply.verdict.notional

\* Two replicas may both disagree with the kernel, having seen a stale
\* portfolio: no approval comes out unless a second replica approves, and
\* never for more than any replica that approves a number allows
\* (tmr_voter.rs:77-88).
NeverLooserThanTwo ==
  Adjudicated =>
    \A v, w \in AnyVerdict :
      \A ballot \in {<<reply.verdict, v, w>>, <<v, reply.verdict, w>>, <<v, w, reply.verdict>>} :
        LET outcome == Reconcile(ballot)
            inFavour == {r \in Replicas : ballot[r].kind = "Approved"}
        IN  outcome.kind = "Approved" =>
              /\ Cardinality(inFavour) >= 2
              /\ \A r \in inFavour : ballot[r].notional # NaN =>
                   outcome.notional \in Int /\ outcome.notional <= ballot[r].notional
=============================================================================

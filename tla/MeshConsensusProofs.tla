------------------------- MODULE MeshConsensusProofs -------------------------
(***************************************************************************)
(* No value without a majority, and no two commits without a common        *)
(* supporter: proofs for any number of nodes and of overlapping proposals, *)
(* any peers known at the start or registered later, and any lost votes    *)
(* and commit messages.                                                    *)
(***************************************************************************)
EXTENDS MeshConsensus, FiniteSetTheorems, TLAPS

Messages == [to : Nodes, sender : Nodes, value : Proposals]

Phases == {"unused", "collect", "broadcast", "ended"}

MeshTypes ==
  /\ peers \in [Nodes -> SUBSET Nodes]
  /\ ledger \in [Nodes -> Proposals \cup {0}]
  /\ by \in [Proposals -> SUBSET Nodes] /\ granted \in [Proposals -> SUBSET Nodes]
  /\ todo \in [Proposals -> SUBSET Nodes]
  /\ phase \in [Proposals -> Phases]
  /\ size \in [Proposals -> Nat] /\ votes \in [Proposals -> Nat]
  /\ committed \subseteq Proposals /\ msgs \subseteq Messages

\* Peers are other nodes and are never forgotten.
Membership == \A n \in Nodes : n \notin peers[n] /\ InitialPeers[n] \subseteq peers[n]

\* A ballot counts its proposer and each peer that granted it once, over at
\* least the peers the proposer started with.
Ballot(i) ==
  IF phase[i] = "unused" THEN granted[i] = {}
  ELSE \E n \in Nodes :
         /\ by[i] = {n}
         /\ size[i] >= Cardinality(InitialPeers[n])
         /\ n \notin granted[i]
         /\ phase[i] = "collect" => /\ votes[i] = Cardinality(granted[i]) + 1
                                    /\ todo[i] \cap (granted[i] \cup {n}) = {}

\* A commit has the quorum of the peers its loop ran over behind it.
Backed(i) ==
  /\ phase[i] \in {"broadcast", "ended"}
  /\ Cardinality(Supporters(i)) >= (size[i] + 1) \div 2 + 1

MeshInv ==
  /\ MeshTypes /\ Membership
  /\ \A i \in Proposals : Ballot(i)
  /\ \A i \in committed : Backed(i)
  /\ \A i \in Proposals : phase[i] = "broadcast" => i \in committed
  /\ \A m \in msgs : m.value \in committed /\ by[m.value] = {m.sender}
  /\ \A n \in Nodes : ledger[n] # 0 =>
       ledger[n] \in committed /\ by[ledger[n]] \subseteq peers[n] \cup {n}

-----------------------------------------------------------------------------
(* Counting.                                                               *)

LEMMA NodeSets ==
  ASSUME NEW S \in SUBSET Nodes
  PROVE  IsFiniteSet(S) /\ Cardinality(S) \in Nat
BY MeshAssumption, FS_Subset, FS_CardinalityType

\* One more supporter is one more in the count.
LEMMA OneMore ==
  ASSUME NEW S \in SUBSET Nodes, NEW p \in Nodes, p \notin S
  PROVE  Cardinality(S \cup {p}) = Cardinality(S) + 1
BY NodeSets, FS_AddElement

\* The proposer's view of the mesh never shrinks below what it started with.
LEMMA KnownPeers ==
  ASSUME MeshTypes, Membership, NEW n \in Nodes
  PROVE  /\ Cardinality(peers[n]) \in Nat
         /\ Cardinality(peers[n]) >= Cardinality(InitialPeers[n])
<1>1. peers[n] \in SUBSET Nodes /\ InitialPeers[n] \in SUBSET peers[n]
  BY DEF MeshTypes, Membership
<1>2. IsFiniteSet(peers[n]) /\ Cardinality(peers[n]) \in Nat
  BY <1>1, NodeSets
<1> QED
  BY <1>1, <1>2, FS_Subset

-----------------------------------------------------------------------------
(* The invariant.                                                          *)

LEMMA MeshInitInv == MeshInit => MeshInv
<1> SUFFICES ASSUME MeshInit PROVE MeshInv
  OBVIOUS
<1>1. MeshTypes
  BY MeshAssumption DEF MeshInit, MeshTypes, Phases
<1>2. Membership
  BY MeshAssumption DEF MeshInit, Membership
<1> QED
  BY <1>1, <1>2 DEF MeshInit, MeshInv, Ballot

\* A step that leaves ballots, commits and ledgers alone and forgets no peer.
LEMMA QuietStep ==
  ASSUME MeshInv, MeshTypes', Membership',
         UNCHANGED <<by, phase, size, votes, granted, committed, ledger>>,
         \A n \in Nodes : peers[n] \subseteq peers'[n],
         \A i \in Proposals : todo'[i] \subseteq todo[i],
         \A m \in msgs' : m \in msgs \/ (m.value \in committed /\ by[m.value] = {m.sender})
  PROVE  MeshInv'
<1>1. \A i \in Proposals : Ballot(i)'
  BY DEF MeshInv, Ballot
<1>2. \A i \in committed' : Backed(i)'
  BY DEF MeshInv, Backed, Supporters
<1> QED
  BY <1>1, <1>2 DEF MeshInv

LEMMA RegisterPeerInv ==
  ASSUME MeshInv, NEW n \in Nodes, NEW p \in Nodes, RegisterPeer(n, p)
  PROVE  MeshInv'
<1>1. MeshTypes'
  BY DEF RegisterPeer, MeshInv, MeshTypes, proposalVars
<1>2. n # p
  BY MeshAssumption DEF RegisterPeer
<1>3. Membership'
  BY <1>2 DEF RegisterPeer, MeshInv, MeshTypes, Membership
<1>4. \A q \in Nodes : peers[q] \subseteq peers'[q]
  BY DEF RegisterPeer, MeshInv, MeshTypes
<1> QED
  BY <1>1, <1>3, <1>4, QuietStep DEF RegisterPeer, proposalVars, MeshInv

\* Steps that change nothing the invariant speaks of but the peers still to be
\* visited and the messages under way.
LEMMA VisitInv ==
  ASSUME MeshInv, UNCHANGED <<peers, by, phase, size, votes, granted, committed, ledger>>,
         \/ UNCHANGED todo
         \/ \E i \in Proposals, p \in Nodes : Visit(i, p),
         msgs' \subseteq Messages,
         \A m \in msgs' : m \in msgs \/ (m.value \in committed /\ by[m.value] = {m.sender})
  PROVE  MeshInv'
<1>1. /\ todo' \in [Proposals -> SUBSET Nodes]
      /\ \A i \in Proposals : todo'[i] \subseteq todo[i]
  BY DEF MeshInv, MeshTypes, Visit
<1>2. MeshTypes' /\ Membership'
  BY <1>1 DEF MeshInv, MeshTypes, Membership
<1> QED
  BY <1>1, <1>2, QuietStep

LEMMA ProposeInv ==
  ASSUME MeshInv, NEW i \in Proposals, NEW n \in Nodes, Propose(i, n)
  PROVE  MeshInv'
<1>1. Cardinality(peers[n]) \in Nat /\ Cardinality(peers[n]) >= Cardinality(InitialPeers[n])
  BY KnownPeers DEF MeshInv
<1>2. MeshTypes'
  BY <1>1 DEF Propose, MeshInv, MeshTypes, Phases, memberVars
<1>3. Membership'
  BY DEF Propose, MeshInv, Membership, memberVars
<1>4. phase[i] = "unused" /\ granted[i] = {}
  BY DEF Propose, MeshInv, Ballot
<1>5. i \notin committed
  BY <1>4 DEF MeshInv, Backed
<1>6. ASSUME NEW j \in Proposals PROVE Ballot(j)'
  <2>1. CASE j = i
    <3>1. /\ by'[i] = {n} /\ phase'[i] = "collect" /\ todo'[i] = peers[n]
          /\ size'[i] = Cardinality(peers[n]) /\ votes'[i] = 1 /\ granted'[i] = {}
      BY <1>4 DEF Propose, MeshInv, MeshTypes
    <3>2. n \notin peers[n] /\ Cardinality({}) = 0
      BY FS_EmptySet DEF MeshInv, Membership
    <3> QED
      BY <1>1, <2>1, <3>1, <3>2 DEF Ballot
  <2>2. CASE j # i
    BY <1>6, <2>2 DEF Propose, MeshInv, MeshTypes, Ballot
  <2> QED
    BY <2>1, <2>2
<1>7. \A j \in committed' : Backed(j)'
  BY <1>5 DEF Propose, MeshInv, MeshTypes, Backed, Supporters
<1>8. \A j \in Proposals : phase'[j] = "broadcast" => j \in committed'
  BY DEF Propose, MeshInv, MeshTypes
<1>9. \A m \in msgs' : m.value \in committed' /\ by'[m.value] = {m.sender}
  BY <1>5 DEF Propose, MeshInv, MeshTypes
<1>10. \A q \in Nodes : ledger'[q] # 0 =>
         ledger'[q] \in committed' /\ by'[ledger'[q]] \subseteq peers'[q] \cup {q}
  BY <1>5 DEF Propose, MeshInv, MeshTypes, memberVars
<1> QED
  BY <1>2, <1>3, <1>6, <1>7, <1>8, <1>9, <1>10 DEF MeshInv

LEMMA GrantedInv ==
  ASSUME MeshInv, NEW i \in Proposals, NEW n \in Nodes, NEW p \in Nodes, Granted(i, n, p)
  PROVE  MeshInv'
<1>1. MeshTypes'
  BY DEF Granted, Visit, MeshInv, MeshTypes, memberVars
<1>2. Membership'
  BY DEF Granted, MeshInv, Membership, memberVars
<1>3. phase[i] = "collect" /\ i \notin committed
  BY DEF Granted, MeshInv, Backed
<1>4. ASSUME NEW j \in Proposals PROVE Ballot(j)'
  <2>1. CASE j = i
    <3>1. PICK q \in Nodes :
            /\ by[i] = {q} /\ size[i] >= Cardinality(InitialPeers[q]) /\ q \notin granted[i]
            /\ votes[i] = Cardinality(granted[i]) + 1 /\ todo[i] \cap (granted[i] \cup {q}) = {}
      BY <1>3 DEF MeshInv, Ballot
    <3>2. /\ p \in todo[i] /\ todo'[i] = todo[i] \ {p}
          /\ votes'[i] = votes[i] + 1 /\ granted'[i] = granted[i] \cup {p}
          /\ by'[i] = by[i] /\ size'[i] = size[i] /\ phase'[i] = phase[i]
      BY DEF Granted, Visit, MeshInv, MeshTypes
    <3>3. Cardinality(granted[i] \cup {p}) = Cardinality(granted[i]) + 1
      BY <3>1, <3>2, OneMore DEF MeshInv, MeshTypes
    <3> QED
      BY <1>3, <2>1, <3>1, <3>2, <3>3 DEF Ballot
  <2>2. CASE j # i
    BY <1>4, <2>2 DEF Granted, Visit, MeshInv, MeshTypes, Ballot
  <2> QED
    BY <2>1, <2>2
<1>5. \A j \in committed' : Backed(j)'
  BY <1>3 DEF Granted, MeshInv, MeshTypes, Backed, Supporters
<1> QED
  BY <1>1, <1>2, <1>4, <1>5 DEF Granted, memberVars, MeshInv

\* The count at the end of the loop is the number of supporters.
LEMMA CommitInv ==
  ASSUME MeshInv, NEW i \in Proposals, NEW n \in Nodes, Commit(i, n)
  PROVE  MeshInv'
<1>1. /\ phase[i] = "collect" /\ by[i] = {n} /\ size[i] = Cardinality(peers[n])
      /\ votes[i] >= (size[i] + 1) \div 2 + 1
  BY DEF Commit, Unchanged, Quorum
<1>2. MeshTypes'
  BY DEF Commit, MeshInv, MeshTypes, Phases, memberVars
<1>3. Membership'
  BY DEF Commit, MeshInv, Membership, memberVars
<1>4. n \notin granted[i] /\ votes[i] = Cardinality(granted[i]) + 1
  BY <1>1 DEF MeshInv, Ballot
<1>5. Cardinality(Supporters(i)) = votes[i]
  <2>1. Supporters(i) = granted[i] \cup {n}
    BY <1>1 DEF Supporters
  <2> QED
    BY <1>4, <2>1, OneMore DEF MeshInv, MeshTypes
<1>6. \A j \in Proposals : Ballot(j)'
  BY <1>1 DEF Commit, MeshInv, MeshTypes, Ballot
<1>7. ASSUME NEW j \in committed' PROVE Backed(j)'
  <2>1. Supporters(j)' = Supporters(j) /\ size' = size
    BY DEF Commit, Supporters
  <2>2. CASE j = i
    <3>1. phase'[j] = "broadcast"
      BY <2>2 DEF Commit, MeshInv, MeshTypes
    <3> QED
      BY <1>1, <1>5, <2>1, <2>2, <3>1 DEF Backed
  <2>3. CASE j # i
    <3>1. j \in committed /\ j \in Proposals /\ phase'[j] = phase[j]
      BY <1>7, <2>3 DEF Commit, MeshInv, MeshTypes
    <3> QED
      BY <2>1, <3>1 DEF MeshInv, Backed
  <2> QED
    BY <2>2, <2>3
<1>8. \A j \in Proposals : phase'[j] = "broadcast" => j \in committed'
  BY DEF Commit, MeshInv, MeshTypes
<1>9. \A m \in msgs' : m.value \in committed' /\ by'[m.value] = {m.sender}
  BY DEF Commit, MeshInv
<1>10. \A q \in Nodes : ledger'[q] # 0 =>
         ledger'[q] \in committed' /\ by'[ledger'[q]] \subseteq peers'[q] \cup {q}
  BY <1>1 DEF Commit, MeshInv, MeshTypes, memberVars
<1> QED
  BY <1>2, <1>3, <1>6, <1>7, <1>8, <1>9, <1>10 DEF MeshInv

LEMMA EndInv ==
  ASSUME MeshInv, NEW i \in Proposals, phase[i] \in {"collect", "broadcast"},
         phase' = [phase EXCEPT ![i] = "ended"],
         UNCHANGED <<peers, ledger, by, todo, size, votes, granted, committed, msgs>>
  PROVE  MeshInv'
<1>1. MeshTypes' /\ Membership'
  BY DEF MeshInv, MeshTypes, Membership, Phases
<1>2. \A j \in Proposals : Ballot(j)'
  BY DEF MeshInv, MeshTypes, Ballot
<1>3. \A j \in committed' : Backed(j)'
  BY DEF MeshInv, MeshTypes, Backed, Supporters
<1>4. \A j \in Proposals : phase'[j] = "broadcast" => j \in committed'
  BY DEF MeshInv, MeshTypes
<1> QED
  BY <1>1, <1>2, <1>3, <1>4 DEF MeshInv

LEMMA ApplyCommitInv ==
  ASSUME MeshInv, NEW m \in msgs, ApplyCommit(m)
  PROVE  MeshInv'
<1>1. /\ m.to \in Nodes /\ m.value \in Proposals
      /\ m.value \in committed /\ by[m.value] = {m.sender}
  BY DEF MeshInv, MeshTypes, Messages
<1>2. MeshTypes' /\ Membership'
  BY <1>1 DEF ApplyCommit, MeshInv, MeshTypes, Membership, memberVars, proposalVars
<1>3. \A j \in Proposals : Ballot(j)'
  BY DEF ApplyCommit, MeshInv, Ballot, proposalVars
<1>4. \A j \in committed' : Backed(j)'
  BY DEF ApplyCommit, MeshInv, Backed, Supporters, proposalVars
<1>5. \A q \in Nodes : ledger'[q] # 0 =>
        ledger'[q] \in committed' /\ by'[ledger'[q]] \subseteq peers'[q] \cup {q}
  BY <1>1 DEF ApplyCommit, MeshInv, MeshTypes, memberVars, proposalVars
<1> QED
  BY <1>2, <1>3, <1>4, <1>5 DEF ApplyCommit, MeshInv, proposalVars

LEMMA MeshStep == MeshInv /\ [MeshNext]_meshVars => MeshInv'
<1> SUFFICES ASSUME MeshInv, [MeshNext]_meshVars PROVE MeshInv'
  OBVIOUS
<1>0. msgs \subseteq Messages
  BY DEF MeshInv, MeshTypes
<1>1. ASSUME NEW n \in Nodes, NEW p \in Nodes, RegisterPeer(n, p) PROVE MeshInv'
  BY <1>1, RegisterPeerInv
<1>2. ASSUME NEW n \in Nodes, NEW p \in Nodes, SetPeerPolicy(n, p) PROVE MeshInv'
  BY <1>0, <1>2, VisitInv DEF SetPeerPolicy, proposalVars
<1>3. ASSUME NEW i \in Proposals, NEW n \in Nodes, Propose(i, n) PROVE MeshInv'
  BY <1>3, ProposeInv
<1>4. ASSUME NEW i \in Proposals, NEW n \in Nodes, NEW p \in Nodes, Granted(i, n, p) PROVE MeshInv'
  BY <1>4, GrantedInv
<1>5. ASSUME NEW i \in Proposals, NEW n \in Nodes, NEW p \in Nodes,
             SkipFaulty(i, n, p) \/ NotGranted(i, n, p)
      PROVE  MeshInv'
  BY <1>0, <1>5, VisitInv DEF SkipFaulty, NotGranted, memberVars
<1>6. ASSUME NEW i \in Proposals, NEW n \in Nodes, NEW p \in Nodes, SendCommit(i, n, p)
      PROVE  MeshInv'
  <2>1. i \in committed /\ by[i] = {n}
    BY <1>6 DEF SendCommit, Unchanged, MeshInv
  <2>2. [to |-> p, sender |-> n, value |-> i] \in Messages
    BY DEF Messages
  <2>3. /\ msgs' \subseteq Messages
        /\ \A m \in msgs' : m \in msgs \/ (m.value \in committed /\ by[m.value] = {m.sender})
    BY <1>0, <1>6, <2>1, <2>2 DEF SendCommit, SendMessage
  <2> QED
    BY <1>6, <2>3, VisitInv DEF SendCommit, memberVars
<1>7. ASSUME NEW i \in Proposals, NEW n \in Nodes, Commit(i, n) PROVE MeshInv'
  BY <1>7, CommitInv
<1>8. ASSUME NEW i \in Proposals, NEW n \in Nodes,
             Reject(i, n) \/ Finish(i, n) \/ IterationError(i, n)
      PROVE  MeshInv'
  BY <1>8, EndInv DEF Reject, Finish, IterationError, memberVars
<1>9. ASSUME NEW i \in Proposals, GiveUp(i) PROVE MeshInv'
  BY <1>0, <1>9, VisitInv DEF GiveUp, memberVars
<1>10. ASSUME NEW m \in msgs, ApplyCommit(m) PROVE MeshInv'
  BY <1>10, ApplyCommitInv
<1>11. CASE UNCHANGED meshVars
  BY <1>0, <1>11, VisitInv DEF meshVars, memberVars, proposalVars
<1> QED
  BY <1>1, <1>2, <1>3, <1>4, <1>5, <1>6, <1>7, <1>8, <1>9, <1>10, <1>11
     DEF MeshNext, ProposerStep

\* Votes are counted once and over the peers the loop ran over, commits keep
\* their supporters, and ledgers and messages hold commits only
\* (bft_consensus.py:76-85, 120-138, 152-181).
THEOREM MeshInvariant == MeshSpec => []MeshInv
<1>1. MeshInit => MeshInv
  BY MeshInitInv
<1>2. MeshInv /\ [MeshNext]_meshVars => MeshInv'
  BY MeshStep
<1> QED
  BY <1>1, <1>2, PTL DEF MeshSpec

\* In a mesh of any size no value reaches a ledger without a majority of
\* distinct nodes behind it (bft_consensus.py:76-85, 120-138, 166-173).
THEOREM MeshMajority == MeshSpec => []MajorityBehindEveryValue
<1>1. MeshInv => MajorityBehindEveryValue
  <2> SUFFICES ASSUME MeshInv, NEW n \in Nodes, ledger[n] # 0
               PROVE  /\ 2 * Cardinality(Supporters(ledger[n])) > size[ledger[n]] + 1
                      /\ by[ledger[n]] \subseteq peers[n] \cup {n}
    BY DEF MajorityBehindEveryValue
  <2> DEFINE i == ledger[n]
  <2>1. i \in committed /\ i \in Proposals /\ by[i] \subseteq peers[n] \cup {n}
    BY DEF MeshInv, MeshTypes
  <2>2. Cardinality(Supporters(i)) >= (size[i] + 1) \div 2 + 1 /\ size[i] \in Nat
    BY <2>1 DEF MeshInv, MeshTypes, Backed
  <2>3. Cardinality(Supporters(i)) \in Nat
    BY <2>1, NodeSets DEF Supporters, MeshInv, MeshTypes
  <2> QED
    BY <2>1, <2>2, <2>3
<1> QED
  BY <1>1, MeshInvariant, PTL

\* If every node starts with enough peers for its quorum to be a majority of
\* the mesh, any two commits share a supporter, whatever the views of their
\* proposers have become.
THEOREM MeshCommitsIntersect == MeshSpec => []CommitsIntersect
<1>1. MeshInv => CommitsIntersect
  <2> SUFFICES ASSUME MeshInv,
                      \A n \in Nodes :
                        2 * ((Cardinality(InitialPeers[n]) + 1) \div 2 + 1) > Cardinality(Nodes),
                      NEW i \in committed, NEW j \in committed
               PROVE  Supporters(i) \cap Supporters(j) # {}
    BY DEF CommitsIntersect
  <2>1. ASSUME NEW k \in committed
        PROVE  /\ Supporters(k) \subseteq Nodes
               /\ 2 * Cardinality(Supporters(k)) > Cardinality(Nodes)
    <3>1. k \in Proposals /\ Backed(k) /\ Ballot(k) /\ size[k] \in Nat
          /\ Supporters(k) \subseteq Nodes
      BY DEF MeshInv, MeshTypes, Supporters
    <3>2. PICK n \in Nodes : size[k] >= Cardinality(InitialPeers[n])
      BY <3>1 DEF Backed, Ballot
    <3>3. /\ Cardinality(Supporters(k)) \in Nat /\ Cardinality(InitialPeers[n]) \in Nat
          /\ Cardinality(Nodes) \in Nat
      BY <3>1, NodeSets, MeshAssumption
    <3> QED
      BY <3>1, <3>2, <3>3 DEF Backed
  <2>2. /\ Cardinality(Supporters(i)) \in Nat /\ Cardinality(Supporters(j)) \in Nat
        /\ Cardinality(Nodes) \in Nat
    BY <2>1, NodeSets
  <2>3. Cardinality(Supporters(i)) + Cardinality(Supporters(j)) > Cardinality(Nodes)
    BY <2>1, <2>2
  <2> QED
    BY <2>1, <2>3, MeshAssumption, FS_MajoritiesIntersect
<1> QED
  BY <1>1, MeshInvariant, PTL
-----------------------------------------------------------------------------
(* Answers and progress.                                                   *)

\* What the facade has returned: "True" only for a proposal whose worker has
\* committed it and told its peers.
ToldInv ==
  /\ told \in [Proposals -> {"nothing", "True", "False"}]
  /\ \A i \in Proposals : told[i] = "True" => i \in committed /\ phase[i] = "ended"

\* An answer is given once.
ToldOnce == \A i \in Proposals : told[i] # "nothing" => told'[i] = told[i]

LEMMA ToldStep ==
  ASSUME MeshInv, ToldInv, [MeshNext]_meshVars
  PROVE  ToldInv' /\ ToldOnce
<1>0. phase \in [Proposals -> Phases]
  BY DEF MeshInv, MeshTypes
<1>1. CASE UNCHANGED <<phase, committed, told>>
  BY <1>1 DEF ToldInv, ToldOnce
<1>2. ASSUME NEW i \in Proposals, NEW n \in Nodes, Propose(i, n) PROVE ToldInv' /\ ToldOnce
  BY <1>0, <1>2 DEF Propose, ToldInv, ToldOnce
<1>3. ASSUME NEW i \in Proposals, NEW n \in Nodes, Commit(i, n) PROVE ToldInv' /\ ToldOnce
  BY <1>0, <1>3 DEF Commit, ToldInv, ToldOnce
<1>4. ASSUME NEW i \in Proposals, phase[i] \in {"collect", "broadcast"},
             Tell(i, "False"), committed' = committed,
             phase' = phase \/ phase' = [phase EXCEPT ![i] = "ended"]
      PROVE  ToldInv' /\ ToldOnce
  BY <1>0, <1>4 DEF Tell, ToldInv, ToldOnce
<1>5. ASSUME NEW i \in Proposals, NEW n \in Nodes, Reject(i, n) \/ IterationError(i, n)
      PROVE  ToldInv' /\ ToldOnce
  BY <1>4, <1>5 DEF Reject, IterationError
<1>6. ASSUME NEW i \in Proposals, GiveUp(i) PROVE ToldInv' /\ ToldOnce
  BY <1>4, <1>6 DEF GiveUp
<1>7. ASSUME NEW i \in Proposals, NEW n \in Nodes, Finish(i, n) PROVE ToldInv' /\ ToldOnce
  <2>1. phase[i] = "broadcast" /\ i \in committed /\ committed' = committed
    BY <1>7 DEF Finish, MeshInv
  <2> QED BY <1>0, <1>7, <2>1 DEF Finish, Tell, ToldInv, ToldOnce
<1>8. ASSUME NEW i \in Proposals, NEW n \in Nodes, NEW p \in Nodes,
             Granted(i, n, p) \/ SkipFaulty(i, n, p) \/ NotGranted(i, n, p) \/ SendCommit(i, n, p)
      PROVE  ToldInv' /\ ToldOnce
  BY <1>1, <1>8 DEF Granted, SkipFaulty, NotGranted, SendCommit
<1>9. ASSUME NEW n \in Nodes, NEW p \in Nodes, RegisterPeer(n, p) \/ SetPeerPolicy(n, p)
      PROVE  ToldInv' /\ ToldOnce
  BY <1>1, <1>9 DEF RegisterPeer, SetPeerPolicy, proposalVars
<1>10. ASSUME NEW m \in msgs, ApplyCommit(m) PROVE ToldInv' /\ ToldOnce
  BY <1>1, <1>10 DEF ApplyCommit, proposalVars
<1>11. CASE UNCHANGED meshVars
  BY <1>1, <1>11 DEF meshVars, proposalVars
<1> QED BY <1>2, <1>3, <1>5, <1>6, <1>7, <1>8, <1>9, <1>10, <1>11 DEF MeshNext, ProposerStep

\* The facade answers True only for a proposal that was committed by a majority
\* and sent to every peer, and an answer is never taken back: a caller that was
\* told False after ten seconds is not told again when the worker commits
\* later (bft_consensus.py:87-109, 140-173).
THEOREM MeshTold == MeshSpec => []ToldInv /\ [][ToldOnce]_meshVars
<1>1. MeshInit => ToldInv
  BY DEF MeshInit, ToldInv
<1>2. MeshInv /\ ToldInv /\ [MeshNext]_meshVars => ToldInv' /\ [ToldOnce]_meshVars
  BY ToldStep
<1> QED BY <1>1, <1>2, MeshInvariant, PTL DEF MeshSpec

\* A bound on the steps proposal i has yet to take: one per peer in each of its
\* two loops, and one at the end of each.
StepsLeft(i) ==
  IF phase[i] = "unused" THEN 2 * Cardinality(Nodes) + 3
  ELSE IF phase[i] = "collect" THEN Cardinality(todo[i]) + Cardinality(Nodes) + 2
  ELSE IF phase[i] = "broadcast" THEN Cardinality(todo[i]) + 1
  ELSE 0

\* The steps of proposal i, those that need a peer's vote included.
OwnStep(i) ==
  \/ ProposerStep(i)
  \/ \E n \in Nodes : Propose(i, n) \/ \E p \in Nodes : Granted(i, n, p)

\* Only its own steps move a proposal, and each of them towards its end.
Moves(i) ==
  IF OwnStep(i) THEN StepsLeft(i)' < StepsLeft(i)
                ELSE UNCHANGED <<phase[i], todo[i], votes[i]>>

LEMMA StepsLeftOK ==
  ASSUME MeshTypes, NEW i \in Proposals
  PROVE  StepsLeft(i) \in Nat /\ StepsLeft(i) <= 2 * Cardinality(Nodes) + 3
<1>1. todo[i] \in SUBSET Nodes /\ phase[i] \in Phases
  BY DEF MeshTypes
<1>2. PICK c \in Nat, d \in Nat : c = Cardinality(todo[i]) /\ d = Cardinality(Nodes)
  BY <1>1, NodeSets
<1>3. c <= d
  BY <1>1, <1>2, MeshAssumption, FS_Subset
<1> QED BY <1>1, <1>2, <1>3 DEF StepsLeft, Phases

\* A visit of a peer takes it off the list.
LEMMA VisitLowers ==
  ASSUME MeshTypes, NEW i \in Proposals, NEW p \in Nodes, Visit(i, p),
         phase[i] \in {"collect", "broadcast"}, phase' = phase
  PROVE  StepsLeft(i)' < StepsLeft(i)
<1>1. /\ p \in todo[i] /\ todo[i] \in SUBSET Nodes /\ todo'[i] = todo[i] \ {p}
      /\ phase'[i] = phase[i]
  BY DEF MeshTypes, Visit
<1>2. PICK c \in Nat, d \in Nat : c = Cardinality(todo[i]) /\ d = Cardinality(Nodes)
  BY <1>1, NodeSets
<1>3. Cardinality(todo'[i]) = c - 1
  BY <1>1, <1>2, NodeSets, FS_RemoveElement
<1> QED BY <1>1, <1>2, <1>3 DEF StepsLeft

LEMMA OwnStepLowers ==
  ASSUME MeshInv, NEW i \in Proposals, OwnStep(i)
  PROVE  StepsLeft(i)' < StepsLeft(i)
<1>0. /\ MeshTypes /\ phase \in [Proposals -> Phases] /\ todo \in [Proposals -> SUBSET Nodes]
      /\ \A n \in Nodes : peers[n] \in SUBSET Nodes
  BY DEF MeshInv, MeshTypes
<1>1. PICK d \in Nat : d = Cardinality(Nodes)
  BY NodeSets
<1>2. \A n \in Nodes : Cardinality(peers[n]) \in Nat /\ Cardinality(peers[n]) <= d
  BY <1>0, <1>1, MeshAssumption, FS_Subset, NodeSets
<1>3. PICK c \in Nat : c = Cardinality(todo[i])
  BY <1>0, NodeSets
<1>4. ASSUME NEW n \in Nodes, Propose(i, n) PROVE StepsLeft(i)' < StepsLeft(i)
  <2>1. phase[i] = "unused" /\ phase'[i] = "collect" /\ todo'[i] = peers[n]
    BY <1>0, <1>4 DEF Propose
  <2>2. StepsLeft(i) = 2 * d + 3 /\ StepsLeft(i)' = Cardinality(peers[n]) + d + 2
    BY <1>1, <2>1 DEF StepsLeft
  <2> QED BY <1>2, <2>2
<1>5. ASSUME NEW n \in Nodes, Commit(i, n) PROVE StepsLeft(i)' < StepsLeft(i)
  <2>1. phase[i] = "collect" /\ phase'[i] = "broadcast" /\ todo'[i] = peers[n]
    BY <1>0, <1>5 DEF Commit
  <2>2. StepsLeft(i) = c + d + 2 /\ StepsLeft(i)' = Cardinality(peers[n]) + 1
    BY <1>1, <1>3, <2>1 DEF StepsLeft
  <2> QED BY <1>2, <1>3, <2>2
<1>6. ASSUME NEW n \in Nodes, Reject(i, n) \/ Finish(i, n) \/ IterationError(i, n)
      PROVE  StepsLeft(i)' < StepsLeft(i)
  <2>1. phase[i] \in {"collect", "broadcast"} /\ phase'[i] = "ended"
    BY <1>0, <1>6 DEF Reject, Finish, IterationError
  <2>2. StepsLeft(i)' = 0 /\ StepsLeft(i) \in {c + d + 2, c + 1}
    BY <1>1, <1>3, <2>1 DEF StepsLeft
  <2> QED BY <1>1, <1>3, <2>2
<1>7. ASSUME NEW n \in Nodes, NEW p \in Nodes,
             Granted(i, n, p) \/ SkipFaulty(i, n, p) \/ NotGranted(i, n, p) \/ SendCommit(i, n, p)
      PROVE  StepsLeft(i)' < StepsLeft(i)
  <2>1. Visit(i, p) /\ phase[i] \in {"collect", "broadcast"} /\ phase' = phase
    BY <1>7 DEF Granted, SkipFaulty, NotGranted, SendCommit
  <2> QED BY <1>0, <2>1, VisitLowers
<1> QED BY <1>4, <1>5, <1>6, <1>7 DEF OwnStep, ProposerStep

\* A step of another proposal, a receiver or a registration.
LEMMA OthersKeep ==
  ASSUME MeshInv, NEW i \in Proposals, [MeshNext]_meshVars, ~OwnStep(i)
  PROVE  UNCHANGED <<phase[i], todo[i], votes[i]>>
<1>0. /\ phase \in [Proposals -> Phases] /\ todo \in [Proposals -> SUBSET Nodes]
      /\ votes \in [Proposals -> Nat]
  BY DEF MeshInv, MeshTypes
<1>1. CASE UNCHANGED proposalVars
  BY <1>1 DEF proposalVars
<1>2. ASSUME NEW j \in Proposals, GiveUp(j) PROVE UNCHANGED <<phase[i], todo[i], votes[i]>>
  BY <1>2 DEF GiveUp
<1>3. ASSUME NEW j \in Proposals, OwnStep(j) PROVE UNCHANGED <<phase[i], todo[i], votes[i]>>
  <2>1. j # i
    BY <1>3
  <2>2. ASSUME NEW n \in Nodes, Propose(j, n) PROVE UNCHANGED <<phase[i], todo[i], votes[i]>>
    BY <1>0, <2>1, <2>2 DEF Propose
  <2>3. ASSUME NEW n \in Nodes, Commit(j, n) \/ Reject(j, n) \/ Finish(j, n) \/ IterationError(j, n)
        PROVE  UNCHANGED <<phase[i], todo[i], votes[i]>>
    BY <1>0, <2>1, <2>3 DEF Commit, Reject, Finish, IterationError
  <2>4. ASSUME NEW n \in Nodes, NEW p \in Nodes,
               Granted(j, n, p) \/ SkipFaulty(j, n, p) \/ NotGranted(j, n, p) \/ SendCommit(j, n, p)
        PROVE  UNCHANGED <<phase[i], todo[i], votes[i]>>
    BY <1>0, <2>1, <2>4 DEF Granted, SkipFaulty, NotGranted, SendCommit, Visit
  <2> QED BY <1>3, <2>2, <2>3, <2>4 DEF OwnStep, ProposerStep
<1>4. ASSUME NEW n \in Nodes, NEW p \in Nodes, RegisterPeer(n, p) \/ SetPeerPolicy(n, p)
      PROVE  UNCHANGED proposalVars
  BY <1>4 DEF RegisterPeer, SetPeerPolicy
<1>5. ASSUME NEW m \in msgs, ApplyCommit(m) PROVE UNCHANGED proposalVars
  BY <1>5 DEF ApplyCommit
<1>6. CASE UNCHANGED meshVars
  BY <1>1, <1>6 DEF meshVars
<1> QED BY <1>1, <1>2, <1>3, <1>4, <1>5, <1>6 DEF MeshNext, OwnStep

\* In a mesh of n nodes a proposal ends after at most 2n + 3 steps of its own,
\* and nothing another proposal, a receiver or a registration does brings it
\* back or touches its count, so no interleaving can keep a worker thread in
\* its loops (bft_consensus.py:120-173).
THEOREM MeshProgress ==
  MeshSpec => /\ [](\A i \in Proposals :
                      StepsLeft(i) \in Nat /\ StepsLeft(i) <= 2 * Cardinality(Nodes) + 3)
              /\ [][\A i \in Proposals : Moves(i)]_meshVars
<1>1. MeshInv => \A i \in Proposals :
                   StepsLeft(i) \in Nat /\ StepsLeft(i) <= 2 * Cardinality(Nodes) + 3
  BY StepsLeftOK DEF MeshInv
<1>2. MeshInv /\ [MeshNext]_meshVars => [\A i \in Proposals : Moves(i)]_meshVars
  <2> SUFFICES ASSUME MeshInv, [MeshNext]_meshVars, NEW i \in Proposals PROVE Moves(i)
    OBVIOUS
  <2> QED BY OwnStepLowers, OthersKeep DEF Moves
<1> QED BY <1>1, <1>2, MeshInvariant, PTL DEF MeshSpec
\* The guards of the seven alternatives of ProposerStep(i), written out: the
\* prover does not reason about ENABLED.
Ready(i) ==
  \E n \in Nodes :
    \/ /\ phase[i] = "collect" /\ Unchanged(i, n)
       /\ \/ \E p \in Nodes : p \in todo[i] /\ (p \in faulty[n] \/ p \notin faulty[n])
          \/ todo[i] = {} /\ (votes[i] >= Quorum(n) \/ votes[i] < Quorum(n))
    \/ /\ phase[i] = "broadcast" /\ Unchanged(i, n)
       /\ (\E p \in Nodes : p \in todo[i]) \/ todo[i] = {}
    \/ phase[i] \in {"collect", "broadcast"} /\ by[i] = {n} /\ ~Unchanged(i, n)

\* A worker thread in one of its loops always has a next step that needs nobody
\* else: its proposer is known, what is left to visit are nodes, and the count
\* can be compared with the quorum, whatever has been registered meanwhile
\* (bft_consensus.py:120-173, peer_transport.py:77-94).
THEOREM MeshNeverStuck ==
  MeshSpec => [](\A i \in Proposals : phase[i] \in {"collect", "broadcast"} => Ready(i))
<1>1. MeshInv => \A i \in Proposals : phase[i] \in {"collect", "broadcast"} => Ready(i)
  <2> SUFFICES ASSUME MeshInv, NEW i \in Proposals, phase[i] \in {"collect", "broadcast"}
               PROVE  Ready(i)
    OBVIOUS
  <2>1. todo[i] \in SUBSET Nodes /\ votes[i] \in Nat /\ \A n \in Nodes : peers[n] \in SUBSET Nodes
    BY DEF MeshInv, MeshTypes
  <2>2. PICK n \in Nodes : by[i] = {n}
    BY DEF MeshInv, Ballot
  <2>3. PICK q \in Nat : q = Cardinality(peers[n])
    BY <2>1, NodeSets
  <2>4. votes[i] >= Quorum(n) \/ votes[i] < Quorum(n)
    BY <2>1, <2>3 DEF Quorum
  <2>5. todo[i] = {} \/ \E p \in Nodes : p \in todo[i]
    BY <2>1
  <2> QED BY <2>2, <2>4, <2>5 DEF Ready
<1> QED BY <1>1, MeshInvariant, PTL
=============================================================================

---------------------------- MODULE MeshConsensus ----------------------------
(***************************************************************************)
(* State sync of the edge mesh (mesh/mesh/bft_consensus.py) over its       *)
(* WebSocket transport (peer_transport.py).  A proposer asks its peers one *)
(* after the other for a vote, commits on a majority and tells its peers.  *)
(* Proposals of one node may overlap: the facade propose_state_update runs *)
(* each one in a thread of its own and stops waiting after ten seconds.    *)
(*                                                                         *)
(* Ledger keys do not influence each other, so one key is modelled, and    *)
(* proposal i proposes the value i.  The counters are telemetry.  Nobody   *)
(* registers a node as its own peer, which register_peer would accept.     *)
(***************************************************************************)
EXTENDS Integers, FiniteSets

CONSTANTS
  Nodes,          \* mesh nodes
  MaxProposals,   \* bound: proposals made
  InitialPeers,   \* per node, the peers registered before it starts
  LatePeers,      \* pairs <<n, p>>: n may register p while it runs
  Distrust,       \* pairs <<n, p>>: n may mark its peer p faulty
  Lossy           \* whether commit messages may be lost

ASSUME MeshAssumption ==
  /\ IsFiniteSet(Nodes)
  /\ MaxProposals \in Nat
  /\ InitialPeers \in [Nodes -> SUBSET Nodes]
  /\ \A n \in Nodes : n \notin InitialPeers[n] /\ <<n, n>> \notin LatePeers
  /\ LatePeers \subseteq Nodes \X Nodes /\ Distrust \subseteq Nodes \X Nodes
  /\ Lossy \in BOOLEAN

Proposals == 1..MaxProposals

VARIABLES
  peers,     \* peers[n]: the peers n has registered
  faulty,    \* faulty[n]: the peers n has marked POLICY_FAULTY
  ledger,    \* ledger[n]: the value n holds, 0 for none
  by,        \* by[i]: the nodes that made proposal i, none or one
  phase,     \* phase[i]: "unused", "collect", "broadcast" or "ended"
  todo,      \* todo[i]: peers the loop of proposal i has yet to visit
  size,      \* size[i]: the size of the dict the loop iterates over
  votes,     \* votes[i]
  granted,   \* history: granted[i], the peers that voted for proposal i
  committed, \* history: the proposals committed by their proposer
  told,      \* told[i]: what propose_state_update returned
  msgs       \* commit messages on their way

memberVars   == <<peers, faulty>>
proposalVars == <<by, phase, todo, size, votes, granted, committed, told>>
meshVars     == <<memberVars, ledger, proposalVars, msgs>>

MeshInit ==
  /\ peers = InitialPeers
  /\ faulty = [n \in Nodes |-> {}]
  /\ ledger = [n \in Nodes |-> 0]
  /\ by = [i \in Proposals |-> {}]
  /\ phase = [i \in Proposals |-> "unused"]
  /\ todo = [i \in Proposals |-> {}]
  /\ size = [i \in Proposals |-> 0]
  /\ votes = [i \in Proposals |-> 0]
  /\ granted = [i \in Proposals |-> {}]
  /\ committed = {}
  /\ told = [i \in Proposals |-> "nothing"]
  /\ msgs = {}

-----------------------------------------------------------------------------
(* Membership.                                                             *)

RegisterPeer(n, p) ==
  /\ <<n, p>> \in LatePeers /\ p \notin peers[n]
  /\ peers' = [peers EXCEPT ![n] = @ \cup {p}]
  /\ UNCHANGED <<faulty, ledger, proposalVars, msgs>>

SetPeerPolicy(n, p) ==
  /\ <<n, p>> \in Distrust /\ p \in peers[n]
  /\ faulty' = [faulty EXCEPT ![n] = IF p \in @ THEN @ \ {p} ELSE @ \cup {p}]
  /\ UNCHANGED <<peers, ledger, proposalVars, msgs>>

-----------------------------------------------------------------------------
(* The proposer.                                                           *)

\* Mutant: half of the nodes are enough.
Quorum_Half(n) == (Cardinality(peers[n]) + 1) \div 2

Quorum(n) == (Cardinality(peers[n]) + 1) \div 2 + 1

Propose(i, n) ==
  /\ phase[i] = "unused" /\ \A j \in Proposals : j < i => phase[j] # "unused"
  /\ by' = [by EXCEPT ![i] = {n}]
  /\ phase' = [phase EXCEPT ![i] = "collect"]
  /\ todo' = [todo EXCEPT ![i] = peers[n]]
  /\ size' = [size EXCEPT ![i] = Cardinality(peers[n])]
  /\ votes' = [votes EXCEPT ![i] = 1]
  /\ UNCHANGED <<memberVars, ledger, granted, committed, told, msgs>>

\* Python checks at every step of a loop over a dict that its size is the one
\* it had when the loop began.
Unchanged(i, n) == by[i] = {n} /\ Cardinality(peers[n]) = size[i]

Visit(i, p) ==
  /\ p \in todo[i]
  /\ todo' = [todo EXCEPT ![i] = @ \ {p}]

SkipFaulty(i, n, p) ==
  /\ phase[i] = "collect" /\ Unchanged(i, n) /\ Visit(i, p)
  /\ p \in faulty[n]
  /\ UNCHANGED <<memberVars, ledger, by, phase, size, votes, granted, committed, told, msgs>>

\* The peer's handler votes for every proposer it has not marked faulty,
\* whatever else it has voted for.
VoteHandler(p, n) == n \notin faulty[p]

Granted(i, n, p) ==
  /\ phase[i] = "collect" /\ Unchanged(i, n) /\ Visit(i, p)
  /\ p \notin faulty[n] /\ VoteHandler(p, n)
  /\ votes' = [votes EXCEPT ![i] = @ + 1]
  /\ granted' = [granted EXCEPT ![i] = @ \cup {p}]
  /\ UNCHANGED <<memberVars, ledger, by, phase, size, committed, told, msgs>>

\* Mutant: a request without an answer is never given up.
NotGranted_NoTimeout(i, n, p) ==
  /\ phase[i] = "collect" /\ Unchanged(i, n) /\ Visit(i, p)
  /\ p \notin faulty[n] /\ ~VoteHandler(p, n)
  /\ UNCHANGED <<memberVars, ledger, by, phase, size, votes, granted, committed, told, msgs>>

\* A vote against, no connection, a malformed answer, or three seconds without
\* one: a non-vote.
NotGranted(i, n, p) ==
  /\ phase[i] = "collect" /\ Unchanged(i, n) /\ Visit(i, p)
  /\ p \notin faulty[n]
  /\ UNCHANGED <<memberVars, ledger, by, phase, size, votes, granted, committed, told, msgs>>

Tell(i, result) ==
  told' = [told EXCEPT ![i] = IF @ = "nothing" THEN result ELSE @]

\* All votes are in.  The quorum is that of the peers registered by now.
Commit(i, n) ==
  /\ phase[i] = "collect" /\ Unchanged(i, n) /\ todo[i] = {}
  /\ votes[i] >= Quorum(n)
  /\ ledger' = [ledger EXCEPT ![n] = i]
  /\ committed' = committed \cup {i}
  /\ phase' = [phase EXCEPT ![i] = "broadcast"]
  /\ todo' = [todo EXCEPT ![i] = peers[n]]
  /\ UNCHANGED <<memberVars, by, size, votes, granted, told, msgs>>

Reject(i, n) ==
  /\ phase[i] = "collect" /\ Unchanged(i, n) /\ todo[i] = {}
  /\ votes[i] < Quorum(n)
  /\ phase' = [phase EXCEPT ![i] = "ended"]
  /\ Tell(i, "False")
  /\ UNCHANGED <<memberVars, ledger, by, todo, size, votes, granted, committed, msgs>>

\* send_message is best effort: the message may be lost, also in a timeout.
SendMessage(m) == msgs' = msgs \cup {m} \/ (Lossy /\ UNCHANGED msgs)

SendCommit(i, n, p) ==
  /\ phase[i] = "broadcast" /\ Unchanged(i, n) /\ Visit(i, p)
  /\ SendMessage([to |-> p, sender |-> n, value |-> i])
  /\ UNCHANGED <<memberVars, ledger, by, phase, size, votes, granted, committed, told>>

Finish(i, n) ==
  /\ phase[i] = "broadcast" /\ Unchanged(i, n) /\ todo[i] = {}
  /\ phase' = [phase EXCEPT ![i] = "ended"]
  /\ Tell(i, "True")
  /\ UNCHANGED <<memberVars, ledger, by, todo, size, votes, granted, committed, msgs>>

\* A peer was registered while a loop over the peers was suspended: the loop
\* raises, the worker ends without a result and the facade returns False.
IterationError(i, n) ==
  /\ phase[i] \in {"collect", "broadcast"} /\ by[i] = {n} /\ ~Unchanged(i, n)
  /\ phase' = [phase EXCEPT ![i] = "ended"]
  /\ Tell(i, "False")
  /\ UNCHANGED <<memberVars, ledger, by, todo, size, votes, granted, committed, msgs>>

\* worker.join(timeout=10.0) returns before the worker has a result.
GiveUp(i) ==
  /\ phase[i] \in {"collect", "broadcast"} /\ told[i] = "nothing"
  /\ Tell(i, "False")
  /\ UNCHANGED <<memberVars, ledger, by, phase, todo, size, votes, granted, committed, msgs>>

-----------------------------------------------------------------------------
(* The receiver.                                                           *)

\* Mutant: every sender is believed.
ApplyCommit_NoGate(m) ==
  /\ m \in msgs
  /\ msgs' = msgs \ {m}
  /\ ledger' = [ledger EXCEPT ![m.to] = m.value]
  /\ UNCHANGED <<memberVars, proposalVars>>

\* A commit is applied if its sender is registered, faulty or not.
ApplyCommit(m) ==
  /\ m \in msgs
  /\ msgs' = msgs \ {m}
  /\ ledger' = IF m.sender \in peers[m.to] THEN [ledger EXCEPT ![m.to] = m.value]
                                           ELSE ledger
  /\ UNCHANGED <<memberVars, proposalVars>>

\* The steps a proposal takes without the help of a peer.
ProposerStep(i) ==
  \E n \in Nodes :
    \/ \E p \in Nodes : SkipFaulty(i, n, p) \/ NotGranted(i, n, p) \/ SendCommit(i, n, p)
    \/ Commit(i, n) \/ Reject(i, n) \/ Finish(i, n) \/ IterationError(i, n)

MeshNext ==
  \/ \E n, p \in Nodes : RegisterPeer(n, p) \/ SetPeerPolicy(n, p)
  \/ \E i \in Proposals, n \in Nodes : Propose(i, n)
  \/ \E i \in Proposals, n, p \in Nodes : Granted(i, n, p)
  \/ \E i \in Proposals : ProposerStep(i) \/ GiveUp(i)
  \/ \E m \in msgs : ApplyCommit(m)

MeshSpec == MeshInit /\ [][MeshNext]_meshVars

-----------------------------------------------------------------------------
(* Properties.                                                             *)

\* Who stands behind proposal i: its proposer and the peers that granted it.
Supporters(i) == by[i] \cup granted[i]

\* No value reaches any ledger, at the proposer or by a commit message, without
\* a majority of distinct nodes of the proposer's mesh behind it, and a node
\* takes values only from itself and from peers it has registered, whatever
\* overlapping proposals, lost votes, timeouts and registrations happen
\* (bft_consensus.py:76-85, :120-138, :166-173).
MajorityBehindEveryValue ==
  \A n \in Nodes : ledger[n] # 0 =>
    LET i == ledger[n] IN
      /\ 2 * Cardinality(Supporters(i)) > size[i] + 1
      /\ by[i] \subseteq peers[n] \cup {n}

\* If every node knows enough peers when it starts for its quorum to be a
\* majority of the mesh, any two committed proposals have a supporter in
\* common: no two partitions of the mesh commit side by side, although nodes
\* count their quorums over different peers.
CommitsIntersect ==
  (\A n \in Nodes :
     2 * ((Cardinality(InitialPeers[n]) + 1) \div 2 + 1) > Cardinality(Nodes)) =>
    \A i, j \in committed : Supporters(i) \cap Supporters(j) # {}

\* A proposal that has begun can always go on by itself: no silent peer, no
\* registration and no other proposal blocks its worker thread, because every
\* await of it has a timeout (peer_transport.py:77-94).
ProposalNeverStuck ==
  \A i \in Proposals :
    phase[i] \in {"collect", "broadcast"} => ENABLED ProposerStep(i)
==============================================================================

------------------------ MODULE MCConstitutionDaemon ------------------------
(***************************************************************************)
(* Small instances of constitutiond and its clients.                       *)
(***************************************************************************)
EXTENDS ConstitutionDaemon

MCAssets == {"EURUSD"}

\* No drawdown, and a drawdown at the threshold.
Healthy  == [equity |-> 100, hwm |-> 100, exposure |-> [a \in MCAssets |-> 0]]
Breached == [equity |-> 85, hwm |-> 100, exposure |-> [a \in MCAssets |-> 0]]
Order    == [asset |-> "EURUSD", notional |-> 5]

MCPortfolios == {Healthy, Breached}
MCProposals  == {Order}

Evaluate(pf) == [op |-> "EvaluateProposal", portfolio |-> pf, proposal |-> Order]
Recover(b)   == [op |-> "AttemptRecovery", valid |-> b]
Plain(op)    == [op |-> op]

\* A breach, a recovery, a frame that is answered with an error and one that
\* ends the connection.
MCRequests ==
  {Evaluate(Breached), Recover(TRUE), Plain("InvalidLength"), Plain("MalformedEnvelope")}

MCRpcRequests == {Evaluate(Healthy), Plain("GetStatus"), Plain("Heartbeat")}
=============================================================================

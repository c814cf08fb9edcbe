--------------------------- MODULE MCOrchestrator ---------------------------
(* Small instances of Orchestrator.                                        *)
EXTENDS Orchestrator

\* The constitution, a service that needs it, and one that needs both.
MCServices == <<"constitution", "doomsday", "trading-daemon">>

MCDependsOn ==
  [s \in {"constitution", "doomsday", "trading-daemon"} |->
     CASE s = "constitution"   -> <<>>
       [] s = "doomsday"       -> <<"constitution">>
       [] s = "trading-daemon" -> <<"constitution", "doomsday">>]

MCFed == {"trading-daemon"}
=============================================================================

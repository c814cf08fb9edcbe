---------------------------- MODULE MCCodeAgent -----------------------------
(* A small workspace: one module.                                          *)
EXTENDS CodeAgent

CONSTANTS app

MCInitial == [f \in Files |-> 0]
MCLabels  == {"generic_error", "ipc_protocol_error", "risk_violation"}

MCErrorLines ==
  {Line("generic_error", app), Line("ipc_protocol_error", NoFile), Line("risk_violation", app)}

\* The first fix of the module is broken, the second is not, a third changes
\* nothing; a torn text is mended.
MCFixOf == [x \in MCLabels \X Contents |->
  CASE x[2] = 0 -> 1 [] x[2] = 1 -> 2 [] x[2] = 2 -> 2 [] x[2] = Torn -> 2]
=============================================================================

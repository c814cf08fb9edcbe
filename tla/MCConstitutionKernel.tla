------------------------ MODULE MCConstitutionKernel ------------------------
(***************************************************************************)
(* A small instance of the kernel and the voter.  The figures sit on both  *)
(* sides of every limit of the default RiskParameters (15%, 2.5x, 20%):    *)
(* drawdowns of 0, 11, 12 (the soft band's edge), 14 and 15 percent, gross *)
(* leverage up to and beyond 250 and concentration up to and beyond 20     *)
(* percent.                                                                *)
(***************************************************************************)
EXTENDS TmrVoter

MCAssets == {"EURUSD", "BTCUSD"}

MCPortfolios ==
  [equity : {0, 85, 88, 89, 100}, hwm : {100},
   exposure : {[a \in MCAssets |-> 0],
               [a \in MCAssets |-> IF a = "EURUSD" THEN 15 ELSE 230],
               [a \in MCAssets |-> IF a = "EURUSD" THEN 15 ELSE 231]}]
    \cup {[equity |-> 100, hwm |-> 0, exposure |-> [a \in MCAssets |-> 0]]}

MCProposals == [asset : {"EURUSD"}, notional : {0, 5, 17, 20}]
=============================================================================

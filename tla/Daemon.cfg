SPECIFICATION DaemonSpec
CONSTANTS
  Assets <- MCAssets
  Portfolios <- MCPortfolios
  Proposals <- MCProposals
  MaxDrawdown = 15
  LeverageCap = 250
  MaxConcentration = 20
  MaxTransitionHistory = 1
  CounterMax = 1
  Clients = {c1}
  Gateways = {g1}
  Requests <- MCRequests
  RpcRequests <- MCRpcRequests
  MaxConns = 2
  MaxFrames = 2
  MaxCrashes = 1
INVARIANTS AnsweredOnceInOrder AnswersLagByTimeouts
PROPERTIES HaltReleasedOnlyByProof EveryCallReturns EveryRpcSettles
CHECK_DEADLOCK FALSE

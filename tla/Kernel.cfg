SPECIFICATION KernelSpec
CONSTANTS
  Assets <- MCAssets
  Portfolios <- MCPortfolios
  Proposals <- MCProposals
  MaxDrawdown = 15
  LeverageCap = 250
  MaxConcentration = 20
  MaxTransitionHistory = 4
  CounterMax = 9
  NaN = NaN
  Infinity = Infinity
INVARIANTS KernelTypeOK ApprovalIsSound JournalIsHistory EmergenciesAreJournalled
  OneFaultIsMasked NeverLooserThanTwo
PROPERTY ImplementsRiskGate

\* The cycle and the guard trade three symbols.
SPECIFICATION Spec
CONSTANTS
  Symbols = {A, B, C}
  MaxRisk = 50000
  MaxPortfolioRisk = 80000
  MaxMargin = 25
  MaxSymbolMargin = 16
  Balance = 40
  MaxLeverage = 5
  Fee = 1
  Slippage = 1
  RewardRisk = 115
  Buffer = 115
  PriceTick = 1
  QuantityStep = 1
  Smallest = 1
  Largest = 3
  Notional = 5
  GateMode = "enforce"
  Intents <- FewIntents
  Plans <- FewPlans
  Snapshots <- FewSnapshots
  GuardSets <- NoGuards
  MaxSteps = 3
SYMMETRY Symmetry
INVARIANTS
  PortfolioWithinLimits
  SymbolWithinLimits
CHECK_DEADLOCK FALSE

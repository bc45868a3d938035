SPECIFICATION Spec
CONSTANTS
    Symbols = {"A", "B"}
    None = None
    Equity = 100000
    Slip = 2
    FeeRate = 1
    NumBars = 3
    Instants <- MCInstants
    Paths <- MCPaths
    Orders <- MCOrders
    Carried <- MCCarried
    MaxAttempts = 2
INVARIANTS
    TradesExplainCash
    NoFutureInPortfolio
    FailedRunEndsAtLastAnswer
CHECK_DEADLOCK FALSE

SPECIFICATION Spec
CONSTANTS
    r1 = r1
    r2 = r2
    e1 = e1
    Requests <- MCTwoRequests
    TargetModes <- MCEveryMode
    Exchanges <- MCOneExchange
    MinimumDuration = 1
    MinimumTrades = 1
    MaxRows = 4
    MaxTrades = 1
    MaxTime = 1
CHECK_DEADLOCK FALSE
INVARIANTS
    TypeOK
    RealRowsRestOnASegment
    BacktestEarnsNothing
    RealModeNeverLacksAnAllocation
PROPERTIES
    ReducingRiskIsNeverDenied

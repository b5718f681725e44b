SPECIFICATION Spec
CONSTANTS
    s1 = s1
    s2 = s2
    MaxDecisions = 2
    Symbols <- MCOneSymbol
    BatchLimit = 1
    DeclaredMarkets <- MCUndeclared
    TargetModes <- MCPaperReal
    FuturesRouting = TRUE
    ExposureCap = 1
    MaxInterrupts = 1
INVARIANTS
    TypeOK
    AtMostOneOrderPerDecision
    OrdersFollowACompleteVerdict
    EachRuleJudgesADecisionOnce
    PairLegsAreNeverTraded
    KillSwitchStopsWhatIsNotJudged
PROPERTIES
    EveryDecisionIsJudged
    ImplementsLedger

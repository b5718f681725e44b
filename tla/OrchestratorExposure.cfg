SPECIFICATION Spec
CONSTANTS
    s1 = s1
    s2 = s2
    MaxDecisions = 2
    Symbols <- MCOneSymbol
    BatchLimit = 2
    DeclaredMarkets <- MCUndeclared
    TargetModes <- MCPaperOnly
    FuturesRouting = FALSE
    ExposureCap = 1
    MaxInterrupts = 0
INVARIANTS
    ExposureStaysUnderTheCap

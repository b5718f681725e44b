SPECIFICATION Spec
CONSTANTS
    s1 = s1
    s2 = s2
    MaxDecisions = 1
    Symbols <- MCOneSymbol
    BatchLimit = 1
    DeclaredMarkets <- MCUndeclared
    TargetModes <- MCPaperReal
    FuturesRouting = TRUE
    ExposureCap = 2
    MaxInterrupts = 0
PROPERTIES
    RealOrdersAreSizedOnRealCapital

SPECIFICATION Spec
CONSTANTS
    momentum = momentum
    imbalance = imbalance
    cascade = cascade
    Strategies <- MCStrategies
    Inherited <- MCInherited
    MarketOf <- MCMarketOf
    Opinions <- MCOpinions
    Symbols = 2
    MaxChanges = 2
INVARIANTS
    TypeOK
PROPERTIES
    SignalsAreGoverned
    UnprovenMoneyNeedsAModeChange

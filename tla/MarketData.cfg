SPECIFICATION Spec
CONSTANTS
    htx = htx
    Feeds <- MCFeed
    Binance <- MCNoBinance
    MaxTrades = 3
    MaxMessage = 2
    MaxWire = 1
    MaxAccepted = 2
    CacheSize = 2
    BatchSize = 2
    GapThreshold = 1
    MaxFaults = 2
CHECK_DEADLOCK FALSE
INVARIANTS
    TypeOK
    TradesAreConserved
PROPERTIES
    GapsAreTold

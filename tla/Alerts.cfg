SPECIFICATION Spec
CONSTANTS
    htx = htx
    binance = binance
    Feeds <- MCFeeds
    Binance <- MCBinance
    QueueSize = 2
    MaxFaults = 1
INVARIANTS
    TypeOK
PROPERTIES
    OutagesKeepBeingTold

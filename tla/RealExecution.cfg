SPECIFICATION Spec
CONSTANTS
    binance = binance
    htx = htx
    Exchanges <- MCExchanges
    SymbolBound <- MCSymbolBound
    Conditional <- MCConditional
    MaxOrders = 3
    Quantities <- MCQuantities
    PollAttempts = 2
    MaxFaults = 1
INVARIANTS
    TypeOK
    FilledRowsTellTheExecution
    SpotBookIsBacked
    
    OrphanStopsAreOnRecord
PROPERTIES
    OrdersNeverBlockTheLoop
    ImplementsProtection

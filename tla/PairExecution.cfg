SPECIFICATION Spec
CONSTANTS
    s1 = s1
    s2 = s2
    TrackedSymbols <- MCTrackedSymbols
    MaxPairs = 2
    SpotSides <- MCBothSides
    Quantities <- MCTwoQuantities
INVARIANTS
    TypeOK
    
    OneIncidentPerPartialExecution
    AtMostOneUnresolvedPartial
PROPERTIES
    NoPairOverUnresolvedPartial
    OnlyTheCurrentPairMoves
    PairAtHandIsSettledOrAbandoned

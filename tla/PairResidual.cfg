SPECIFICATION Spec
CONSTANTS
    s1 = s1
    s2 = s2
    TrackedSymbols <- MCOneSymbol
    MaxPairs = 2
    SpotSides <- MCSpotBought
    Quantities <- MCQuantities
PROPERTIES
    ResidualExposureKeepsOtherPairsOut

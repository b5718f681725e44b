SPECIFICATION Spec
CONSTANTS
    s1 = s1
    s2 = s2
    Strategies <- MCStrategies
    Closings <- MCClosings
    Inherited <- MCInherited
    MaxTrades = 3
    EvictionWindow = 1
    QuarantineSample = 2
    MinEdge = 40
    Capital = 100
    MinPreliminary = 1
    MinValidated = 3
    MaxFaults = 1
INVARIANTS
    TypeOK
    CalibrationGapNeedsInterruption
PROPERTIES
    ImplementsContract
    ResurrectionCostsNewTrades
    RuinIsActedUpon

SPECIFICATION Spec
CONSTANTS
    JDs <- MCJDs
    Rates <- MCRates
    Earliest <- MCEarliest
    Latest = 4
    Skew = 1
    MaxWall = 4
    MaxChanges = 2
    Horizon = 3
INVARIANTS
    TypeOK
    SameTime
PROPERTIES
    NeverBack

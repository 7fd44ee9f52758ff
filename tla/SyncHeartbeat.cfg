SPECIFICATION Spec
CONSTANTS
    AliveAfter = 5
    ReadTimeout = 15
    ServerPeriod = 5
    ClientPeriod = 2
    Skips = 1
    Delay = 2
CHECK_DEADLOCK FALSE
INVARIANTS
    TypeOK
    SilenceIsBounded
    NoFalseTimeout
    DeadIsNoticed

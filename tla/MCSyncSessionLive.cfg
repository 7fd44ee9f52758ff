SPECIFICATION FairSpec
CONSTANTS
    Conns = {k1, k2}
    None = None
    LostBehavior = "RECONNECT"
    QuitBehavior = "QUIT"
    Versions <- SameVersion
    MaxUnsent = 0
PROPERTIES
    TransientEnds
    DeadPeersLeave

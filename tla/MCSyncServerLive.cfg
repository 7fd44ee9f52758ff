SPECIFICATION FairSpec
CONSTANTS
    Peers = {p1, p2, p3}
    None = None
    Capacity = 3
    Senders = 1
    Oversize = FALSE
PROPERTIES
    StopReturns
    SilentLeaves

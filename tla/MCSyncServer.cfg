SPECIFICATION Spec
CONSTANTS
    Peers = {p1, p2, p3}
    None = None
    Capacity = 3
    Senders = 2
    Oversize = FALSE
SYMMETRY Symmetry
INVARIANTS
    ServerInv
    NoCrash
    StoppedOnce
    SkippedMovesUp

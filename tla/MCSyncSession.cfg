SPECIFICATION Spec
CONSTANTS
    Conns = {k1, k2}
    None = None
    LostBehavior = "RECONNECT"
    QuitBehavior = "QUIT"
    Versions <- AllVersions
    MaxUnsent = 1
INVARIANTS
    SessionInv
    ClientIsAuthenticated
    NoProtocolError
    ConnectedWhileConnecting
PROPERTIES
    RefusalIsNotAQuit

SPECIFICATION FairSpec
CONSTANTS
    HeaderSize = 2
    MaxPayload = 2
    SizeModulus = 3
    PayloadSizes <- MCPayloadSizes
    ErrorSize = 1
    RefusedTypes = {"handshake", "data"}
    MaxMessages = 3
CHECK_DEADLOCK FALSE
INVARIANTS
    TypeOK
    FramesInOrder
    NoMessageLeftBehind
PROPERTIES
    OnlyHandlersBreak
    EveryMessageHandled
    ImplementsChannel

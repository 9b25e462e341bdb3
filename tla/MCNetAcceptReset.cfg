SPECIFICATION SafeSpec
CONSTANTS
    ClockMod = 3
    BlockTimeout = 1
    MaxTicks = 1
    NicRing = 1
    MaxFrames = 0
    Flood = TRUE
    SockMax = 2
    AcceptqMax = 1
    Pcbs = {p1, p2}
    NULL = NULL
    Wnd = 1
    SndBuf = 1
    MaxBytes = 0
    Lens = {}
PROPERTIES AcceptsConnections

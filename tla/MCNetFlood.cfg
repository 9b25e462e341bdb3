SPECIFICATION Spec
CONSTANTS
    ClockMod = 3
    BlockTimeout = 1
    MaxTicks = 1
    NicRing = 1
    MaxFrames = 0
    Flood = TRUE
    SockMax = 1
    AcceptqMax = 1
    Pcbs = {p1}
    NULL = NULL
    Wnd = 1
    SndBuf = 1
    MaxBytes = 1
    Lens = {1}
PROPERTIES CallsReturn

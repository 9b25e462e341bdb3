SPECIFICATION SafeSpec
CONSTANTS
    ClockMod = 2
    BlockTimeout = 1
    MaxTicks = 1
    NicRing = 1
    MaxFrames = 0
    Flood = TRUE
    SockMax = 3
    AcceptqMax = 2
    Pcbs = {p1, p2}
    NULL = NULL
    Wnd = 1
    SndBuf = 1
    MaxBytes = 1
    Lens = {0, 1}
SYMMETRY Symmetry
VIEW View
INVARIANTS TypeOK Ownership StatesAgree SlotsAccounted
PROPERTIES AcceptInOrder

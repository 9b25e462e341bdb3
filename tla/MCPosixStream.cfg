SPECIFICATION PosixSpec
CONSTANTS
    ClockMod = 4
    BlockTimeout = 2
    MaxTicks = 1
    NicRing = 1
    MaxFrames = 4
    Flood = FALSE
    SockMax = 1
    AcceptqMax = 1
    Pcbs = {p1}
    NULL = NULL
    Wnd = 2
    SndBuf = 1
    MaxBytes = 3
    Lens = {0, 1, 2}
    Stdin = Stdin
    Stdout = Stdout
    Iovs <- MCIovs
INVARIANTS StreamInOrder WindowFollowsReader VecInOrder
PROPERTIES EndAfterData TimeoutOnTime CallsReturn VecExact VecReturns

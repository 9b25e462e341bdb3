SPECIFICATION Spec
CONSTANTS
    Names = {n1, n2}
    NoName = NoName
    BadName = BadName
    Bytes = {x}
    InitBytes = {x}
    DirEntries = 2
    MaxOpen = 2
    SectorBytes = 1
    BlockSectors = 1
    MaxReserved = 2
    BlockBound = 3
    PosBound = 2
    Lens <- MCLens
    Offsets <- MCOffsets
    Flags <- MCFlags
    Client = {"share", "unlink_open", "sparse"}
SYMMETRY Symmetry
VIEW View
PROPERTY OnlyCloseFlushes

SPECIFICATION Spec
CONSTANTS
    Names = {n1, n2}
    NoName = NoName
    BadName = BadName
    Bytes = {x, y}
    InitBytes = {x}
    DirEntries = 2
    MaxOpen = 2
    SectorBytes = 1
    BlockSectors = 2
    MaxReserved = 1
    BlockBound = 3
    PosBound = 2
    Lens <- MCLens
    Offsets <- MCOffsets
    Flags <- MCFlags
    Client = {"share"}
SYMMETRY Symmetry
VIEW View
PROPERTY AppendOnly

SPECIFICATION Spec
CONSTANTS
    Names = {n1, n2, n3}
    NoName = NoName
    BadName = BadName
    Bytes = {x, y}
    InitBytes = {x}
    DirEntries = 2
    MaxOpen = 2
    SectorBytes = 1
    BlockSectors = 2
    MaxReserved = 1
    BlockBound = 3
    PosBound = 2
    Lens <- MCLens
    Offsets <- MCOffsets
    Flags <- MCFlags
    Client = {"sparse"}
SYMMETRY Symmetry
VIEW View
INVARIANTS SizeFits FdCurrent
PROPERTIES WriteIsolation AppendOnly LengthKept ImplementsAbsFs

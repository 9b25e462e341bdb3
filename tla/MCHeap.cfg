SPECIFICATION Spec
CONSTANTS
    Wrap = 128
    Page = 4
    BssStop = 81
    HeapEnds <- MCHeapEnds
    Lens <- MCLens
    Addrs <- MCAddrs
    Ids = {m1, m2, m3}
SYMMETRY Symmetry
VIEW View
INVARIANTS TypeOK WithinArena MapsDisjoint

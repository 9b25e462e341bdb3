SPECIFICATION MallocSpec
CONSTANTS
    Wrap = 256
    Page = 4
    BssStop = 81
    HeapEnds <- MCHeapEnds
    Lens <- MCLens
    Addrs = {}
    Ids = {m1, m2, m3}
    MetasPerArea = 4
    NestedBound = 1
    BigLens <- MCBigLens
    Align = 2
SYMMETRY Symmetry
INVARIANT GroupsAligned

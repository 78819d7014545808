CONSTANTS
    NX = 3
    NY = 3
    MaxSlice = 1
    Word = 1000
    NO_EDGE = NO_EDGE
    Idle = Idle
    FirstSlab <- MCFirst
    SlabsAt <- MCSlabsAt
SPECIFICATION MeshSpec
INVARIANT FacesNumbered
CHECK_DEADLOCK FALSE

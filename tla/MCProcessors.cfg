CONSTANTS
    a = a
    b = b
    Files = {a, b}
    WriteSizes = {0, 2, 4, 6, 10}
    MaxBytes = 16
    NULL = NULL
    NX = 3
    NY = 3
    MaxSlice = 2
    Word = 1000
    NO_EDGE = NO_EDGE
    Idle = Idle
    FirstSlab <- MCFirst
    SlabsAt <- MCSlabsAt
    Slice = 6
    Volume = 5
    Values <- MCValues
    INT_MAX = 100
    INT_MIN <- MCMin
    Tracked = {a}
    MaxNames = 3
    FieldBytes = 2
    OtherSizes = {10}
    MaxSteps = 2
    Tries = 3
    Basename <- MCBasename
SPECIFICATION Spec
INVARIANTS TagsRight SurfaceClosed FirstNumberRight FrontIsLastBack NothingHeldBack RangeOfItsFile LoggedOnce ImagesRight OutputOfItsFile DumpsInOrder
PROPERTIES GridsInOrder SlicesInOrder
CHECK_DEADLOCK FALSE

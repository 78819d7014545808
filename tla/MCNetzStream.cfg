SPECIFICATION Spec
CONSTANTS
    Bricks <- FourInYZ
    Dims <- Bar
    NFields = 2
    Out3D = {0}
    Slices <- NoSlices
    Uint = 1000
    WriteSizes = {2, 3, 4, 5, 6, 8}
    Garbage = Garbage
INVARIANTS
    BrickExact MergedRight
CHECK_DEADLOCK FALSE

SPECIFICATION Spec
CONSTANTS
    Bricks <- OneBrick
    Dims <- Cube
    NFields = 2
    Out3D = {0, 1}
    Slices <- NoSlices
    Uint = 1000
    WriteSizes = {8}
    Garbage = Garbage
INVARIANTS
    EveryWriteFits
CHECK_DEADLOCK FALSE

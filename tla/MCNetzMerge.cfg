SPECIFICATION Spec
CONSTANTS
    Bricks <- TwoInX
    Dims <- Cube
    NFields = 1
    Out3D = {0}
    Slices <- NoSlices
    Uint = 1000
    WriteSizes = {8}
    Garbage = Garbage
INVARIANTS
    VolumeComplete
CHECK_DEADLOCK FALSE

SPECIFICATION Spec
CONSTANTS
    Bricks <- TwoInX
    Dims <- Cube
    NFields = 2
    Out3D = {0}
    Slices <- Top
    Uint = 1000
    WriteSizes = {2, 5, 9}
    Garbage = Garbage
INVARIANTS
    SlicesRight BricksMerged
CHECK_DEADLOCK FALSE

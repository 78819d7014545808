CONSTANTS
    Symbols <- MCSymbols
    InScope <- MCInScope
    EOF = EOF
    Docs <- MCDocs
    Before <- MCBefore
    SameName <- MCSameName
    NDIMS = 2
    SIZE_MOD = 8
    ABORT = ABORT
    cube = cube
    slab = slab
    Flat = Flat
    Zero = Zero
    NULL = NULL
    NONE = NONE
    NIL = NIL
    N_SPACES = 2
    MaxId = 4
    Dims <- MCDims
    Types <- MCTypes
    CreateFails = TRUE
    CloseEarly = TRUE
    Pids = {1, 2}
    Commands <- MCCommands
    Paths = {5, 6}
    FDs = {0, 1, 2, 3, 4}
    MaxWatches = 3
    MaxEvents = 3
    Settings <- MCSettings
SPECIFICATION HelpersSpec
INVARIANTS
    MetadataRight
    ReadsTheLanguage SecondPassFits FreedOnce CoordsFitDims
    ChildrenTended StopsAtFailure TokensFit ToldOnce LastWordDecides
PROPERTY ReadingEnds
CHECK_DEADLOCK FALSE

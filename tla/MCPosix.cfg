CONSTANTS
    pa = pa
    pb = pb
    l1 = l1
    l2 = l2
    out = out
    log = log
    dev = dev
    tty = tty
    NULL = NULL
    MAX_FREEPROCS = 2
    MAX_FILES = 2
    MaxFd = 3
    MaxDepth = 2
    MaxBytes = 3
    Tty <- tty
    Outside <- MCOutside
    Environments <- MCEnvironments
    Pattern <- MCPattern
    Lib <- MCLib
    Name <- MCName
    Glob <- MCGlob
    Loadable <- MCLib
    Exports <- MCExports
    Configs <- MCConfigs
SPECIFICATION FairSpec
INVARIANTS TablesRight NamesRight BytesRight
PROPERTIES DescriptorsTeed CallsReturn
CHECK_DEADLOCK FALSE

CONSTANTS
    pa = pa
    pb = pb
    pn = pn
    l1 = l1
    l2 = l2
    both = both
    weird = weird
    gone = gone
    one = one
    tmp = tmp
    NULL = NULL
    MAX_FREEPROCS = 3
    MAX_FILES = 2
    MaxDepth = 4
    OpensFail = FALSE
    Reentrant <- MCReFileExec
    FPs <- MCFPs
    Pattern <- MCPattern
    Lib <- MCLib
    Name <- MCName
    Tmp <- MCTmp
    Glob <- MCGlob
    Loadable <- MCLoadable
    Exports <- MCExports
    Configs <- MCAllConfigs
SPECIFICATION SituSpec
INVARIANTS FilesKept DispatchSafe TableRight ReturnRight Balanced CallsSafe
PROPERTY StreamsTeed
CHECK_DEADLOCK FALSE

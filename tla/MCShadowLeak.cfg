\* The termination rule of anon_put and shadow_put, in the same instance.
CONSTANTS
    p1 = p1
    p2 = p2
    null = null
    Procs <- MCProcs
    Init1 = p1
    Anons <- MCAnons
    Shadows <- MCShadows
    NPAGES = 2
    MaxForks = 2
    PAGE_SIZE = 2
    CopyArgs <- MCCopyArgs
    Vals = {1}
    Fails = {"map", "fork_new", "fork_old"}
    Null = null
    MapRanges <- MCMapRanges
    Prots <- MCProts
    UnmapRanges <- MCUnmapRanges
SYMMETRY MCSymmetry
SPECIFICATION Spec
INVARIANT UnreachableFreed
\* The system stops when every process has exited.
CHECK_DEADLOCK FALSE

\* The kernel copying into user memory (vmmap_write) within one page,
\* besides everything of MCShadow.cfg.
CONSTANTS
    p1 = p1
    p2 = p2
    null = null
    Procs <- MCProcs
    Init1 = p1
    Anons <- MCAnons
    Shadows <- MCShadows
    NPAGES = 2
    MaxForks = 2
    PAGE_SIZE = 2
    CopyArgs <- MCCopyArgsOnePage
    Vals = {1}
    Fails = {"map", "fork_new", "fork_old"}
    Null = null
    MapRanges <- MCMapRanges
    Prots <- MCProts
    UnmapRanges <- MCUnmapRanges
SYMMETRY MCSymmetry
SPECIFICATION KernelWriteSpec
INVARIANT CowIsolation
\* The system stops when every process has exited.
CHECK_DEADLOCK FALSE

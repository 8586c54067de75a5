\* Copy-on-write: mmap, munmap, faults, stores, fork (whose shadow
\* allocations may fail), kernel reads of user memory and exit of two
\* processes over two pages of two bytes, with
\* one anon slot, four shadow slots (enough for a second fork over the
\* chain of a first) and at most two forks.
CONSTANTS
    p1 = p1
    p2 = p2
    null = null
    Procs <- MCProcs
    Init1 = p1
    Anons <- MCAnons
    Shadows <- MCShadows
    NPAGES = 2
    MaxForks = 2
    PAGE_SIZE = 2
    CopyArgs <- MCCopyArgs
    Vals = {1}
    Fails = {"map", "fork_new", "fork_old"}
    Null = null
    MapRanges <- MCMapRanges
    Prots <- MCProts
    UnmapRanges <- MCUnmapRanges
SYMMETRY MCSymmetry
SPECIFICATION Spec
INVARIANT TypeOK RefcountExact CowIsolation ChainsWellFormed CopyWithinRange MappingsPermitted
\* The system stops when every process has exited.
CHECK_DEADLOCK FALSE

\* The KASSERT of do_write under a race: two processes share a regular file
\* through fork, and one moves f_pos while the other sleeps in the write.
CONSTANTS
    p1 = p1
    p2 = p2
    f1 = f1
    f2 = f2
    reg = reg
    dir = dir
    Procs <- MCProcs
    FirstProc = p1
    NFILES = 2
    FileSlots <- MCFileSlots
    Regs = {reg}
    Dirs = {dir}
    MAX_LEN = 2
    NDIRENT = 1
    OFlags = {0, 1, 2, 3, 1025}
SYMMETRY MCSymmetry
VIEW StateView
INIT Init
NEXT Next
INVARIANT WriteWithinLength
\* The system stops when every process has exited, or at a failed KASSERT.
CHECK_DEADLOCK FALSE

\* Two processes (the second by fork), two descriptors each, two file_t
\* structures, one regular file and one directory; open with O_RDONLY,
\* O_WRONLY, O_RDWR, the invalid 3, and O_WRONLY|O_APPEND.
CONSTANTS
    p1 = p1
    p2 = p2
    f1 = f1
    f2 = f2
    reg = reg
    dir = dir
    Procs <- MCProcs
    FirstProc = p1
    NFILES = 2
    FileSlots <- MCFileSlots
    Regs = {reg}
    Dirs = {dir}
    MAX_LEN = 2
    NDIRENT = 1
    OFlags = {0, 1, 2, 3, 1025}
SYMMETRY MCSymmetry
VIEW StateView
INIT Init
NEXT Next
INVARIANT TypeOK
INVARIANT RefCountsExact
INVARIANT VnodeRefsExact
PROPERTY ErrorsLeaveNoTrace
\* The system stops when every process has exited, or at a failed KASSERT.
CHECK_DEADLOCK FALSE

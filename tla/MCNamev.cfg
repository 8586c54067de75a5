\* Path calls, forks and exits of two processes over a file system of
\* three inodes, with long names only where dir_namev handles them without
\* a reference held (as the first or the last component).  The
\* uninitialised result of do_mknod is taken to be NULL.
CONSTANTS
    p1 = p1
    p2 = p2
    root = root
    v1 = v1
    v2 = v2
    null = null
    f1 = f1
    f2 = f2
    nofile = nofile
    Procs <- MCProcs
    Vnodes <- MCVnodes
    Root = root
    NoVnode = null
    Names = {"a", "b"}
    LongNames = {"L"}
    Paths <- MCPaths
    UninitResult = {null}
    Files <- MCFiles
    NoFile = nofile
SYMMETRY MCSymmetry
VIEW StateView
SPECIFICATION Spec
INVARIANT TypeOK
INVARIANT RefsExact
INVARIANT NamespaceIsTree
INVARIANT HeldVnodesAllocated
\* The system stops when every process has exited.
CHECK_DEADLOCK FALSE

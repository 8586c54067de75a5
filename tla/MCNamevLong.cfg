\* Path calls with "a/L/b", whose long middle component dir_namev
\* refuses while it holds a reference to the vnode of "a".
CONSTANTS
    p1 = p1
    p2 = p2
    root = root
    v1 = v1
    v2 = v2
    null = null
    f1 = f1
    f2 = f2
    nofile = nofile
    Procs <- MCProcs
    Vnodes <- MCVnodes
    Root = root
    NoVnode = null
    Names = {"a", "b"}
    LongNames = {"L"}
    Paths <- MCPathsLong
    UninitResult = {null}
    Files <- MCFiles
    NoFile = nofile
SYMMETRY MCSymmetry
VIEW StateView
SPECIFICATION Spec
INVARIANT RefsExact
\* The system stops when every process has exited.
CHECK_DEADLOCK FALSE

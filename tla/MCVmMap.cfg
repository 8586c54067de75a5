\* A user range of four pages of two bytes, the data segment and the break
\* in the first, the stack in the last; private anonymous mmaps; no
\* allocation fails.
CONSTANTS
    exe = exe
    Files <- MCFiles
    Exe = exe
    PAGE_SIZE = 2
    USER_LO = 1
    USER_HI = 5
    StartBrk = 3
    Fails = {"none"}
    MapFlags = {"PRIVATE"}
    Sources <- MCAnonOnly
INIT Init
NEXT Next
INVARIANT TypeOK AreasWellFormed FindRangeFirstFit
PROPERTY MunmapExact MmapExact BrkMapsBand
VIEW StateView
\* A kernel panic (an assertion or a fault in a call) stops the system.
CHECK_DEADLOCK FALSE

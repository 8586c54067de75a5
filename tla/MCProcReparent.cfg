\* Three forkable slots, so that a grandchild of init can be a zombie when
\* its parent exits; weak fairness of every thread, no symmetry reduction.
CONSTANTS
    i0 = i0
    i1 = i1
    f1 = f1
    f2 = f2
    f3 = f3
    NoProc = NoProc
    Slots <- MCSlots3
    Idle = i0
    Init = i1
    PROC_MAX_COUNT = 5
    Status = {0}
SPECIFICATION Spec
PROPERTY WaitpidReturns
\* The kernel stops for good once idle has reaped init.
CHECK_DEADLOCK FALSE

\* The process lifecycle: two forkable slots, so that a process can have
\* two children, a grandchild can be reparented to init, and the slab and
\* pid space can both be full.  The liveness of do_waitpid is the question
\* of MCProcReparent.cfg, which needs a third slot.
CONSTANTS
    i0 = i0
    i1 = i1
    f1 = f1
    f2 = f2
    f3 = f3
    NoProc = NoProc
    Slots <- MCSlots2
    Idle = i0
    Init = i1
    PROC_MAX_COUNT = 4
    Status = {0, 1}
SPECIFICATION Spec
INVARIANT TypeOK
INVARIANT ProcTreeConsistent
INVARIANT PidsValid
INVARIANT CpuNeverHangs
INVARIANT SchedOK
PROPERTY ReapOnlyZombies
\* The kernel stops for good once idle has reaped init; CpuNeverHangs
\* checks that it never stops any other way.
CHECK_DEADLOCK FALSE

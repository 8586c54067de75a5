\* A cancellable locker cancelled after kmutex_unlock has handed it the
\* mutex but before it runs again.
CONSTANTS
    t1 = t1
    t2 = t2
    t3 = t3
    NoThread = NoThread
    Threads <- MCThreads
    CancellableLockers <- MCThreads
SYMMETRY MCSymmetry
INIT Init
NEXT Next
INVARIANT LockResultTruthful

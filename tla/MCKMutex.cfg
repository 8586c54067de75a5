\* Safety of kmutex with every thread locking cancellably or not, and
\* cancellations at any time.
CONSTANTS
    t1 = t1
    t2 = t2
    t3 = t3
    NoThread = NoThread
    Threads <- MCThreads
    CancellableLockers <- MCThreads
SYMMETRY MCSymmetry
INIT Init
NEXT Next
INVARIANT MutualExclusion
PROPERTY Refinement

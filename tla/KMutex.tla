------------------------------- MODULE KMutex -------------------------------
(***************************************************************************)
(* The kernel mutex of src/kernel/proc/kmutex.c on the cooperative         *)
(* scheduler of KThread: kmutex_lock, kmutex_lock_cancellable and          *)
(* kmutex_unlock with direct handoff to the head of km_waitq, run by       *)
(* threads that may also cancel each other (kthread_cancel) and yield.     *)
(***************************************************************************)
EXTENDS Integers, FiniteSets, Sequences, SequencesExt

CONSTANTS
    Threads,             \* the kernel threads using the mutex
    CancellableLockers,  \* the threads that lock with kmutex_lock_cancellable
    NoThread             \* a null km_holder / curthr

ASSUME CancellableLockers \subseteq Threads /\ NoThread \notin Threads

KM == "km_waitq"

K == INSTANCE KThread WITH WaitQueues <- {KM}, NoQueue <- NoThread

VARIABLES
    sched,   \* the scheduler record of KThread
    holder,  \* km_holder
    pc       \* "free": outside the mutex; "wait"/"waitc": asleep in
             \* kmutex_lock / kmutex_lock_cancellable; "cs": holds it as
             \* far as the thread's own code knows

vars == <<sched, holder, pc>>

(* Every thread runnable, none holding the mutex: kmutex_init has run. *)
Init ==
    /\ \E first \in Threads, order \in [1 .. Cardinality(Threads) - 1 -> Threads] :
          /\ {first} \cup ToSet(order) = Threads
          /\ sched = [curthr |-> first, runq |-> order,
                      state |-> [t \in Threads |-> "RUN"],
                      wchan |-> [t \in Threads |-> NoThread],
                      wq |-> [q \in {KM} |-> <<>>],
                      cancelled |-> [t \in Threads |-> FALSE]]
    /\ holder = NoThread
    /\ pc = [t \in Threads |-> "free"]

On(t) == sched.curthr = t

(* Mutation of the lock: the test of km_holder is left out. *)
LockAsIgnoringHolder(t, st, waitpc) ==
    /\ On(t) /\ pc[t] = "free"
    /\ holder # t
    /\ holder' = t
    /\ pc' = [pc EXCEPT ![t] = "cs"]
    /\ UNCHANGED sched

(***************************************************************************)
(* kmutex_lock (st = SLEEP, waiting in "wait") and kmutex_lock_cancellable *)
(* (st = SLEEP_CANCELLABLE, "waitc"): both assert that the caller does not *)
(* hold the mutex; a free mutex is taken at once, else the caller sleeps   *)
(* on km_waitq.                                                            *)
(***************************************************************************)
LockAs(t, st, waitpc) ==
    /\ On(t) /\ pc[t] = "free"
    /\ holder # t
    /\ IF holder = NoThread
       THEN /\ holder' = t
            /\ pc' = [pc EXCEPT ![t] = "cs"]
            /\ UNCHANGED sched
       ELSE /\ sched' = K!SleepOn(sched, KM, st)
            /\ pc' = [pc EXCEPT ![t] = waitpc]
            /\ UNCHANGED holder

KmutexLock(t) == LockAs(t, "SLEEP", "wait")

KmutexLockCancellable(t) ==
    t \in CancellableLockers /\ LockAs(t, "SLEEP_CANCELLABLE", "waitc")

(***************************************************************************)
(* A sleeper gets the CPU back and returns from the lock call:             *)
(* kmutex_lock returns; kmutex_lock_cancellable returns what               *)
(* sched_cancellable_sleep_on returns, 0 or -EINTR.                        *)
(***************************************************************************)
LockReturns(t) ==
    /\ On(t) /\ pc[t] \in {"wait", "waitc"}
    /\ pc' = [pc EXCEPT ![t] =
                 IF pc[t] = "waitc" /\ K!CancellableSleepResult(sched, t) = -K!EINTR
                 THEN "free" ELSE "cs"]
    /\ UNCHANGED <<sched, holder>>

(***************************************************************************)
(* kmutex_unlock: asserts the caller holds the mutex; frees it if nobody   *)
(* waits, else hands it to the thread sched_wakeup_on dequeues.            *)
(***************************************************************************)
(* Mutations of kmutex_unlock: the head of km_waitq becomes km_holder     *)
(* without sched_wakeup_on; the mutex is freed even when threads wait.     *)
HandoffNoWakeup(s) ==
    IF s.wq[KM] = <<>> THEN <<NoThread, s>> ELSE <<Head(s.wq[KM]), s>>

HandoffDropped(s) == <<NoThread, s>>

Handoff(s) ==
    IF s.wq[KM] = <<>> THEN <<NoThread, s>>
    ELSE <<K!WokenBy(s, KM), K!WakeupOn(s, KM)>>

KmutexUnlock(t) ==
    /\ On(t) /\ pc[t] = "cs"
    /\ holder = t
    /\ holder' = Handoff(sched)[1]
    /\ sched' = Handoff(sched)[2]
    /\ pc' = [pc EXCEPT ![t] = "free"]

(* kthread_cancel(u) by the running thread t for another thread u. *)
Cancel(t, u) ==
    /\ On(t) /\ u # t
    /\ sched' = K!KthreadCancel(sched, u)
    /\ UNCHANGED <<holder, pc>>

(* The running thread yields: sched_make_runnable(curthr); sched_switch(). *)
Yield(t) ==
    /\ On(t) /\ pc[t] \in {"free", "cs"}
    /\ sched' = K!Switch(K!MakeRunnable(sched, t))
    /\ UNCHANGED <<holder, pc>>

Step(t) ==
    \/ KmutexLock(t)
    \/ KmutexLockCancellable(t)
    \/ LockReturns(t)
    \/ KmutexUnlock(t)
    \/ \E u \in Threads : Cancel(t, u)
    \/ Yield(t)

Next == \E t \in Threads : Step(t)

(* Every thread on the CPU eventually does something, and a thread that    *)
(* holds the mutex eventually unlocks it when it has the CPU: the callers  *)
(* release the mutex before they return.                                   *)
Fairness ==
    \A t \in Threads : WF_vars(Step(t)) /\ SF_vars(KmutexUnlock(t))

Spec == Init /\ [][Next]_vars /\ Fairness

-----------------------------------------------------------------------------
(***************************************************************************)
(* Mutual exclusion: a thread that returned from a lock call holding the   *)
(* mutex is km_holder until it unlocks, whatever the interleaving of       *)
(* lock, unlock, cancellation and yields; so at most one thread is in its  *)
(* critical section.                                                       *)
(***************************************************************************)
MutualExclusion == \A t \in Threads : pc[t] = "cs" => holder = t

(***************************************************************************)
(* kmutex.c implements the abstract mutex of Mutex: km_holder is the       *)
(* holder and km_waitq the FIFO queue of waiters, and every step of lock,  *)
(* unlock and cancel is a step of Mutex (or leaves both unchanged).        *)
(***************************************************************************)
AbstractMutex == INSTANCE Mutex WITH None <- NoThread, queue <- sched.wq[KM]

Refinement == AbstractMutex!Spec

(***************************************************************************)
(* The contract in the comment of kmutex_lock_cancellable: it returns 0 if *)
(* the thread now holds the mutex, and -EINTR if the sleep was cancelled   *)
(* and the thread does not hold it.  So a thread back outside the mutex    *)
(* is never km_holder.                                                     *)
(***************************************************************************)
LockResultTruthful == \A t \in Threads : pc[t] = "free" => holder # t

(***************************************************************************)
(* Every thread asleep in kmutex_lock eventually holds the mutex: unlock   *)
(* hands it over in FIFO order and the new holder is made runnable.        *)
(***************************************************************************)
LockAcquired == \A t \in Threads : pc[t] = "wait" ~> pc[t] = "cs"
=============================================================================

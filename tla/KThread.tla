------------------------------ MODULE KThread ------------------------------
(***************************************************************************)
(* Kernel threads and the cooperative single-CPU scheduler.                *)
(*                                                                         *)
(* The scheduler (kernel/proc/sched.c) is not part of the sources: its     *)
(* operators are written from the specification (section 4.A).  The       *)
(* thread operations kthread_cancel and kthread_exit are translated from   *)
(* src/kernel/proc/kthread.c.                                              *)
(*                                                                         *)
(* The scheduler state is one record, the CPU-local record of the design   *)
(* notes, so that a handler that wakes a thread and then switches can be   *)
(* written as one composition of operators, in the order the code calls    *)
(* them:                                                                   *)
(*   curthr    the thread on the CPU, or NoThread while the CPU idles      *)
(*   runq      the FIFO run queue                                          *)
(*   state     kt_state of every thread                                    *)
(*   wchan     kt_wchan: the wait queue a thread sleeps on, or NoQueue     *)
(*   wq        the FIFO contents of every wait queue                       *)
(*   cancelled kt_cancelled                                                *)
(* kt_retval and kt_errno are stored but never read by the sources, so     *)
(* they are left out.                                                      *)
(***************************************************************************)
EXTENDS Integers, Sequences, SequencesExt

CONSTANTS
    Threads,     \* the kthread_t structures
    WaitQueues,  \* the ktqueue_t wait queues other than the run queue
    NoThread,    \* curthr while the CPU idles in sched_switch
    NoQueue      \* a null kt_wchan

ASSUME NoThread \notin Threads /\ NoQueue \notin WaitQueues

ThreadStates == {"NO_STATE", "RUN", "SLEEP", "SLEEP_CANCELLABLE", "EXITED"}

SleepStates == {"SLEEP", "SLEEP_CANCELLABLE"}

SchedType(s) ==
    /\ s.curthr \in Threads \cup {NoThread}
    /\ s.runq \in Seq(Threads)
    /\ s.state \in [Threads -> ThreadStates]
    /\ s.wchan \in [Threads -> WaitQueues \cup {NoQueue}]
    /\ s.wq \in [WaitQueues -> Seq(Threads)]
    /\ s.cancelled \in [Threads -> BOOLEAN]

(* sched_make_runnable(t): state RUN, appended to the run queue. *)
MakeRunnable(s, t) ==
    [s EXCEPT !.state[t] = "RUN", !.runq = Append(@, t)]

(* sched_switch: the head of the run queue gets the CPU; with an empty run *)
(* queue the CPU waits for an interrupt, which in the core never makes a   *)
(* thread runnable.                                                        *)
Switch(s) ==
    IF s.runq = <<>>
    THEN [s EXCEPT !.curthr = NoThread]
    ELSE [s EXCEPT !.curthr = Head(s.runq), !.runq = Tail(s.runq)]

(* sched_sleep_on(q) (st = SLEEP) and sched_cancellable_sleep_on(q)        *)
(* (st = SLEEP_CANCELLABLE) up to the switch away from curthr.             *)
SleepOn(s, q, st) ==
    Switch([s EXCEPT !.state[s.curthr] = st,
                     !.wchan[s.curthr] = q,
                     !.wq[q] = Append(@, s.curthr)])

(* The value sched_cancellable_sleep_on returns once its thread runs again *)
(* after the switch: -EINTR if the thread has been cancelled, else 0.      *)
EINTR == 4

CancellableSleepResult(s, t) ==
    IF s.cancelled[t] THEN -EINTR ELSE 0

(* The thread sched_wakeup_on(q) returns, and its effect: the head of q    *)
(* is dequeued, its wchan cleared and it is made runnable.                 *)
WokenBy(s, q) == Head(s.wq[q])

WakeupOn(s, q) ==
    LET t == Head(s.wq[q])
    IN  MakeRunnable([s EXCEPT !.wq[q] = Tail(@), !.wchan[t] = NoQueue], t)

(* Mutation of sched_cancel: the thread is made runnable but left on its  *)
(* wait queue. *)
SchedCancelKeepsQueued(s, t) ==
    IF s.state[t] = "SLEEP_CANCELLABLE"
    THEN MakeRunnable([s EXCEPT !.wchan[t] = NoQueue], t)
    ELSE s

(* sched_cancel(t): a thread in a cancellable sleep leaves its queue and   *)
(* is made runnable; any other thread is left alone.                       *)
SchedCancel(s, t) ==
    IF s.state[t] = "SLEEP_CANCELLABLE"
    THEN MakeRunnable([s EXCEPT !.wq[s.wchan[t]] = Remove(@, t),
                                !.wchan[t] = NoQueue], t)
    ELSE s

(* kthread_cancel(kthr, retval) for kthr # curthr: set kt_cancelled, and   *)
(* wake the thread if its sleep is cancellable.                            *)
KthreadCancel(s, t) ==
    SchedCancel([s EXCEPT !.cancelled[t] = TRUE], t)

(* The part of kthread_exit before proc_thread_exited: the thread, which   *)
(* is asserted to be on no queue, becomes EXITED.                          *)
KthreadExit(s) ==
    [s EXCEPT !.state[s.curthr] = "EXITED"]

(* t occurs exactly once in the queue seq. *)
OnQueueOnce(seq, t) == Len(SelectSeq(seq, LAMBDA x : x = t)) = 1

(***************************************************************************)
(* Invariant 8 of the specification, and the run queue discipline that     *)
(* sched_switch relies on: every RUN thread other than curthr is on the    *)
(* run queue exactly once, every sleeping thread is exactly once on the    *)
(* queue its wchan names, and no other thread is on any queue.             *)
(***************************************************************************)
QueueDiscipline(s) ==
    /\ s.curthr # NoThread => s.state[s.curthr] = "RUN"
    /\ \A t \in Threads :
           /\ (s.wchan[t] # NoQueue) <=> (s.state[t] \in SleepStates)
           /\ (t \in ToSet(s.runq)) <=> (s.state[t] = "RUN" /\ t # s.curthr)
           /\ t \in ToSet(s.runq) => OnQueueOnce(s.runq, t)
           /\ \A q \in WaitQueues :
                 t \in ToSet(s.wq[q]) <=> s.wchan[t] = q
           /\ s.wchan[t] # NoQueue => OnQueueOnce(s.wq[s.wchan[t]], t)
=============================================================================

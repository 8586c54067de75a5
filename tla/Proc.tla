-------------------------------- MODULE Proc --------------------------------
(***************************************************************************)
(* Process lifecycle of src/kernel/proc/proc.c and the process part of     *)
(* do_fork (src/kernel/proc/fork.c): pid allocation, the global process    *)
(* list, the parent/children tree, exit and reparenting to init, zombies   *)
(* and their reaping by do_waitpid, proc_kill_all.  Weenix runs one thread *)
(* per process, so the thread of process p is the thread slot p, and the   *)
(* wait queue p_wait of p is the wait queue p of the scheduler.            *)
(*                                                                         *)
(* The address space, the descriptor table and the cwd that fork copies    *)
(* and proc_cleanup releases are left to the VM and VFS modules.           *)
(***************************************************************************)
EXTENDS Integers, Sequences, SequencesExt, FiniteSets

CONSTANTS
    Slots,           \* proc_t (and their kthread_t) structures of the slab
    Idle, Init,      \* the slots of the idle and the init process
    PROC_MAX_COUNT,  \* pids are 0 .. PROC_MAX_COUNT - 1
    Status,          \* exit statuses a process may pass to do_exit
    NoProc           \* a null proc_t / kthread_t / ktqueue_t pointer

ASSUME /\ {Idle, Init} \subseteq Slots /\ Idle # Init /\ NoProc \notin Slots
       /\ PROC_MAX_COUNT \in Nat /\ PROC_MAX_COUNT >= 2 /\ 0 \in Status

K == INSTANCE KThread WITH Threads <- Slots, WaitQueues <- Slots,
                           NoThread <- NoProc, NoQueue <- NoProc

PID_IDLE == 0
PID_INIT == 1

VARIABLES
    sched,      \* the scheduler record of KThread
    procs,      \* the allocated proc_t structures
    plist,      \* _proc_list, in order
    pid,        \* p_pid
    pstate,     \* p_state
    pstatus,    \* p_status
    pproc,      \* p_pproc
    children,   \* p_children, in order
    nextPid,    \* next_pid of _proc_getid
    initproc,   \* proc_initproc
    pc,         \* where each thread is: user code, blocked in do_waitpid, exited
    waitArg,    \* the pid argument of the do_waitpid a thread is blocked in
    halted      \* idle has reaped init and shut the kernel down

vars == <<sched, procs, plist, pid, pstate, pstatus, pproc, children,
          nextPid, initproc, pc, waitArg, halted>>

Pids == -1 .. PROC_MAX_COUNT - 1

(* _proc_getid: a scan from next_pid, modulo PROC_MAX_COUNT, for a pid no  *)
(* process on _proc_list holds; -1 once the scan comes back to next_pid.   *)
(* The result is <<pid, the new next_pid>>.                                *)
RECURSIVE GetIdFrom(_, _, _)
GetIdFrom(used, next, p) ==
    IF p \notin used THEN <<p, (p + 1) % PROC_MAX_COUNT>>
    ELSE IF (p + 1) % PROC_MAX_COUNT = next THEN <<-1, next>>
    ELSE GetIdFrom(used, next, (p + 1) % PROC_MAX_COUNT)

(* Mutations of _proc_getid: next_pid = pid + 1 without the modulo, and a *)
(* next_pid handed out without the scan of _proc_list.                     *)
ProcGetIdNoWrap(used, next) ==
    LET r == GetIdFrom(used, next, next) IN <<r[1], r[1] + 1>>

ProcGetIdNoScan(used, next) == <<next, (next + 1) % PROC_MAX_COUNT>>

ProcGetId(used, next) == GetIdFrom(used, next, next)

ListedPids == {pid[q] : q \in ToSet(plist)}

(* The state after bootstrap and idleproc_run: idle has created init, made *)
(* it runnable and is asleep in do_waitpid(-1); init has the CPU.          *)
Init0 ==
    /\ procs = {Idle, Init}
    /\ plist = <<Idle, Init>>
    /\ pid = [s \in Slots |-> IF s = Idle THEN PID_IDLE
                              ELSE IF s = Init THEN PID_INIT ELSE -1]
    /\ pstate = [s \in Slots |-> "RUNNING"]
    /\ pstatus = [s \in Slots |-> 0]
    /\ pproc = [s \in Slots |-> IF s = Init THEN Idle ELSE NoProc]
    /\ children = [s \in Slots |-> IF s = Idle THEN <<Init>> ELSE <<>>]
    /\ nextPid = 2 % PROC_MAX_COUNT
    /\ initproc = Init
    /\ pc = [s \in Slots |-> IF s = Idle THEN "waitpid" ELSE "user"]
    /\ waitArg = [s \in Slots |-> -1]
    /\ halted = FALSE
    /\ sched = [curthr    |-> Init,
                runq      |-> <<>>,
                state     |-> [s \in Slots |-> IF s = Idle THEN "SLEEP"
                                   ELSE IF s = Init THEN "RUN" ELSE "NO_STATE"],
                wchan     |-> [s \in Slots |-> IF s = Idle THEN Idle ELSE NoProc],
                wq        |-> [s \in Slots |-> IF s = Idle THEN <<Idle>> ELSE <<>>],
                cancelled |-> [s \in Slots |-> FALSE]]

(* Thread t has the CPU and runs its own code. *)
Running(t) == ~halted /\ sched.curthr = t /\ pc[t] = "user"

(***************************************************************************)
(* proc_create called by curproc t, in slot c: a pid from _proc_getid, the *)
(* process appended to _proc_list and to the children of t, RUNNING with   *)
(* p_status st.  proc_create asserts that pid 0 is handed out only on an   *)
(* empty list and pid 1 only by idle; idle keeps pid 0 and init pid 1      *)
(* until the kernel halts, so neither assertion can fail after boot.       *)
(***************************************************************************)
ProcCreate(t, c, st) ==
    LET id == ProcGetId(ListedPids, nextPid)
    IN  /\ procs' = procs \cup {c}
        /\ plist' = Append(plist, c)
        /\ pid' = [pid EXCEPT ![c] = id[1]]
        /\ nextPid' = id[2]
        /\ initproc' = IF id[1] = PID_INIT THEN c ELSE initproc
        /\ pproc' = [pproc EXCEPT ![c] = t]
        /\ children' = [children EXCEPT ![t] = Append(@, c), ![c] = <<>>]
        /\ pstate' = [pstate EXCEPT ![c] = "RUNNING"]
        /\ pstatus' = [pstatus EXCEPT ![c] = st]

(* Mutation of fork: the clone is RUN but sched_make_runnable is left out. *)
ForkThreadNotRunnable(s, t, c) ==
    [s EXCEPT !.cancelled[c] = s.cancelled[t], !.wchan[c] = NoProc,
              !.state[c] = "RUN"]

(* kthread_clone(curthr) for slot c (kt_cancelled copied, no wchan, the  *)
(* state RUN copied) and sched_make_runnable of the clone.                 *)
ForkThread(s, t, c) ==
    K!MakeRunnable([s EXCEPT !.cancelled[c] = s.cancelled[t],
                             !.wchan[c] = NoProc], c)

(***************************************************************************)
(* do_fork, process part: proc_create, kthread_clone of curthr attached to *)
(* the new process, sched_make_runnable of the clone, and p_status copied  *)
(* from the parent over the 0 proc_create set.                             *)
(***************************************************************************)
Fork(t) ==
    /\ Running(t)
    /\ \E c \in Slots \ procs :
         /\ ProcCreate(t, c, pstatus[t])
         /\ sched' = ForkThread(sched, t, c)
         /\ pc' = [pc EXCEPT ![c] = "user"]
    /\ UNCHANGED <<waitArg, halted>>

(***************************************************************************)
(* do_exit(st) of the current thread t, starting from scheduler state s0:  *)
(* kthread_exit makes t EXITED and calls proc_thread_exited, that is       *)
(* proc_cleanup(st) and sched_switch.  proc_cleanup asserts that init      *)
(* exists, that t is not idle and has a parent; it wakes one waiter of the *)
(* parent's p_wait, moves the children to the tail of init's children      *)
(* unless t is init, and sets p_status and DEAD.                           *)
(***************************************************************************)
Reparent(t) == t # initproc

(* Mutation of proc_cleanup: the parent is not woken. *)
WakeParentDropped(s, par) == s

(* The wakeup of proc_cleanup: one waiter of the parent's p_wait, if any. *)
WakeParent(s, par) ==
    IF s.wq[par] # <<>> THEN K!WakeupOn(s, par) ELSE s

DoExit(t, st, s0) ==
    /\ initproc # NoProc /\ pid[t] >= 1 /\ pproc[t] # NoProc
    /\ LET par     == pproc[t]
           s1      == K!KthreadExit(s0)
           s2      == WakeParent(s1, par)
           orphans == IF Reparent(t) THEN children[t] ELSE <<>>
       IN  /\ sched' = K!Switch(s2)
           /\ pproc' = [q \in Slots |-> IF q \in ToSet(orphans) THEN initproc
                                        ELSE pproc[q]]
           /\ children' = IF Reparent(t)
                          THEN [children EXCEPT ![t] = <<>>,
                                                ![initproc] = @ \o orphans]
                          ELSE children
    /\ pstatus' = [pstatus EXCEPT ![t] = st]
    /\ pstate' = [pstate EXCEPT ![t] = "DEAD"]
    /\ pc' = [pc EXCEPT ![t] = "exited"]
    /\ UNCHANGED <<procs, plist, pid, nextPid, initproc, waitArg, halted>>

(* do_exit(st) called by the running thread (from its own code, or from   *)
(* handle_pagefault with EFAULT). *)
Exit(t, st) == Running(t) /\ DoExit(t, st, sched)

(***************************************************************************)
(* proc_kill_all: every process on _proc_list, in list order, other than   *)
(* curproc, idle and the children of idle, has its thread cancelled with   *)
(* its own p_status (proc_kill -> kthread_cancel); then curproc exits with *)
(* its p_status unless it is a child of idle.  The test on the parent's    *)
(* pid comes after the test on the pid, so idle's null parent is never     *)
(* read.                                                                   *)
(***************************************************************************)
Victim(t, p) == p # t /\ pid[p] # PID_IDLE /\ pid[pproc[p]] # PID_IDLE

KillAll(t) ==
    /\ Running(t)
    /\ LET s1 == FoldLeft(LAMBDA s, p : IF Victim(t, p) THEN K!KthreadCancel(s, p)
                                         ELSE s,
                          sched, plist)
       IN  IF pid[pproc[t]] # PID_IDLE
           THEN DoExit(t, pstatus[t], s1)
           ELSE /\ sched' = s1
                /\ UNCHANGED <<procs, plist, pid, pstate, pstatus, pproc, children,
                               nextPid, initproc, pc, waitArg, halted>>

(***************************************************************************)
(* One pass of the do_waitpid loop of thread t for argument arg: the first *)
(* child, in p_children order, that is DEAD and matches arg is reaped (its *)
(* threads destroyed, unlinked from p_children and _proc_list, freed) and  *)
(* its pid returned; if there is none, t sleeps, not cancellably, on its   *)
(* own p_wait.  When idle reaps init, idleproc_run shuts the kernel down.  *)
(***************************************************************************)
(* Mutation of the do_waitpid scan: the pid > 0 branch reaps the child    *)
(* with that pid without testing PROC_DEAD.                                *)
MatchesAnyState(t, arg, c) ==
    IF arg = -1 THEN pstate[c] = "DEAD" ELSE pid[c] = arg

Matches(t, arg, c) == pstate[c] = "DEAD" /\ (arg = -1 \/ pid[c] = arg)

(* Mutation of the reap: the child stays linked on _proc_list. *)
ReapKeepsListLink(t, c) ==
    /\ procs' = procs \ {c}
    /\ children' = [children EXCEPT ![t] = Remove(@, c)]
    /\ pc' = [pc EXCEPT ![t] = "user"]
    /\ halted' = (t = Idle)
    /\ UNCHANGED <<sched, plist, pid, pstate, pstatus, pproc, nextPid, initproc,
                   waitArg>>

Reap(t, c) ==
    /\ procs' = procs \ {c}
    /\ plist' = Remove(plist, c)
    /\ children' = [children EXCEPT ![t] = Remove(@, c)]
    /\ pc' = [pc EXCEPT ![t] = "user"]
    /\ halted' = (t = Idle)
    /\ UNCHANGED <<sched, pid, pstate, pstatus, pproc, nextPid, initproc, waitArg>>

WaitLoop(t, arg) ==
    LET found == {i \in 1..Len(children[t]) : Matches(t, arg, children[t][i])}
    IN  IF found # {}
        THEN Reap(t, children[t][Min(found)])
        ELSE /\ sched' = K!SleepOn(sched, t, "SLEEP")
             /\ pc' = [pc EXCEPT ![t] = "waitpid"]
             /\ waitArg' = [waitArg EXCEPT ![t] = arg]
             /\ UNCHANGED <<procs, plist, pid, pstate, pstatus, pproc, children,
                            nextPid, initproc, halted>>

(* do_waitpid(arg, 0, &status) called by the running thread: -ECHILD if t  *)
(* has no children or, for arg > 0, no child with pid arg; else the loop.  *)
Waitpid(t, arg) ==
    /\ Running(t)
    /\ IF \/ children[t] = <<>>
          \/ arg > 0 /\ \A i \in 1..Len(children[t]) : pid[children[t][i]] # arg
       THEN UNCHANGED vars
       ELSE WaitLoop(t, arg)

(* A thread woken from its p_wait gets the CPU back inside do_waitpid and  *)
(* runs the loop again. *)
WaitpidResume(t) ==
    /\ ~halted /\ sched.curthr = t /\ pc[t] = "waitpid"
    /\ WaitLoop(t, waitArg[t])

(* The running thread yields: sched_make_runnable(curthr); sched_switch(). *)
Yield(t) ==
    /\ Running(t)
    /\ sched' = K!Switch(K!MakeRunnable(sched, t))
    /\ UNCHANGED <<procs, plist, pid, pstate, pstatus, pproc, children,
                   nextPid, initproc, pc, waitArg, halted>>

(* The pid arguments a caller may pass to do_waitpid. *)
WaitArgs == {-1} \cup 1 .. PROC_MAX_COUNT - 1

Step(t) ==
    \/ Fork(t)
    \/ \E st \in Status : Exit(t, st)
    \/ KillAll(t)
    \/ \E arg \in WaitArgs : Waitpid(t, arg)
    \/ WaitpidResume(t)
    \/ Yield(t)

Next == \E t \in Slots : Step(t)

(* The scheduler gives no thread more than the CPU: each thread that holds *)
(* the CPU eventually yields, blocks, or exits (non-preemptive kernel).    *)
Fairness == \A t \in Slots : WF_vars(Step(t))

Spec == Init0 /\ [][Next]_vars /\ Fairness

-----------------------------------------------------------------------------
(* The type invariant. *)
TypeOK ==
    /\ K!SchedType(sched)
    /\ procs \subseteq Slots /\ plist \in Seq(Slots)
    /\ pid \in [Slots -> Pids]
    /\ pstate \in [Slots -> {"RUNNING", "DEAD"}]
    /\ pstatus \in [Slots -> Status]
    /\ pproc \in [Slots -> Slots \cup {NoProc}]
    /\ children \in [Slots -> Seq(Slots)]
    /\ nextPid \in 0 .. PROC_MAX_COUNT - 1
    /\ initproc \in Slots \cup {NoProc}
    /\ pc \in [Slots -> {"user", "waitpid", "exited"}]
    /\ waitArg \in [Slots -> WaitArgs]
    /\ halted \in BOOLEAN

(***************************************************************************)
(* Invariant 2 of the specification, kept through fork, exit with          *)
(* reparenting to init, and reaping in do_waitpid: _proc_list holds every  *)
(* allocated process once and nothing else; every entry of a p_children    *)
(* list is an allocated process, listed once, whose p_pproc is the owner   *)
(* of the list; and a process whose parent is still allocated is on that   *)
(* parent's p_children, so that a zombie stays reapable (invariant 3).     *)
(***************************************************************************)
ProcTreeConsistent ==
    /\ ToSet(plist) = procs
    /\ \A p \in procs : K!OnQueueOnce(plist, p)
    /\ \A p \in procs : \A i \in 1 .. Len(children[p]) :
          LET c == children[p][i]
          IN  c \in procs /\ pproc[c] = p /\ K!OnQueueOnce(children[p], c)
    /\ \A c \in procs \ {Idle} :
          pproc[c] \in procs => c \in ToSet(children[pproc[c]])

(***************************************************************************)
(* The run queue and wait queue discipline of KThread (invariant 8 of the  *)
(* specification) holds for the queues that fork, exit, waitpid and        *)
(* kill_all manipulate: in particular proc_cleanup's wakeup of the parent  *)
(* and the switch that follows leave no thread on two queues.              *)
(***************************************************************************)
SchedOK == K!QueueDiscipline(sched)

(***************************************************************************)
(* Pids handed out by _proc_getid in proc_create are valid and unique      *)
(* among the processes that exist, across the wrap of next_pid and the     *)
(* reuse of the pids of reaped processes.                                  *)
(***************************************************************************)
PidsValid ==
    /\ \A p \in procs : pid[p] \in 0 .. PROC_MAX_COUNT - 1
    /\ \A p, q \in procs : p # q => pid[p] # pid[q]

(***************************************************************************)
(* No lost wakeup and no process cycle of waiting: the CPU never ends up   *)
(* idling in sched_switch with an empty run queue before the kernel halts, *)
(* whatever the order of forks, exits, kills and waits.                    *)
(***************************************************************************)
CpuNeverHangs == sched.curthr = NoProc => halted

(***************************************************************************)
(* A process leaves the slab only by do_waitpid of its own parent, and     *)
(* only once it is a zombie: its process is DEAD and its thread EXITED.    *)
(***************************************************************************)
ReapOnlyZombies ==
    [][\A c \in procs \ procs' :
          /\ pstate[c] = "DEAD" /\ sched.state[c] = "EXITED"
          /\ sched.curthr = pproc[c]]_vars

(***************************************************************************)
(* A thread blocked in do_waitpid while a matching child is a zombie       *)
(* eventually returns from do_waitpid (unless the kernel halts first).     *)
(* proc_cleanup wakes only the parent of the exiting process (proc.c:240); *)
(* the zombie children it moves to init (proc.c:244) come with no wakeup   *)
(* of init, which sleeps on with a zombie child while its other children  *)
(* run on.                                                                 *)
(***************************************************************************)
HasZombie(t) ==
    \E i \in 1 .. Len(children[t]) :
        LET c == children[t][i]
        IN  pstate[c] = "DEAD" /\ (waitArg[t] = -1 \/ pid[c] = waitArg[t])

WaitpidReturns ==
    \A t \in Slots :
        (pc[t] = "waitpid" /\ HasZombie(t)) ~> (pc[t] # "waitpid" \/ halted)
=============================================================================

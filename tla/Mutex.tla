------------------------------- MODULE Mutex -------------------------------
(***************************************************************************)
(* What a kernel mutex promises (section 5 of the specification, "Mutex    *)
(* semantics"): one holder at most; a thread that finds the mutex held     *)
(* waits in FIFO order; unlock hands the mutex to the longest waiter, or   *)
(* frees it when nobody waits; a cancelled waiter may leave the queue.     *)
(* KMutex is shown to implement this specification.                        *)
(***************************************************************************)
EXTENDS Sequences, SequencesExt

CONSTANTS Threads, None

VARIABLES holder, queue

Acquire(t) ==
    /\ holder = None
    /\ holder' = t
    /\ UNCHANGED queue

Wait(t) ==
    /\ holder \notin {None, t}
    /\ t \notin ToSet(queue)
    /\ queue' = Append(queue, t)
    /\ UNCHANGED holder

Release(t) ==
    /\ holder = t
    /\ IF queue = <<>>
       THEN holder' = None /\ UNCHANGED queue
       ELSE holder' = Head(queue) /\ queue' = Tail(queue)

Abandon(t) ==
    /\ t \in ToSet(queue)
    /\ queue' = Remove(queue, t)
    /\ UNCHANGED holder

Init == holder = None /\ queue = <<>>

Next == \E t \in Threads : Acquire(t) \/ Wait(t) \/ Release(t) \/ Abandon(t)

Spec == Init /\ [][Next]_<<holder, queue>>
=============================================================================

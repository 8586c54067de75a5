------------------------------ MODULE MCKMutex ------------------------------
(* Instances of KMutex for TLC: three threads, so that two can wait behind *)
(* a holder and the handoff order matters.                                 *)
EXTENDS KMutex, TLC

CONSTANTS t1, t2, t3

MCThreads == {t1, t2, t3}

MCSymmetry == Permutations(MCThreads)
=============================================================================

------------------------------- MODULE MCProc -------------------------------
(* Instances of Proc for TLC: the idle and init slots, a few slots for     *)
(* forked processes, and the symmetry of the forked slots, which the slab  *)
(* hands out in no particular order.                                       *)
EXTENDS Proc, TLC

CONSTANTS i0, i1, f1, f2, f3

MCForked2 == {f1, f2}
MCForked3 == {f1, f2, f3}
MCSlots2 == {i0, i1} \cup MCForked2
MCSlots3 == {i0, i1} \cup MCForked3

MCSymmetry2 == Permutations(MCForked2)
MCSymmetry3 == Permutations(MCForked3)
=============================================================================

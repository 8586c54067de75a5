------------------------------ MODULE MCFdTable -----------------------------
(* Instances of FdTable for TLC: two processes, two file_t structures, one *)
(* regular file and one directory, and the symmetry of the file_t slots,   *)
(* which the slab allocator hands out in no particular order.              *)
EXTENDS FdTable, TLC

CONSTANTS p1, p2, f1, f2, reg, dir

MCProcs == {p1, p2}
MCFileSlots == {f1, f2}
MCSymmetry == Permutations(MCFileSlots)
=============================================================================

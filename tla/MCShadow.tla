------------------------------ MODULE MCShadow ------------------------------
(* Instances of Shadow for TLC: two process slots, two pages of two bytes, one value    *)
(* stored by user code besides the zeros of a new page.                    *)
EXTENDS Shadow

CONSTANTS p1, p2, null

MCProcs   == {p1, p2}
(* Slab slots are addresses, numbered so that the allocator gives out   *)
(* the lowest free one.                                                   *)
MCAnons   == 1 .. 1
MCShadows == 11 .. 14
(* mmap maps every page (over whatever is there); munmap cuts one page,   *)
(* which from a two-page area is Case 3 or Case 2 of vmmap_remove, and    *)
(* from a one-page area Case 4.                                           *)
MCMapRanges   == {<<0, NPAGES>>}
MCUnmapRanges == {<<v, v + 1>> : v \in 0 .. NPAGES - 1}

(* vmmap_read and vmmap_write over every range of user bytes, and the    *)
(* ranges within one page, the buffers of a single-page kernel copy.      *)
MCCopyArgs        == {<<va, n>> \in (0 .. NPAGES * PAGE_SIZE - 1) \X (1 .. NPAGES * PAGE_SIZE) :
                         va + n <= NPAGES * PAGE_SIZE}
MCCopyArgsOnePage == {c \in MCCopyArgs : AddrToPn(c[1]) = AddrToPn(c[1] + c[2] - 1)}

(* mmap with PROT_NONE, PROT_READ and PROT_READ | PROT_WRITE. *)
MCProts == {{}, {"READ"}, {"READ", "WRITE"}}

MCSymmetry == Permutations(MCProcs)
=============================================================================

------------------------------- MODULE VmMap -------------------------------
(***************************************************************************)
(* The address-space map of one process (src/kernel/vm/vmmap.c) and the    *)
(* system calls that change it: do_mmap and do_munmap (vm/mmap.c) and      *)
(* do_brk (vm/brk.c).  The process runs one thread, so the calls of its    *)
(* user code are sequential; what varies is their arguments and whether a  *)
(* slab allocation of a call fails.                                        *)
(*                                                                         *)
(* A vmarea is a record [start, end, off, flags, obj]: its page range      *)
(* [start, end), vma_off, MAP_PRIVATE or MAP_SHARED, and the bottom object *)
(* of its shadow chain (the vnode of a file, or an anon object).  The      *)
(* shadow objects of a private area and the reference counts are the       *)
(* subject of the Shadow module; the page tables and the TLB that          *)
(* pt_unmap_range and tlb_flush_range clear are left out.                  *)
(***************************************************************************)
EXTENDS Integers, Sequences, SequencesExt, FiniteSets

CONSTANTS
    PAGE_SIZE,         \* bytes per page
    USER_LO, USER_HI,  \* ADDR_TO_PN(USER_MEM_LOW), ADDR_TO_PN(USER_MEM_HIGH)
    Files,             \* the vnodes the process may mmap
    Exe,               \* the executable's vnode, backing the data segment
    StartBrk,          \* p_start_brk, the end of the data segment
    Fails,             \* the allocation failures a call may meet
    MapFlags,          \* the sharing flags mmap is called with
    Sources            \* what mmap maps: files of Files, or NoFile for MAP_ANON

ASSUME /\ PAGE_SIZE \in Nat \ {0} /\ 0 < USER_LO /\ USER_LO + 2 < USER_HI
       /\ Exe \in Files
       /\ StartBrk \in USER_LO * PAGE_SIZE + 1 .. (USER_HI - 2) * PAGE_SIZE
       /\ "none" \in Fails /\ MapFlags \subseteq {"PRIVATE", "SHARED"}
       /\ Fails \subseteq {"none", "remove_vma", "remove_shadow", "vma",
                           "anon", "shadow"}

USER_MEM_LOW  == USER_LO * PAGE_SIZE
USER_MEM_HIGH == USER_HI * PAGE_SIZE

ADDR_TO_PN(a)  == a \div PAGE_SIZE
PAGE_ALIGNED(a) == a % PAGE_SIZE = 0

(* Anon objects are slab addresses: a freed one may be handed out again. *)
Anons == 0 .. USER_HI - USER_LO

VARIABLES
    areas,  \* vmm_list: the vmareas in list order
    brk,    \* p_brk
    panic,  \* "none", or why the kernel stopped in this process's call
    op      \* the last call and its result, for the step properties

vars == <<areas, brk, panic, op>>

Area(s, e, off, fl, o) == [start |-> s, end |-> e, off |-> off, flags |-> fl, obj |-> o]

Covers(v, p) == v.start <= p /\ p < v.end

Objs(as) == {as[i].obj : i \in 1 .. Len(as)}

(* anon_create: the slab hands out a free object. *)
FreshAnon(as) == Min(Anons \ Objs(as))

(* The pages mapped and what backs each: object and page number in it. *)
Mapped(as) == {p \in USER_LO .. USER_HI - 1 : \E i \in 1 .. Len(as) : Covers(as[i], p)}

Backing(as) ==
    [p \in Mapped(as) |->
        LET v == as[CHOOSE i \in 1 .. Len(as) : Covers(as[i], p)]
        IN  <<v.obj, v.off + p - v.start>>]

(***************************************************************************)
(* vmmap_insert: before the first area that starts and ends after the new  *)
(* one, else at the tail.                                                  *)
(***************************************************************************)
VmmapInsert(as, new) ==
    LET after == {i \in 1 .. Len(as) : as[i].start > new.start /\ as[i].end > new.end}
    IN  IF after = {} THEN Append(as, new) ELSE InsertAt(as, Min(after), new)

(* vmmap_lookup: the index of the first area covering vfn, 0 for NULL. *)
VmmapLookup(as, vfn) ==
    LET hit == {i \in 1 .. Len(as) : Covers(as[i], vfn)}
    IN  IF hit = {} THEN 0 ELSE Min(hit)

(* Mutation of vmmap_is_range_empty: only the first page is tested. *)
RangeEmptyFirstPage(as, lo, n) == \A i \in 1 .. Len(as) : ~Covers(as[i], lo)

(* vmmap_is_range_empty *)
VmmapIsRangeEmpty(as, lo, n) ==
    \A i \in 1 .. Len(as) : lo >= as[i].end \/ lo + n <= as[i].start

(***************************************************************************)
(* vmmap_find_range, first fit.  The free gaps between the areas, low to   *)
(* high: LOHI returns the low end of the first gap of n pages, HILO the    *)
(* high end minus n of the last one; an empty map gives USER_LO or         *)
(* USER_HI - n without a test.                                             *)
(***************************************************************************)
Gaps(as) ==
    [i \in 1 .. Len(as) + 1 |->
        <<IF i = 1 THEN USER_LO ELSE as[i - 1].end,
          IF i = Len(as) + 1 THEN USER_HI ELSE as[i].start>>]

(* Mutation of find_range: the gap below the head of the list is never  *)
(* looked at. *)
FindRangeSkipsHead(as, n, dir) ==
    LET fit == SelectSeq(Tail(Gaps(as)), LAMBDA g : g[2] - g[1] >= n)
    IN  IF as = <<>> THEN (IF dir = "LOHI" THEN USER_LO ELSE USER_HI - n)
        ELSE IF fit = <<>> THEN -1
        ELSE IF dir = "LOHI" THEN Head(fit)[1] ELSE Last(fit)[2] - n

(* Mutation of find_range: HILO places the range one page too high. *)
FindRangeHighByOne(as, n, dir) ==
    LET fit == SelectSeq(Gaps(as), LAMBDA g : g[2] - g[1] >= n)
    IN  IF as = <<>> THEN (IF dir = "LOHI" THEN USER_LO ELSE USER_HI - n + 1)
        ELSE IF fit = <<>> THEN -1
        ELSE IF dir = "LOHI" THEN Head(fit)[1] ELSE Last(fit)[2] - n + 1

VmmapFindRange(as, n, dir) ==
    LET fit == SelectSeq(Gaps(as), LAMBDA g : g[2] - g[1] >= n)
    IN  IF as = <<>> THEN (IF dir = "LOHI" THEN USER_LO ELSE USER_HI - n)
        ELSE IF fit = <<>> THEN -1
        ELSE IF dir = "LOHI" THEN Head(fit)[1] ELSE Last(fit)[2] - n

(***************************************************************************)
(* vmmap_remove(lo, hi - lo): each area of the list, in list order, falls  *)
(* in one of four cases.  Case 1 (the range strictly inside the area)      *)
(* shrinks the area to [start, lo) and inserts a new area [hi, end) with   *)
(* vma_off advanced by hi - start; Case 2 cuts the end at lo; Case 3 moves *)
(* the start to hi and advances vma_off; Case 4 unlinks the area.  Case 1  *)
(* allocates a vmarea, and for a private area two shadow objects: if the   *)
(* vmarea allocation fails remove returns -1 at once; if a shadow          *)
(* allocation fails it returns -1 with the area already shrunk.  The       *)
(* result is [as, ret].                                                    *)
(***************************************************************************)
RemoveCase(v, lo, hi) ==
    CASE lo > v.start /\ hi < v.end                     -> 1
      [] lo > v.start /\ lo < v.end /\ hi >= v.end      -> 2
      [] lo <= v.start /\ hi > v.start /\ hi < v.end    -> 3
      [] lo <= v.start /\ hi >= v.end                   -> 4
      [] OTHER                                          -> 0

(* Mutation of Case 3: vma_off is not advanced. *)
TrimStartKeepsOff(v, hi) == [v EXCEPT !.start = hi]

(* Case 3: the start moves to hi and vma_off follows it. *)
TrimStart(v, hi) == [v EXCEPT !.start = hi, !.off = v.off + hi - v.start]

(* Mutation of Case 1: the new area keeps the old vma_off. *)
SplitAreaKeepsOff(v, hi) == [v EXCEPT !.start = hi]

(* Case 1: the new area [hi, end), its vma_off advanced by hi - start. *)
SplitArea(v, hi) == Area(hi, v.end, v.off + hi - v.start, v.flags, v.obj)

RemoveStep(r, v, lo, hi, fail) ==
    LET i      == CHOOSE j \in 1 .. Len(r.as) : r.as[j] = v
        shrunk == [r.as EXCEPT ![i].end = lo]
        split  == SplitArea(v, hi)
    IN  IF r.ret < 0 THEN r
        ELSE CASE RemoveCase(v, lo, hi) = 1 ->
                    IF fail = "remove_vma" THEN [r EXCEPT !.ret = -1]
                    ELSE IF fail = "remove_shadow" /\ v.flags = "PRIVATE"
                    THEN [as |-> shrunk, ret |-> -1]
                    ELSE [as |-> VmmapInsert(shrunk, split), ret |-> 0]
               [] RemoveCase(v, lo, hi) = 2 -> [r EXCEPT !.as[i].end = lo]
               [] RemoveCase(v, lo, hi) = 3 ->
                    [r EXCEPT !.as[i] = TrimStart(v, hi)]
               [] RemoveCase(v, lo, hi) = 4 -> [r EXCEPT !.as = RemoveAt(@, i)]
               [] OTHER -> r

VmmapRemove(as, lo, n, fail) ==
    FoldLeft(LAMBDA r, v : RemoveStep(r, v, lo, lo + n, fail),
             [as |-> as, ret |-> 0], as)

(***************************************************************************)
(* vmmap_map(map, file, lopage, npages, prot, flags, off, dir): with a     *)
(* lopage, a non-empty range is first cleared by vmmap_remove (its result  *)
(* is not looked at); without one, vmmap_find_range picks the start.  Then *)
(* the vmarea is allocated, the bottom object is the file's or a new anon  *)
(* object (anon_create does not test its allocation), a private mapping    *)
(* gets a shadow object, and the area is inserted.  The result is          *)
(* [as, ret, start, panic].                                                *)
(***************************************************************************)
NoFile == "anon"

VmmapMap(as, file, lopage, npages, flags, off, dir, fail) ==
    LET found == VmmapFindRange(as, npages, dir)
        as1   == IF lopage # 0 /\ ~VmmapIsRangeEmpty(as, lopage, npages)
                 THEN VmmapRemove(as, lopage, npages, fail).as
                 ELSE as
        start == IF lopage # 0 THEN lopage ELSE found
        obj   == IF file = NoFile THEN FreshAnon(as1) ELSE file
        fails(as2) == [as |-> as2, ret |-> -1, start |-> start, panic |-> "none"]
    IN  IF lopage = 0 /\ found < 0 THEN fails(as)
        ELSE IF fail = "vma" THEN fails(as1)
        ELSE IF file = NoFile /\ fail = "anon"
             THEN [fails(as1) EXCEPT !.panic = "anon_create"]
        ELSE IF flags = "PRIVATE" /\ fail = "shadow" THEN fails(as1)
        ELSE [as    |-> VmmapInsert(as1, Area(start, start + npages, off, flags, obj)),
              ret   |-> 0,
              start |-> start,
              panic |-> "none"]

EINVAL == 22
ENOMEM == 12

Call(c, r, lo, hi) == [call |-> c, ret |-> r, lo |-> lo, hi |-> hi]

(***************************************************************************)
(* do_mmap(addr, len, prot, flags, fd, off): the argument checks (MAP_FIXED *)
(* needs addr in the user range; addr aligned; 0 < len < the user range),  *)
(* then vmmap_map at lopage = ADDR_TO_PN(addr) for the pages addr..addr +  *)
(* len - 1, HILO.  vmmap_map asserts that a non-zero lopage lies in the    *)
(* user range with all npages.  The checks of fd and of the file's mode    *)
(* return MAP_FAILED without changing anything: file is either the vnode  *)
(* of a descriptor that passes them, or NoFile for MAP_ANON.               *)
(***************************************************************************)
DoMmap(addr, len, flags, fixed, file, fail) ==
    /\ panic = "none"
    /\ LET lopage == ADDR_TO_PN(addr)
           npages == ADDR_TO_PN(addr + len - 1) + 1 - lopage
           r      == VmmapMap(areas, file, lopage, npages, flags, 0, "HILO", fail)
       IN  IF \/ fixed /\ (addr < USER_MEM_LOW \/ addr >= USER_MEM_HIGH)
             \/ ~PAGE_ALIGNED(addr)
             \/ len <= 0 \/ len >= USER_MEM_HIGH - USER_MEM_LOW
           THEN /\ op' = Call("mmap", -1, 0, 0)
                /\ UNCHANGED <<areas, brk, panic>>
           ELSE IF lopage # 0 /\ (lopage < USER_LO \/ lopage + npages > USER_HI)
           THEN /\ panic' = "mmap_assert"
                /\ op' = Call("mmap", -1, lopage, lopage + npages)
                /\ UNCHANGED <<areas, brk>>
           ELSE /\ areas' = r.as
                /\ panic' = r.panic
                /\ op' = Call("mmap", r.ret, r.start, r.start + npages)
                /\ UNCHANGED brk

(* do_munmap(addr, len): addr in the user range and aligned, 0 < len < the *)
(* user range; then vmmap_remove of the pages addr .. addr + len - 1.      *)
DoMunmap(addr, len, fail) ==
    /\ panic = "none"
    /\ LET lopage == ADDR_TO_PN(addr)
           npages == ADDR_TO_PN(addr + len - 1) + 1 - lopage
           r      == VmmapRemove(areas, lopage, npages, fail)
       IN  IF \/ addr < USER_MEM_LOW \/ addr >= USER_MEM_HIGH
             \/ ~PAGE_ALIGNED(addr)
             \/ len <= 0 \/ len >= USER_MEM_HIGH - USER_MEM_LOW
           THEN /\ op' = Call("munmap", -EINVAL, 0, 0)
                /\ UNCHANGED <<areas, brk, panic>>
           ELSE /\ areas' = r.as
                /\ op' = Call("munmap", r.ret, lopage, lopage + npages)
                /\ UNCHANGED <<brk, panic>>

(***************************************************************************)
(* The break_upper_limit of do_brk: the start of the area after the one    *)
(* holding the old break, capped at USER_MEM_HIGH.  When that area is the  *)
(* last one, list_item of its l_next reads the list head as an area, and   *)
(* the limit is PN_TO_ADDR of whatever word lies there, capped.            *)
(***************************************************************************)
BrkUpperLimits(as, prev) ==
    IF prev < Len(as)
    THEN {IF as[prev + 1].start * PAGE_SIZE < USER_MEM_HIGH
          THEN as[prev + 1].start * PAGE_SIZE ELSE USER_MEM_HIGH}
    ELSE {k * PAGE_SIZE : k \in 0 .. USER_HI}

(* Mutation of do_brk: the new heap area stops a page short. *)
HeapPagesShort(startVfn, target) == <<startVfn + 1, target - startVfn - 1>>

(* The pages do_brk maps for a new heap: from the page after p_start_brk's *)
(* to the new break's, as <<lopage, npages>>. *)
HeapPages(startVfn, target) == <<startVfn + 1, target - startVfn>>

(***************************************************************************)
(* do_brk(addr): NULL returns p_brk.  Otherwise the areas holding the      *)
(* pages of p_start_brk - 1 and p_brk - 1 are looked up, and the latter is *)
(* dereferenced for the next area (a NULL one faults in the kernel).  An   *)
(* addr below p_start_brk or above the limit is ENOMEM.  A new break in    *)
(* the same page is just stored; a higher page maps the heap with          *)
(* vmmap_map (PRIVATE|FIXED, anon, LOHI; a failure panics) when the old    *)
(* break was in the data area, else extends the old break's area; a lower  *)
(* page removes the pages above it.                                        *)
(***************************************************************************)
DoBrk(addr, fail) ==
    /\ panic = "none"
    /\ LET startVfn == ADDR_TO_PN(StartBrk - 1)
           prevVfn  == ADDR_TO_PN(brk - 1)
           target   == ADDR_TO_PN(addr - 1)
           startVma == VmmapLookup(areas, startVfn)
           prevVma  == VmmapLookup(areas, prevVfn)
           heap     == HeapPages(startVfn, target)
           r        == VmmapMap(areas, NoFile, heap[1], heap[2], "PRIVATE", 0, "LOHI", fail)
       IN  IF addr = 0 THEN op' = Call("brk", 0, 0, 0) /\ UNCHANGED <<areas, brk, panic>>
           ELSE IF prevVma = 0
           THEN panic' = "brk_null" /\ op' = Call("brk", -1, 0, 0) /\ UNCHANGED <<areas, brk>>
           ELSE \E limit \in BrkUpperLimits(areas, prevVma) :
             IF addr < StartBrk \/ addr > limit
             THEN op' = Call("brk", -ENOMEM, 0, 0) /\ UNCHANGED <<areas, brk, panic>>
             ELSE IF target > prevVfn /\ prevVma = startVma /\ (r.ret < 0 \/ r.panic # "none")
             THEN /\ panic' = IF r.panic = "none" THEN "brk_map" ELSE r.panic
                  /\ op' = Call("brk", -1, 0, 0)
                  /\ UNCHANGED <<areas, brk>>
             ELSE /\ areas' = CASE target = prevVfn -> areas
                                [] target > prevVfn /\ prevVma = startVma -> r.as
                                [] target > prevVfn -> [areas EXCEPT ![prevVma].end = target + 1]
                                [] target < prevVfn ->
                                      VmmapRemove(areas, target + 1, prevVfn - target, fail).as
                  /\ brk' = addr
                  /\ op' = Call("brk", 0, 0, 0)
                  /\ UNCHANGED panic

(***************************************************************************)
(* The process after exec: the data segment of the executable ends on the  *)
(* page of p_start_brk - 1 and the break is p_start_brk; the stack is an   *)
(* anon page at the top of the user range.                                 *)
(***************************************************************************)
Init ==
    /\ areas = << Area(USER_LO, ADDR_TO_PN(StartBrk - 1) + 1, 0, "PRIVATE", Exe),
                  Area(USER_HI - 1, USER_HI, 0, "PRIVATE", 0) >>
    /\ brk = StartBrk
    /\ panic = "none"
    /\ op = Call("exec", 0, 0, 0)

(* The arguments the calls are tried with: every page-aligned address of  *)
(* the user range and one page either side, every length up to the size  *)
(* of the user range, every break address. *)
MmapAddrs == {k * PAGE_SIZE : k \in 0 .. USER_HI}
Lens      == 1 .. USER_MEM_HIGH - USER_MEM_LOW
BrkAddrs  == 0 .. USER_MEM_HIGH + 1

Next ==
    \/ \E a \in MmapAddrs, l \in Lens, fl \in MapFlags, fx \in BOOLEAN,
          f \in Sources, fail \in Fails :
          DoMmap(a, l, fl, fx, f, fail)
    \/ \E a \in MmapAddrs, l \in Lens, fail \in Fails : DoMunmap(a, l, fail)
    \/ \E a \in BrkAddrs, fail \in Fails : DoBrk(a, fail)

Spec == Init /\ [][Next]_vars

(* op only records what the last step did: the steps a state allows do   *)
(* not depend on it, so states that differ only in op are the same state *)
(* for the checker. *)
StateView == <<areas, brk, panic>>

-----------------------------------------------------------------------------
(* The type invariant. *)
TypeOK ==
    /\ areas \in Seq([start : USER_LO .. USER_HI, end : USER_LO .. USER_HI,
                       off : Nat, flags : {"PRIVATE", "SHARED"},
                       obj : Files \cup Anons])
    /\ brk \in 1 .. USER_MEM_HIGH + 1
    /\ panic \in {"none", "mmap_assert", "brk_null", "brk_map", "anon_create"}
    /\ op \in [call : {"exec", "mmap", "munmap", "brk"}, ret : Int, lo : Int, hi : Int]

(***************************************************************************)
(* Invariant 5 of the specification: the areas of vmm_list are non-empty,  *)
(* lie in the user range, are in ascending order and never overlap,        *)
(* through every sequence of mmap, munmap and brk (vmmap_insert's place,   *)
(* the four cases of vmmap_remove, the range vmmap_map clears first, the   *)
(* heap growth of do_brk).                                                 *)
(***************************************************************************)
AreasWellFormed ==
    /\ \A i \in 1 .. Len(areas) :
          USER_LO <= areas[i].start /\ areas[i].start < areas[i].end
          /\ areas[i].end <= USER_HI
    /\ \A i, j \in 1 .. Len(areas) : i < j => areas[i].end <= areas[j].start

(***************************************************************************)
(* vmmap_find_range is first fit: on every map the calls can build, for    *)
(* every size, it returns the lowest (LOHI) or highest (HILO) start of a   *)
(* free run of n pages in the user range, or -1 if there is none.          *)
(***************************************************************************)
FreeStarts(as, n) ==
    {s \in USER_LO .. USER_HI - n : \A p \in s .. s + n - 1 : p \notin Mapped(as)}

FindRangeFirstFit ==
    \A n \in 1 .. USER_HI - USER_LO - 1, dir \in {"LOHI", "HILO"} :
        VmmapFindRange(areas, n, dir) =
            IF FreeStarts(areas, n) = {} THEN -1
            ELSE IF dir = "LOHI" THEN Min(FreeStarts(areas, n))
            ELSE Max(FreeStarts(areas, n))

(***************************************************************************)
(* A successful munmap unmaps exactly its pages: every other page stays    *)
(* mapped to the same page of the same object, across the area splits and *)
(* vma_off updates of vmmap_remove.                                        *)
(***************************************************************************)
Outside(f, S) == [p \in DOMAIN f \ S |-> f[p]]

MunmapExact ==
    [][op'.call = "munmap" /\ op'.ret = 0 =>
         Backing(areas') = Outside(Backing(areas), op'.lo .. op'.hi - 1)]_vars

(***************************************************************************)
(* A successful mmap maps its range, from page 0 of one object that, for  *)
(* an anon mapping, backs no other page, and leaves every page outside    *)
(* the range as it was.                                                   *)
(***************************************************************************)
MmapExact ==
    [][op'.call = "mmap" /\ op'.ret = 0 =>
         LET new == Backing(areas')
             R   == op'.lo .. op'.hi - 1
         IN  /\ Outside(new, R) = Outside(Backing(areas), R)
             /\ R \subseteq DOMAIN new
             /\ \E o \in Files \cup Anons :
                   /\ \A p \in R : new[p] = <<o, p - op'.lo>>
                   /\ o \in Anons => \A p \in DOMAIN new \ R : new[p][1] # o]_vars

(* The pages between the old break and the new one. *)
BrkBand(old, new) ==
    IF ADDR_TO_PN(new - 1) >= ADDR_TO_PN(old - 1)
    THEN ADDR_TO_PN(old - 1) + 1 .. ADDR_TO_PN(new - 1)
    ELSE ADDR_TO_PN(new - 1) + 1 .. ADDR_TO_PN(old - 1)

(***************************************************************************)
(* A successful brk to a higher page maps every page up to the new break's *)
(* page, and one to a lower page unmaps every page above it up to the old *)
(* break's page.                                                          *)
(***************************************************************************)
BrkMapsBand ==
    [][op'.call = "brk" /\ op'.ret = 0 /\ brk' # brk =>
         IF ADDR_TO_PN(brk' - 1) > ADDR_TO_PN(brk - 1)
         THEN BrkBand(brk, brk') \subseteq Mapped(areas')
         ELSE BrkBand(brk, brk') \cap Mapped(areas') = {}]_vars

(***************************************************************************)
(* brk.c requires brk and mmap to work together in one process: a brk     *)
(* changes only the pages between the old break and the new one, and      *)
(* leaves every other page, those of the process's own mappings included, *)
(* as it was.                                                             *)
(***************************************************************************)
BrkExact ==
    [][op'.call = "brk" /\ op'.ret = 0 =>
         Outside(Backing(areas'), BrkBand(brk, brk')) =
             Outside(Backing(areas), BrkBand(brk, brk'))]_vars

(***************************************************************************)
(* do_mmap checks its arguments "as the ERRORS section of the manpage"    *)
(* says: no arguments a process passes make the kernel fail an assertion; *)
(* an address or length outside the user range is EINVAL.                 *)
(***************************************************************************)
MmapArgsChecked == panic # "mmap_assert"

(***************************************************************************)
(* do_brk never dereferences a missing area: whatever the process has     *)
(* mapped or unmapped, a brk call returns.                                *)
(***************************************************************************)
BrkHeapLookupChecked == panic # "brk_null"

(***************************************************************************)
(* The comment of vmmap_map: operations that cannot be undone are saved   *)
(* until there is no chance of failure.  A failed mmap leaves the map as  *)
(* it was.                                                                *)
(***************************************************************************)
MapFailureAtomic ==
    [][op'.call = "mmap" /\ op'.ret < 0 /\ panic' = "none" => areas' = areas]_vars
====

------------------------------- MODULE Shadow -------------------------------
(***************************************************************************)
(* Memory objects and copy-on-write (src/kernel/vm/anon.c, vm/shadow.c,    *)
(* vm/pagefault.c, the object handling of vm/vmmap.c and the address-space *)
(* part of proc/fork.c).                                                   *)
(*                                                                         *)
(* An anon object holds zero-filled pages; a shadow object holds the pages *)
(* a private area has written since its chain was last shared, and points  *)
(* at the object it shadows and at the bottom (anon) object of its chain.  *)
(* Every object has mmo_refcount and its resident pages, each page a value *)
(* (the content of the frame).  A process has the vmareas of its map, each *)
(* [start, end, off, flags, obj], and the entries of its page table, each  *)
(* the frame <<obj, pagenum>> it maps and whether it is writable.  Frames  *)
(* are pinned (anon_fillpage, shadow_fillpage), so no page is ever paged   *)
(* out; pframe_get, pframe_free and mmobj_bottom_obj, outside src/, follow *)
(* the specification: a resident page holds one reference on its object.   *)
(*                                                                         *)
(* All areas here are anonymous, each with its vma_prot (read, write);     *)
(* file mappings and the placement of areas are the subject of VmMap.  The *)
(* ghost variable mem is what each process must read at each of its pages: *)
(* its own writes, those of the processes that share a MAP_SHARED page     *)
(* with it, and for a forked child what its parent had at the fork.        *)
(***************************************************************************)
EXTENDS Integers, FiniteSets, Sequences, SequencesExt, FiniteSetsExt

CONSTANTS
    Procs,      \* process slots
    Init1,      \* the process that runs at the start
    Anons,      \* slots of anon_allocator
    Shadows,    \* slots of shadow_allocator
    NPAGES,     \* the user pages are 0 .. NPAGES - 1
    Vals,       \* the nonzero values user code stores
    Fails,      \* the calls whose shadow_create may return NULL
    MapRanges,  \* the page ranges <<lo, hi>> mmap is called with
    Prots,      \* the prot arguments of mmap, subsets of {"READ", "WRITE"}
    UnmapRanges, \* and munmap
    MaxForks,   \* bound: the number of forks a behaviour makes
    PAGE_SIZE,  \* bytes per page
    CopyArgs,   \* the <<vaddr, count>> of vmmap_read and vmmap_write calls
    Null        \* NULL, and an absent page-table entry or page

ASSUME /\ Init1 \in Procs /\ Anons \cap Shadows = {} /\ Null \notin Anons \cup Shadows
       /\ NPAGES \in Nat \ {0} /\ 0 \notin Vals
       /\ Fails \subseteq {"map", "fork_new", "fork_old", "remove"}
       /\ \A r \in MapRanges \cup UnmapRanges : 0 <= r[1] /\ r[1] < r[2] /\ r[2] <= NPAGES
       /\ PAGE_SIZE \in Nat \ {0} /\ Prots \subseteq SUBSET {"READ", "WRITE"}
       /\ \A c \in CopyArgs : c[1] \in Nat /\ c[2] \in Nat \ {0}
                            /\ c[1] + c[2] <= NPAGES * PAGE_SIZE

Objs   == Anons \cup Shadows
VFNs   == 0 .. NPAGES - 1
PageNo == 0 .. NPAGES - 1

VARIABLES
    mmo,    \* mmo[o]: [kind, rc, shadowed, bottom, pages] of each slot
    live,   \* the processes that have an address space
    areas,  \* areas[p]: the vmareas of p's vmmap
    pt,     \* pt[p][v]: Null or [obj, n, w], p's page-table entry of v
    mem,    \* ghost: mem[p][v], what p must read at page v
    forks   \* the forks made so far, for the bound MaxForks

vars == <<mmo, live, areas, pt, mem, forks>>

FreeObj == [kind |-> "free", rc |-> 0, shadowed |-> Null, bottom |-> Null,
            pages |-> [n \in PageNo |-> Null]]

Allocated(m) == {o \in Objs : m[o].kind # "free"}

Resident(m, o) == {n \in PageNo : m[o].pages[n] # Null}

NRes(m, o) == Cardinality(Resident(m, o))

(* The slab gives out a free slot; the lowest one, which loses nothing.   *)
FreeSlots(m, S) == {o \in S : m[o].kind = "free"}

Alloc(m, S) == Min(FreeSlots(m, S))

Area(s, e, off, pr, fl, o) ==
    [start |-> s, end |-> e, off |-> off, prot |-> pr, flags |-> fl, obj |-> o]

Covers(a, v) == a.start <= v /\ v < a.end

PageOf(a, v) == a.off + v - a.start

(* vmmap_lookup: the area of p covering v; Null when there is none.       *)
VmmapLookup(p, v) ==
    IF \E a \in areas[p] : Covers(a, v) THEN CHOOSE a \in areas[p] : Covers(a, v)
    ELSE Null

(* The areas of a map in vmm_list order, which is by start.               *)
InOrder(as) == SetToSortSeq(as, LAMBDA a, b : a.start < b.start)

(* ADDR_TO_PN and PN_TO_ADDR, user addresses counted in bytes from 0.     *)
AddrToPn(addr) == addr \div PAGE_SIZE
PnToAddr(v)    == v * PAGE_SIZE

(* The pages the loop of vmmap_read and vmmap_write visits: first_vfn to  *)
(* last_vfn, the pages of the first and of the last byte.                 *)
CopyPages(vaddr, count) == AddrToPn(vaddr) .. AddrToPn(vaddr + count - 1)

(* Mutation: the last page is copied whole, like a middle page.           *)
CopySegmentLastWhole(vaddr, count, i) ==
    IF i = AddrToPn(vaddr)
    THEN <<vaddr, IF vaddr + count < PnToAddr(i) + PAGE_SIZE THEN count
                  ELSE PnToAddr(i) + PAGE_SIZE - vaddr>>
    ELSE <<PnToAddr(i), PAGE_SIZE>>

(***************************************************************************)
(* The bytes the loop copies at page i, as <<first address, num_bytes>>:   *)
(* on the first page from vaddr to the end of the page or of the count;   *)
(* on the last page from its start, last_vaddr - PN_TO_ADDR(last_vfn)      *)
(* bytes; a whole page in between.                                         *)
(***************************************************************************)
CopySegment(vaddr, count, i) ==
    LET last == vaddr + count - 1
        pend == PnToAddr(AddrToPn(vaddr)) + PAGE_SIZE
    IN  IF i = AddrToPn(vaddr)
        THEN <<vaddr, IF vaddr + count < pend THEN count ELSE pend - vaddr>>
        ELSE IF i = AddrToPn(last) THEN <<PnToAddr(i), last - PnToAddr(i)>>
        ELSE <<PnToAddr(i), PAGE_SIZE>>

(* The user addresses whose bytes the whole loop copies.                  *)
CopiedBytes(vaddr, count) ==
    UNION {LET seg == CopySegment(vaddr, count, i) IN seg[1] .. seg[1] + seg[2] - 1 :
             i \in CopyPages(vaddr, count)}

-----------------------------------------------------------------------------
(* Objects: creation, references, pages.                                  *)

(* anon_create: refcount 1, no pages, no shadowed object.                 *)
AnonCreate(m, o) == [m EXCEPT ![o] = [FreeObj EXCEPT !.kind = "anon", !.rc = 1]]

(* shadow_create followed by the caller's setting of mmo_shadowed and of   *)
(* the bottom object.                                                      *)
ShadowCreate(m, o, sh, bot) ==
    [m EXCEPT ![o] = [FreeObj EXCEPT !.kind = "shadow", !.rc = 1,
                                     !.shadowed = sh, !.bottom = bot]]

(* anon_ref, shadow_ref. *)
Ref(m, o) == [m EXCEPT ![o].rc = @ + 1]

(* mmobj_bottom_obj: a shadow's cached bottom, or the object itself.       *)
BottomObj(m, o) == IF m[o].kind = "shadow" THEN m[o].bottom ELSE o

(* pframe_get on a missing page adds a frame holding val to o; pframe_free *)
(* removes one.  The frame holds a reference on o.                         *)
PframeAdd(m, o, n, val) == [m EXCEPT ![o].pages[n] = val, ![o].rc = @ + 1]

PframeFree(m, o, n) == [m EXCEPT ![o].pages[n] = Null, ![o].rc = @ - 1]

(***************************************************************************)
(* anon_put and shadow_put (the same code): decrement mmo_refcount; when   *)
(* it equals mmo_nrespages, free the tail resident page and return unless  *)
(* the refcount read after the decrement is 0; with no resident pages and  *)
(* refcount 0, put the shadowed object and free the slot.  Which page is   *)
(* at the tail is immaterial to what follows.                              *)
(***************************************************************************)
RECURSIVE Put(_, _)
Put(m, o) ==
    LET rc  == m[o].rc - 1
        dec == [m EXCEPT ![o].rc = rc]
        sh  == m[o].shadowed
    IN  IF rc # NRes(m, o) THEN dec
        ELSE IF NRes(m, o) > 0 THEN PframeFree(dec, o, Max(Resident(m, o)))
        ELSE [IF sh = Null THEN dec ELSE Put(dec, sh) EXCEPT ![o] = FreeObj]

(* Mutation (the code kept in a comment in vmmap_destroy): a private      *)
(* area's shadowed object is put as well as its own.                      *)
VmmapDestroyPutsShadowed(m, as) ==
    FoldLeft(LAMBDA mm, a :
                IF a.obj = Null THEN mm
                ELSE IF a.flags = "PRIVATE" /\ mm[a.obj].shadowed # Null
                THEN Put(Put(mm, mm[a.obj].shadowed), a.obj)
                ELSE Put(mm, a.obj),
             m, InOrder(as))

(* vmmap_destroy: every area's object is put, in list order.              *)
VmmapDestroy(m, as) ==
    FoldLeft(LAMBDA mm, a : IF a.obj = Null THEN mm ELSE Put(mm, a.obj), m, InOrder(as))

-----------------------------------------------------------------------------
(* Page lookup: the result is <<m, o>>, the objects after the lookup and   *)
(* the object whose frame holds the page.                                  *)

(* The loop of shadow_lookuppage for reading: the first object down the    *)
(* chain from o with page n resident, or Null.                             *)
RECURSIVE FirstResident(_, _, _)
FirstResident(m, o, n) ==
    IF o = Null THEN Null
    ELSE IF m[o].pages[n] # Null THEN o
    ELSE FirstResident(m, m[o].shadowed, n)

RECURSIVE PframeGet(_, _, _), LookupPage(_, _, _, _)

(* anon_fillpage: the new frame is zeroed (and pinned). *)
AnonFillpage(m, o, n) == PframeAdd(m, o, n, 0)

(* shadow_fillpage: the new frame gets a copy of the page that a read     *)
(* lookup of mmo_shadowed finds (and is pinned).                           *)
ShadowFillpage(m, o, n) ==
    LET src == LookupPage(m, m[o].shadowed, n, FALSE)
    IN  PframeAdd(src[1], o, n, src[1][src[2]].pages[n])

(***************************************************************************)
(* pframe_get: a resident page is returned; otherwise a frame is added and *)
(* the object's fillpage fills it.                                         *)
(***************************************************************************)
PframeGet(m, o, n) ==
    IF m[o].pages[n] # Null THEN <<m, o>>
    ELSE <<IF m[o].kind = "anon" THEN AnonFillpage(m, o, n)
           ELSE ShadowFillpage(m, o, n), o>>

(* anon_lookuppage: pframe_get, whether for reading or writing. *)
AnonLookuppage(m, o, n) == PframeGet(m, o, n)

(* Mutation: a write lookup takes the first resident page down the chain, *)
(* as a read does, instead of a copy in the shadow itself.                *)
LookupPageNoCopy(m, o, n, forwrite) ==
    IF m[o].kind = "anon" THEN AnonLookuppage(m, o, n)
    ELSE LET f == FirstResident(m, o, n)
         IN  IF f # Null THEN <<m, f>> ELSE LookupPage(m, BottomObj(m, o), n, FALSE)

(***************************************************************************)
(* The lookuppage entry: anon_lookuppage is pframe_get; shadow_lookuppage  *)
(* for writing is pframe_get on the shadow itself, and for reading the    *)
(* first resident page down the chain, else the bottom object's lookup.    *)
(***************************************************************************)
LookupPage(m, o, n, forwrite) ==
    IF m[o].kind = "anon" THEN AnonLookuppage(m, o, n)
    ELSE IF forwrite THEN PframeGet(m, o, n)
    ELSE LET f == FirstResident(m, o, n)
         IN  IF f # Null THEN <<m, f>> ELSE LookupPage(m, BottomObj(m, o), n, FALSE)

(* What a read through area a at page v returns, without side effects: a  *)
(* page not resident anywhere in the chain is read as zeros.               *)
ReadView(m, a, v) ==
    LET f == FirstResident(m, a.obj, PageOf(a, v))
    IN  IF f = Null THEN 0 ELSE m[f].pages[PageOf(a, v)]

-----------------------------------------------------------------------------
(***************************************************************************)
(* vmmap_remove(map, lo, hi - lo): each area in list order.  Case 1 (the   *)
(* range strictly inside) shrinks the area to [start, lo) and puts         *)
(* [hi, end) in a new area; a private area's two halves get two new        *)
(* shadows of its object, which gains one reference; a shared area's       *)
(* halves share the object.  If a shadow_create fails ("first", "second") *)
(* remove returns -1 with the area already shrunk, and with the first     *)
(* shadow, if made, referenced by nothing.  Case 2 cuts the end, Case 3    *)
(* the start, Case 4 puts the object and drops the area.  The page-table   *)
(* entries of the pages cut off are unmapped.  The result is [m, as, ret,  *)
(* gone, short]: gone the unmapped pages, short when the model has too few *)
(* shadow slots for the call.                                              *)
(***************************************************************************)
Cut(r, old, new, pages) ==
    [r EXCEPT !.as = (@ \ {old}) \cup new, !.gone = @ \cup pages]

RemoveStep(r, a, lo, hi, f) ==
    LET T      == a.obj
        shrunk == [a EXCEPT !.end = lo]
        half2  == [a EXCEPT !.start = hi, !.off = a.off + hi - a.start]
        s1     == Alloc(r.m, Shadows)
        s2     == Alloc(r.m, Shadows \ {s1})
        mk1    == ShadowCreate(r.m, s1, Null, Null)
        m2     == Ref(ShadowCreate(ShadowCreate(r.m, s1, T, BottomObj(r.m, T)),
                                   s2, T, BottomObj(r.m, T)), T)
    IN  IF r.ret < 0 THEN r
        ELSE IF lo > a.start /\ hi < a.end THEN
             IF a.flags = "SHARED"
             THEN [Cut(r, a, {shrunk, half2}, lo .. hi - 1) EXCEPT !.m = Ref(r.m, T)]
             ELSE IF f = "first" THEN [Cut(r, a, {shrunk}, {}) EXCEPT !.ret = -1]
             ELSE IF Cardinality(FreeSlots(r.m, Shadows)) < (IF f = "second" THEN 1 ELSE 2)
             THEN [r EXCEPT !.short = TRUE]
             ELSE IF f = "second"
             THEN [Cut(r, a, {shrunk}, {}) EXCEPT !.ret = -1, !.m = mk1]
             ELSE [Cut(r, a, {[shrunk EXCEPT !.obj = s1], [half2 EXCEPT !.obj = s2]},
                      lo .. hi - 1) EXCEPT !.m = m2]
        ELSE IF lo > a.start /\ lo < a.end /\ hi >= a.end
        THEN Cut(r, a, {[a EXCEPT !.end = lo]}, lo .. a.end - 1)
        ELSE IF lo <= a.start /\ hi > a.start /\ hi < a.end
        THEN Cut(r, a, {[a EXCEPT !.start = hi, !.off = a.off + hi - a.start]},
                 a.start .. hi - 1)
        ELSE IF lo <= a.start /\ hi >= a.end
        THEN [Cut(r, a, {}, a.start .. a.end - 1) EXCEPT !.m = Put(r.m, T)]
        ELSE r

VmmapRemove(m, as, lo, hi, f) ==
    FoldLeft(LAMBDA r, a : RemoveStep(r, a, lo, hi, f),
             [m |-> m, as |-> as, ret |-> 0, gone |-> {}, short |-> FALSE], InOrder(as))

(* pt_unmap_range over a set of pages of p. *)
Unmap(ptp, S) == [v \in VFNs |-> IF v \in S THEN Null ELSE ptp[v]]

(* The pages of p the user can no longer read are given the zero ghost.   *)
Forget(memp, S) == [v \in VFNs |-> IF v \in S THEN 0 ELSE memp[v]]

RemoveFails == IF "remove" \in Fails THEN {"none", "first", "second"} ELSE {"none"}

-----------------------------------------------------------------------------
(* The calls.                                                             *)

(***************************************************************************)
(* do_mmap(lo, hi - lo, PROT_READ|PROT_WRITE, flags|MAP_FIXED|MAP_ANON)    *)
(* and its vmmap_map: a non-empty range is first cleared by vmmap_remove,  *)
(* whose result is not looked at; then anon_create (refcount 1) and for a  *)
(* private mapping a shadow of it, whose failure puts the anon object      *)
(* back; the area starts at page 0 of its object.  Every page of the range *)
(* reads as zeros.                                                         *)
(***************************************************************************)
Mmap(p, lo, hi, prot, flags, f, fmap) ==
    LET rm  == VmmapRemove(mmo, areas[p], lo, hi, f)
        an  == Alloc(rm.m, Anons)
        m1  == AnonCreate(rm.m, an)
        s   == Alloc(m1, Shadows)
        top == IF flags = "PRIVATE" THEN s ELSE an
        m2  == IF flags = "PRIVATE" THEN ShadowCreate(m1, s, an, an) ELSE m1
        ok  == ~fmap
    IN  /\ p \in live
        /\ ~rm.short /\ FreeSlots(rm.m, Anons) # {}
        /\ fmap => flags = "PRIVATE"
        /\ ok /\ flags = "PRIVATE" => FreeSlots(m1, Shadows) # {}
        /\ mmo'   = IF ok THEN m2 ELSE Put(m1, an)
        /\ areas' = [areas EXCEPT ![p] = IF ok THEN rm.as \cup {Area(lo, hi, 0, prot, flags, top)}
                                         ELSE rm.as]
        /\ pt'    = [pt EXCEPT ![p] = Unmap(@, rm.gone)]
        /\ mem'   = [mem EXCEPT ![p] = Forget(@, rm.gone \cup lo .. hi - 1)]
        /\ UNCHANGED live

(* do_munmap(lo, hi - lo): vmmap_remove over the range.                   *)
Munmap(p, lo, hi, f) ==
    LET rm == VmmapRemove(mmo, areas[p], lo, hi, f)
    IN  /\ p \in live /\ ~rm.short
        /\ mmo'   = rm.m
        /\ areas' = [areas EXCEPT ![p] = rm.as]
        /\ pt'    = [pt EXCEPT ![p] = Unmap(@, rm.gone)]
        /\ mem'   = [mem EXCEPT ![p] = Forget(@, rm.gone)]
        /\ UNCHANGED live

(***************************************************************************)
(* The end of a process's address space (proc_cleanup, or proc_kill of     *)
(* the faulting process): vmmap_destroy.                                  *)
(***************************************************************************)
Exit(p) ==
    /\ p \in live
    /\ live'  = live \ {p}
    /\ mmo'   = VmmapDestroy(mmo, areas[p])
    /\ areas' = [areas EXCEPT ![p] = {}]
    /\ pt'    = [pt EXCEPT ![p] = [v \in VFNs |-> Null]]
    /\ mem'   = [mem EXCEPT ![p] = [v \in VFNs |-> 0]]

(* The permission checks of handle_pagefault: the area must be readable,  *)
(* and writable for a write.  (Faults here are never FAULT_RESERVED nor    *)
(* FAULT_EXEC: user code only loads and stores.)                          *)
(* Mutation: a write fault is checked for PROT_READ only. *)
PermittedNoWriteCheck(a, w) == "READ" \in a.prot

Permitted(a, w) == "READ" \in a.prot /\ (w => "WRITE" \in a.prot)

(***************************************************************************)
(* handle_pagefault for an access of p to page v that the page table does *)
(* not allow (no entry, or a write to a read-only entry): with no area, or *)
(* an area whose protection forbids the access, proc_kill ends the process *)
(* (it does not return); otherwise the area's object looks the page up,   *)
(* for writing when the access is a write, and pt_map maps the frame,      *)
(* writable only for a write.                                              *)
(***************************************************************************)
Fault(p, v, w) ==
    LET a == VmmapLookup(p, v)
        r == LookupPage(mmo, a.obj, PageOf(a, v), w)
    IN  /\ p \in live
        /\ IF pt[p][v] = Null THEN TRUE ELSE w /\ ~pt[p][v].w
        /\ IF a = Null \/ ~Permitted(a, w) THEN Exit(p)
           ELSE /\ mmo' = r[1]
                /\ pt'  = [pt EXCEPT ![p][v] = [obj |-> r[2], n |-> PageOf(a, v), w |-> w]]
                /\ UNCHANGED <<live, areas, mem>>

(* Two pages that are one: v of p and u of q in MAP_SHARED areas on the   *)
(* same page of the same object.                                           *)
SharedWith(p, v, q, u) ==
    \E a \in areas[p], b \in areas[q] :
        /\ Covers(a, v) /\ Covers(b, u) /\ a.flags = "SHARED" /\ b.flags = "SHARED"
        /\ a.obj = b.obj /\ PageOf(a, v) = PageOf(b, u)

(***************************************************************************)
(* A store of user code through a writable page-table entry: the frame    *)
(* changes, and so does what p, and every process sharing the page, must  *)
(* read there.                                                             *)
(***************************************************************************)
Store(p, v, val) ==
    LET e == pt[p][v]
    IN  /\ p \in live /\ e # Null /\ e.w
        /\ mmo' = [mmo EXCEPT ![e.obj].pages[e.n] = val]
        /\ mem' = [q \in Procs |-> [u \in VFNs |->
                     IF (q = p /\ u = v /\ VmmapLookup(p, v) # Null) \/ SharedWith(p, v, q, u)
                     THEN val ELSE mem[q][u]]]
        /\ UNCHANGED <<live, areas, pt>>

(***************************************************************************)
(* vmmap_read(p's map, vaddr, buf, count), a copy of user memory into the *)
(* kernel: for each page of the range, vmmap_lookup and a lookup of the    *)
(* area's object for reading (forwrite 0), which may add a zero page to   *)
(* the bottom object; the bytes read are what ReadView gives.  The caller *)
(* has checked that the range is mapped, as the comment requires.         *)
(***************************************************************************)
VmmapRead(p, vaddr, count) ==
    LET Step(m, v) == LET a == VmmapLookup(p, v)
                      IN  LookupPage(m, a.obj, PageOf(a, v), FALSE)[1]
    IN  /\ p \in live
        /\ \A v \in CopyPages(vaddr, count) : VmmapLookup(p, v) # Null
        /\ mmo' = FoldLeft(Step, mmo, SetToSortSeq(CopyPages(vaddr, count), <))
        /\ UNCHANGED <<live, areas, pt, mem>>

(***************************************************************************)
(* vmmap_write(p's map, vaddr, buf, count), a copy from the kernel into    *)
(* user memory: the same loop, looking each page up with forwrite 0 as    *)
(* the code does, and writing val into the frame found when the page gets *)
(* at least one byte; p, and every process sharing a page, must then read *)
(* val on each page of the range.                                          *)
(***************************************************************************)
VmmapWrite(p, vaddr, count, val) ==
    LET Step(m, v) ==
            LET a == VmmapLookup(p, v)
                r == LookupPage(m, a.obj, PageOf(a, v), FALSE)
            IN  IF CopySegment(vaddr, count, v)[2] > 0
                THEN [r[1] EXCEPT ![r[2]].pages[PageOf(a, v)] = val]
                ELSE r[1]
        S == CopyPages(vaddr, count)
    IN  /\ p \in live
        /\ \A v \in S : VmmapLookup(p, v) # Null
        /\ mmo' = FoldLeft(Step, mmo, SetToSortSeq(S, <))
        /\ mem' = [q \in Procs |-> [u \in VFNs |->
                     IF (q = p /\ u \in S) \/ \E v \in S : SharedWith(p, v, q, u)
                     THEN val ELSE mem[q][u]]]
        /\ UNCHANGED <<live, areas, pt>>

(* vmmap_clone: a new map with a copy of every area of the parent, its    *)
(* vma_obj left NULL for do_fork to set.                                   *)
VmmapClone(as) == {[a EXCEPT !.obj = Null] : a \in as}

(* The clone of area a in the clone map as, given the object o. *)
WithObj(as, a, o) == (as \ {[a EXCEPT !.obj = Null]}) \cup {[a EXCEPT !.obj = o]}

(***************************************************************************)
(* fork's address-space part.  vmmap_clone copies the areas with no        *)
(* object.  The first loop gives each private clone a new shadow of the   *)
(* parent area's object (with that object's bottom), each shared clone    *)
(* the object itself, and references the object once either way; the      *)
(* second loop gives each private parent area a new shadow of its object.  *)
(* k1 (k2) is the number of private areas the first (second) loop handles  *)
(* before its shadow_create fails: the clone map is then destroyed, and    *)
(* what the second loop did to the parent stays.  On success the parent's  *)
(* page table is cleared and the child starts with an empty one.          *)
(***************************************************************************)
(* Mutation: the child's shadow is not counted on the parent's object.    *)
NewShadowsNoRef(r, a, k1) ==
    LET s == Alloc(r.m, Shadows)
    IN  IF r.stop THEN r
        ELSE IF a.flags = "SHARED"
        THEN [r EXCEPT !.m = Ref(@, a.obj), !.new = WithObj(@, a, a.obj)]
        ELSE IF r.np = k1 THEN [r EXCEPT !.stop = TRUE]
        ELSE [r EXCEPT !.m = ShadowCreate(@, s, a.obj, BottomObj(@, a.obj)),
                       !.new = WithObj(@, a, s), !.np = @ + 1]

(* Mutation: the child's shadow takes the parent's object as its bottom.  *)
NewShadowsBottomIsShadowed(r, a, k1) ==
    LET s == Alloc(r.m, Shadows)
    IN  IF r.stop THEN r
        ELSE IF a.flags = "SHARED"
        THEN [r EXCEPT !.m = Ref(@, a.obj), !.new = WithObj(@, a, a.obj)]
        ELSE IF r.np = k1 THEN [r EXCEPT !.stop = TRUE]
        ELSE [r EXCEPT !.m = Ref(ShadowCreate(@, s, a.obj, a.obj), a.obj),
                       !.new = WithObj(@, a, s), !.np = @ + 1]

NewShadows(r, a, k1) ==
    LET s == Alloc(r.m, Shadows)
    IN  IF r.stop THEN r
        ELSE IF a.flags = "SHARED"
        THEN [r EXCEPT !.m = Ref(@, a.obj), !.new = WithObj(@, a, a.obj)]
        ELSE IF r.np = k1 THEN [r EXCEPT !.stop = TRUE]
        ELSE [r EXCEPT !.m = Ref(ShadowCreate(@, s, a.obj, BottomObj(@, a.obj)), a.obj),
                       !.new = WithObj(@, a, s), !.np = @ + 1]

OldShadows(r, a, k2) ==
    LET s == Alloc(r.m, Shadows)
    IN  IF r.stop \/ a.flags = "SHARED" THEN r
        ELSE IF r.np = k2 THEN [r EXCEPT !.stop = TRUE]
        ELSE [r EXCEPT !.m = ShadowCreate(@, s, a.obj, BottomObj(@, a.obj)),
                       !.as = (@ \ {a}) \cup {[a EXCEPT !.obj = s]}, !.np = @ + 1]

Fork(p, c, k1, k2) ==
    LET L     == InOrder(areas[p])
        npriv == Cardinality({a \in areas[p] : a.flags = "PRIVATE"})
        r1 == FoldLeft(LAMBDA r, a : NewShadows(r, a, k1),
                       [m |-> mmo, new |-> VmmapClone(areas[p]), np |-> 0, stop |-> FALSE], L)
        r2 == FoldLeft(LAMBDA r, a : OldShadows(r, a, k2),
                       [m |-> r1.m, as |-> areas[p], np |-> 0, stop |-> FALSE], L)
    IN  /\ p \in live /\ c \notin live
        /\ k1 \in 0 .. npriv /\ k2 \in 0 .. npriv
        /\ k1 < npriv => "fork_new" \in Fails /\ k2 = npriv
        /\ k2 < npriv => "fork_old" \in Fails
        /\ Cardinality(FreeSlots(mmo, Shadows)) >= k1 + (IF k1 < npriv THEN 0 ELSE k2)
        /\ IF r1.stop
           THEN /\ mmo' = VmmapDestroy(r1.m, r1.new)
                /\ UNCHANGED <<live, areas, pt, mem>>
           ELSE IF r2.stop
           THEN /\ mmo'   = VmmapDestroy(r2.m, r1.new)
                /\ areas' = [areas EXCEPT ![p] = r2.as]
                /\ UNCHANGED <<live, pt, mem>>
           ELSE /\ mmo'   = r2.m
                /\ live'  = live \cup {c}
                /\ areas' = [areas EXCEPT ![p] = r2.as, ![c] = r1.new]
                /\ pt'    = [pt EXCEPT ![p] = [v \in VFNs |-> Null]]
                /\ mem'   = [mem EXCEPT ![c] = mem[p]]

-----------------------------------------------------------------------------
Init ==
    /\ mmo   = [o \in Objs |-> FreeObj]
    /\ live  = {Init1}
    /\ areas = [p \in Procs |-> {}]
    /\ pt    = [p \in Procs |-> [v \in VFNs |-> Null]]
    /\ mem   = [p \in Procs |-> [v \in VFNs |-> 0]]
    /\ forks = 0

Next ==
    \E p \in Procs :
        \/ /\ \/ \E r \in MapRanges, fl \in {"PRIVATE", "SHARED"}, f \in RemoveFails,
                    fm \in IF "map" \in Fails THEN BOOLEAN ELSE {FALSE}, pr \in Prots :
                    Mmap(p, r[1], r[2], pr, fl, f, fm)
              \/ \E r \in UnmapRanges, f \in RemoveFails : Munmap(p, r[1], r[2], f)
              \/ \E v \in VFNs, w \in BOOLEAN : Fault(p, v, w)
              \/ \E v \in VFNs, val \in Vals : Store(p, v, val)
              \/ \E c \in CopyArgs : VmmapRead(p, c[1], c[2])
              \/ Exit(p)
           /\ UNCHANGED forks
        \/ /\ forks < MaxForks /\ forks' = forks + 1
           /\ \E c \in Procs, k1, k2 \in 0 .. NPAGES : Fork(p, c, k1, k2)

Spec == Init /\ [][Next]_vars

(* The system with the kernel also copying into user memory, as the       *)
(* system calls that return data do.                                       *)
KernelWrite ==
    /\ \E p \in Procs, c \in CopyArgs, val \in Vals : VmmapWrite(p, c[1], c[2], val)
    /\ UNCHANGED forks

KernelWriteSpec == Init /\ [][Next \/ KernelWrite]_vars

-----------------------------------------------------------------------------
(***************************************************************************)
(* Types, and the bound the specification puts on every object: its       *)
(* refcount is at least its number of resident pages (those hold one      *)
(* reference each), so the puts of vmmap_destroy and vmmap_remove never   *)
(* take an object below its own pages.                                    *)
(***************************************************************************)
TypeOK ==
    /\ live \subseteq Procs
    /\ \A o \in Objs :
          /\ mmo[o].kind \in {"free", "anon", "shadow"}
          /\ mmo[o].shadowed \in Objs \cup {Null} /\ mmo[o].bottom \in Objs \cup {Null}
          /\ mmo[o].pages \in [PageNo -> Vals \cup {0, Null}]
          /\ mmo[o].rc \in Nat /\ mmo[o].rc >= NRes(mmo, o)
    /\ \A p \in Procs :
          /\ \A a \in areas[p] : a.obj \in Allocated(mmo) /\ a.prot \in Prots
          /\ \A v \in VFNs : pt[p][v] = Null \/ pt[p][v].obj \in Objs
          /\ mem[p] \in [VFNs -> Vals \cup {0}]

(* The references an object has: areas that map it, live objects that     *)
(* shadow it, and its resident pages.                                      *)
Holders(o) ==
    Cardinality({<<p, a>> \in Procs \X UNION {areas[q] : q \in Procs} :
                    a \in areas[p] /\ a.obj = o})
    + Cardinality({s \in Allocated(mmo) : mmo[s].shadowed = o})
    + NRes(mmo, o)

(***************************************************************************)
(* mmo_refcount counts exactly the references held on the object: by the   *)
(* areas (vmmap_map, the two loops of fork, the split of vmmap_remove), by *)
(* the shadows above it, and by its pages; so the put that makes it equal  *)
(* to the resident pages is the last one from outside.                    *)
(***************************************************************************)
RefcountExact == \A o \in Allocated(mmo) : mmo[o].rc = Holders(o)

(***************************************************************************)
(* Copy-on-write isolation (the specification's fork scenarios): at every  *)
(* page of its areas a process reads what it and the processes sharing the *)
(* page stored there, or what its parent had at the fork, whether the      *)
(* page table maps a frame (which must still be resident) or a fault will  *)
(* look the page up down the chain; so no write of one process after a     *)
(* fork reaches another through a shared lower object.                     *)
(***************************************************************************)
CowIsolation ==
    \A p \in live, v \in VFNs :
        LET a == VmmapLookup(p, v)
            e == pt[p][v]
        IN  a # Null =>
              /\ e # Null => mmo[e.obj].pages[e.n] = mem[p][v]
              /\ ReadView(mmo, a, v) = mem[p][v]

(* The objects of the chain from o down. *)
RECURSIVE ChainOf(_)
ChainOf(o) == IF o = Null THEN {} ELSE {o} \cup ChainOf(mmo[o].shadowed)

InChains == UNION {ChainOf(a.obj) : a \in UNION {areas[p] : p \in Procs}}

(***************************************************************************)
(* The chains of the areas are well formed: every object in one is live    *)
(* and ends at an anon object, which is the cached bottom of every shadow  *)
(* in it, the object a read that finds no resident page asks for the page. *)
(***************************************************************************)
ChainsWellFormed ==
    \A o \in InChains :
        /\ o \in Allocated(mmo)
        /\ mmo[o].kind = "shadow" =>
              /\ mmo[o].shadowed # Null
              /\ mmo[o].bottom \in ChainOf(o) /\ mmo[mmo[o].bottom].kind = "anon"

(***************************************************************************)
(* The specification's termination rule for refcounts: an object whose     *)
(* last outside reference is put (refcount down to its resident pages) is *)
(* freed with its pages and puts what it shadows; so every live object is  *)
(* in the chain of some area.                                              *)
(***************************************************************************)
UnreachableFreed == Allocated(mmo) \subseteq InChains

(* The copies a live process can ask of the kernel: a range it has mapped *)
(* (the callers check this before vmmap_read and vmmap_write).            *)
Copyable(p, c) == p \in live /\ \A v \in CopyPages(c[1], c[2]) : VmmapLookup(p, v) # Null

(***************************************************************************)
(* The page loop of vmmap_read and vmmap_write copies no byte outside     *)
(* [vaddr, vaddr + count): for every copy a process can ask for, it       *)
(* neither overruns the kernel buffer nor touches user memory beyond the   *)
(* range, at any offset and count.                                         *)
(***************************************************************************)
CopyWithinRange ==
    \A p \in Procs, c \in CopyArgs :
        Copyable(p, c) => CopiedBytes(c[1], c[2]) \subseteq c[1] .. c[1] + c[2] - 1

(***************************************************************************)
(* The comment of vmmap_read (its example: vaddr 02, count 7, one byte on *)
(* the last page): the loop copies exactly the count bytes from vaddr.     *)
(***************************************************************************)
CopyExact ==
    \A p \in Procs, c \in CopyArgs :
        Copyable(p, c) => CopiedBytes(c[1], c[2]) = c[1] .. c[1] + c[2] - 1

(***************************************************************************)
(* A page-table entry maps only what the area now at its page allows: it  *)
(* is writable only under an area with PROT_WRITE and readable only under *)
(* one with PROT_READ.  handle_pagefault checks vma_prot when it maps; the *)
(* entry must not outlive the area it was checked against, so mmap over    *)
(* it or munmap (pt_unmap_range in vmmap_remove), fork (the parent's page  *)
(* table cleared, the child's empty) and exit must all drop it.            *)
(***************************************************************************)
MappingsPermitted ==
    \A p \in live, v \in VFNs :
        pt[p][v] # Null =>
            LET a == VmmapLookup(p, v)
            IN  /\ a # Null /\ "READ" \in a.prot
                /\ pt[p][v].w => "WRITE" \in a.prot

====

# TLA+ models of the Weenix kernel (kernel_3)

This directory holds TLA+ specifications of the kernel under `src/kernel`,
the TLC configurations that check them, and `PROJECT.json`, which maps every
definition to the lines of C it models and lists the runs, mutants, findings
and hazards.

## The system

The kernel has three layers that interact:

* **Processes and threads** (`proc/`).
  * `kthread.c` creates, cancels, exits and clones threads. The
    cooperative single-CPU scheduler `sched.c` is not part of the sources.
  * `kmutex.c` is the kernel mutex, with direct handoff to the first waiter.
  * `proc.c` holds the process table, the parent/children tree, exit and
    reparenting to init, `do_waitpid` and `proc_kill_all`.
  * `fork.c` copies a process: its thread, its address space with
    copy-on-write shadow objects, its files.
  * Weenix runs one thread per process.
* **Virtual memory** (`vm/`).
  * `vmmap.c` is the sorted list of vmareas of an address space.
  * `anon.c` and `shadow.c` are the memory objects and their copy-on-write
    chains.
  * `mmap.c` and `brk.c` are the system calls that change the map.
  * `pagefault.c` resolves user faults through the chain.
* **Virtual file system** (`fs/`).
  * `namev.c` resolves path names to vnodes.
  * `open.c` and `vfs_syscall.c` are the descriptor table and the file
    system calls.
* **Boot** (`main/kmain.c`).
  * The idle process creates init.
  * Idle waits for init in `do_waitpid(-1)` and halts the machine when
    it has reaped init.
  * Init runs the tests or the kernel shell.

## Modules

| Module | Models | State | Actions |
|---|---|---|---|
| `KThread` | the scheduler (from the specification) and `kthread_cancel`, `kthread_exit` | one record `sched`: `curthr`, `runq`, `state`, `wchan`, `wq`, `cancelled` | operators on the record: `MakeRunnable`, `Switch`, `SleepOn`, `WakeupOn`, `SchedCancel`, `KthreadCancel`, `KthreadExit` |
| `Proc` | `proc.c`, the process part of `do_fork`, and `idleproc_run` as the initial state | `procs`, `plist` (`_proc_list`), `pid`, `pstate`, `pstatus`, `pproc`, `children`, `nextPid`, `initproc`, `pc`, `waitArg`, `halted`, plus `sched` | `Fork`, `Exit`, `KillAll`, `Waitpid`, `WaitpidResume`, `Yield` of each thread |
| `Mutex` | the abstract mutex of the specification: one holder and a FIFO of waiters | `holder`, `queue` | `Acquire`, `Wait`, `Release`, `Abandon` |
| `KMutex` | `kmutex.c` on the scheduler, with threads that cancel each other and yield | `sched`, `holder` (`km_holder`), `pc` | `KmutexLock`, `KmutexLockCancellable`, `LockReturns`, `KmutexUnlock`, `Cancel`, `Yield` |
| `VmMap` | `vmmap.c` (insert, find_range, lookup, is_range_empty, remove, map), `do_mmap`, `do_munmap`, `do_brk` over one address space | `areas` (`vmm_list` as a sequence of vmarea records), `brk` (`p_brk`), `panic`, and the history variable `op` | `DoMmap`, `DoMunmap`, `DoBrk`; the `vmmap_*` functions are operators on the list |
| `FdTable` | `open.c` and the descriptor calls of `vfs_syscall.c`, the file-table copy of `do_fork` and the closing loop of `proc_cleanup` | `alive`, `pfiles` (`p_files` of each process), `ft` (`f_refcount`, `f_mode`, `f_vnode`, `f_pos` of each `file_t`), `vref`, `vlen`, `pending` (a read or write asleep in the vnode), `panic`, `op` | `DoOpen`, `DoClose`, `DoDup`, `DoDup2`, `DoReadCall`/`DoReadReturn`, `DoWriteCall`/`DoWriteReturn`, `DoLseek`, `DoGetdent`, `DoFork`, `DoExit` |
| `Namev` | `namev.c` (`lookup`, `dir_namev`, `open_namev`) and the path calls of `vfs_syscall.c`, with the part of `do_open` around `open_namev`, and the cwd and file-table parts of `proc_create`, `do_fork` and `proc_cleanup` | `mode`, `ents` (the entries of each directory), `nlink`, `vref`, `live` (the processes that exist), `cwd` (`p_cwd`), `file` (the file of each process's one descriptor), `fvn` and `fcnt` (`f_vnode` and `f_refcount` of each `file_t`), `renaming` (a rename between its halves), `op` | `DoMknod`, `DoMkdir`, `DoRmdir`, `DoUnlink`, `DoLink`, `DoRenameLink`/`DoRenameUnlink`, `DoChdir`, `DoStat`, `DoOpen`, `DoClose`, `Fork`, `Exit`; `Lookup`, `DirNamev` (with the RECURSIVE `Walk`) and `OpenNamev` are operators |
| `Shadow` | `anon.c`, `shadow.c`, `handle_pagefault`, `vmmap_destroy`, the object side of `vmmap_map` and `vmmap_remove`, `do_munmap`, `vmmap_read` and `vmmap_write`, the address-space part of `do_fork` and the `vmmap_destroy` of `proc_cleanup`, over several processes | `mmo` (each object's kind, `mmo_refcount`, `mmo_shadowed`, bottom object and resident pages with their contents), `live`, `areas` (the vmareas of each process), `pt` (page-table entries), the ghost `mem`, and the bound counter `forks` | `Mmap`, `Munmap`, `Fault`, `Store`, `VmmapRead`, `Fork`, `Exit`, and `VmmapWrite` in `KernelWriteSpec`; `Put` (RECURSIVE), `LookupPage`/`PframeGet`/`ShadowFillpage` (mutually recursive), `VmmapClone`, `VmmapRemove` and `VmmapDestroy` are operators |
| `MCProc`, `MCKMutex`, `MCVmMap`, `MCFdTable`, `MCNamev`, `MCShadow` | model values, definitions and symmetry sets for TLC | | |

The scheduler state is one record, so a handler that changes several queues
is written as one composition of operators, in the order the C calls them.
For example, exit is `Switch(WakeParent(KthreadExit(s), parent))`: mark the
thread EXITED, wake the parent in `proc_cleanup`, then `sched_switch`.

Every action is a whole handler, up to the point where its thread gives up
the CPU:

* **`Fork`** is `proc_create`, `kthread_clone`, `sched_make_runnable` and
  the copy of `p_status`.
* **`Exit`** is `do_exit`, `kthread_exit`, `proc_cleanup` and
  `sched_switch`.
* **`Waitpid`** is one pass of the `do_waitpid` loop. It either reaps the
  first matching zombie in `p_children` order, or sleeps on `p_wait`.
* **`WaitpidResume`** is the next pass of that loop after the wakeup.

The thread of a process is the slot of that process, and `p_wait` of process
`p` is wait queue `p`.

Other abstractions:

* Pids keep their real range, `0..PROC_MAX_COUNT-1`. `_proc_getid` is a
  RECURSIVE operator with the wrap of `next_pid` and the `-1` result.
* Names, stacks, page directories and contexts are left out. No property
  distinguishes them.

### The address space (`VmMap`)

A vmarea is a record `[start, end, off, flags, obj]` in pages, and the map
is the sequence of them in list order.

* **Operators.** Each `vmmap_*` function is an operator from a list to a
  list (and a result), written from the C:
  * `VmmapRemove` folds `RemoveStep` over the areas, using the four cases of
    the code.
  * `VmmapMap` is the removal of a fixed range, `find_range`, the area
    allocation, `anon_create` and the `vmmap_insert` of the new area.
* **Actions.** Each system call is one action: `DoMmap`, `DoMunmap` and
  `DoBrk`.
* **Memory objects.** A memory object is just an identity, either the
  executable's vnode or an anon object. `anon_create` returns the lowest
  identity no area uses.
* **Allocation failures.** Each allocation that can fail is a named point,
  and the constant `Fails` says which points may fail in a run.
* **Panics.** A `KASSERT` or a NULL dereference in a call sets `panic` and
  stops the system.
* **`op`.** It records the call, result and page range of the last step, so
  that the action properties can talk about them. The cfgs leave it out of
  the state fingerprint (`VIEW StateView`), which is sound because no step
  reads it.

### The descriptor tables (`FdTable`)

* **Processes.** Several processes share `file_t` structures through fork.
* **fget and fput.** `fget`, `fref` and `fput` live in `fs/file.c`, which
  is not in the sources. They are written from the specification:
  * `fget(-1)` takes a free `file_t` with one reference;
  * `fget(fd)` takes one more;
  * `fput` drops one, and at zero it puts the vnode and frees the file.

  Each call then performs the C's own sequence of `fget` and `fput`.
  `do_close`, for example, is `fget`, clear the slot, `fput`, `fput`.
* **Sleeping vnode operations.** The vnode read and write may sleep on a
  busy page frame. `do_read` and `do_write` are therefore two actions
  each:
  * the call, which takes the reference and passes the current `f_pos`;
  * the return, which advances `f_pos`, checks the `KASSERT` and puts the
    reference.

  Other processes run in between.
* **Vnode operations.** A regular file's read returns the bytes up to the
  end of the file. A write extends the file.
* **Abstraction.** Buffers and file contents are left out; only lengths
  and positions are kept.

### Memory objects and copy-on-write (`Shadow`)

* **Objects.** `mmo` is a function from allocator slots to records. The
  anon slots and the shadow slots are integers, so that the slab allocator
  (`Alloc`) can hand out the lowest free one. `AnonCreate`,
  `ShadowCreate`, `Ref` and `Put` are written from `anon.c` and
  `shadow.c`; `anon_put` and `shadow_put` are the same code, so `Put` is
  one RECURSIVE operator that puts the shadowed object when it frees one.
* **Pages.** `pframe.c` is not in the sources. Following the
  specification, a resident page holds one reference on its object:
  `pframe_get` of a missing page adds one (`PframeAdd`) and `pframe_free`
  drops it (`PframeFree`). This is why `*_put` compares the refcount with
  `mmo_nrespages`.
* **Lookup.** `LookupPage` is `shadow_lookuppage`: for a write it gets the
  page from the top object (whose `shadow_fillpage` copies it from below),
  and for a read it takes the first object down the chain with the page
  resident, else asks the bottom object. `AnonLookuppage` is
  `anon_lookuppage`, which is `pframe_get` for reads and writes alike.
  `PframeGet` adds the missing frame and calls the object's fillpage:
  `AnonFillpage` zeroes it and `ShadowFillpage` copies what a read lookup
  of the shadowed object finds.
* **Fault.** `Fault` is `handle_pagefault` for an access the page table
  does not allow: no area, or an area whose `vma_prot` lacks PROT_READ,
  or PROT_WRITE for a write (`Permitted`), kills the process
  (`proc_kill(curproc)`, which does not return, is `Exit`); otherwise the page is looked up, for writing if the access
  is a write, and mapped writable only then. `Store` is the user's write
  through a writable entry.
* **Fork.** `Fork` is the address-space part of `do_fork`. It starts from
  `VmmapClone`, which copies every area with a NULL object, and each loop
  step sets the clone's object (`WithObj`). A failed fork's
  `vmmap_destroy` skips the clones that still have no object, as the code's
  NULL test does. `NewShadows`
  is the first loop (a new shadow over each private area's object for the
  child, the same object for a shared one, and one `ref` either way),
  `OldShadows` the second (a new shadow for each private area of the
  parent). `k1` and `k2` say how many `shadow_create`s of each loop
  succeed before one returns NULL: the child's map is then destroyed and
  `do_fork` returns -1, after the second loop with the parent's earlier
  areas already moved onto their new shadows. On success the parent's
  page table is cleared (`pt_unmap_range`) and the child gets the map.
* **Kernel copies.** `VmmapRead` and `VmmapWrite` are the loops of
  `vmmap_read` and `vmmap_write` over the pages of a byte range
  (`CopyArgs`, with `PAGE_SIZE`-byte pages): for each page the area's
  object is looked up with `forwrite` 0, as the code does, and the number
  of bytes copied there is `CopySegment`, the code's arithmetic for the
  first, middle and last page. Pages hold one value, so a kernel write
  gives every page that gets a byte the value written. `VmmapRead` is in
  `Next`; `VmmapWrite` only in `KernelWriteSpec`, the specification with
  system calls copying data out to user buffers.
* **The ghost `mem`.** It is what each process must read at each page:
  a store or a kernel write sets it for the process and for every process
  that maps the same page of the same object through a shared area; a
  fork copies it to the child; an unmapped page reads 0 again.

## Runs

| Run | Config | Checks | Result |
|---|---|---|---|
| `proc_safety` | `MCProc.cfg` | `TypeOK`, `ProcTreeConsistent`, `PidsValid`, `CpuNeverHangs`, `SchedOK`, `ReapOnlyZombies` | passes (173,069 states) |
| `proc_reparent_no_wakeup` | `MCProcReparent.cfg` | `WaitpidReturns` | violated: a code bug |
| `kmutex_safety` | `MCKMutex.cfg` | `MutualExclusion`, `Refinement` (`KMutex` implements `Mutex`) | passes |
| `kmutex_cancel_after_handoff` | `MCKMutexCancel.cfg` | `LockResultTruthful` | violated: a code bug |
| `vm_safety` | `MCVmMap.cfg` | `TypeOK`, `AreasWellFormed`, `FindRangeFirstFit`, `MunmapExact`, `MmapExact`, `BrkMapsBand` | passes (31,220 states) |
| `fd_safety` | `MCFdTable.cfg` | `TypeOK`, `RefCountsExact`, `VnodeRefsExact`, `ErrorsLeaveNoTrace` | passes (291,834 states) |
| `fd_write_race` | `MCFdTableWrite.cfg` | `WriteWithinLength` | violated: a code bug |
| `namev_safety` | `MCNamev.cfg` | `TypeOK`, `RefsExact`, `NamespaceIsTree`, `HeldVnodesAllocated` | passes (44,436 states) |
| `namev_long_name_leak` | `MCNamevLong.cfg` | `RefsExact` | violated: a code bug |
| `shadow_safety` | `MCShadow.cfg` | `TypeOK`, `RefcountExact`, `CowIsolation`, `ChainsWellFormed`, `CopyWithinRange`, `MappingsPermitted` | passes (219,800 states, about 2 minutes) |
| `shadow_put_leak` | `MCShadowLeak.cfg` | `UnreachableFreed` | violated: a code bug |
| `shadow_kernel_write` | `MCShadowWrite.cfg` | `CowIsolation` | violated: a code bug |

### Path names (`Namev`)

* **Paths.** A path is what `dir_namev` makes of the string: whether it
  starts with `/`, and its components once runs of `/` are collapsed and
  trailing `/` dropped. The string of slashes only (`RootPath`) and the
  empty string (`EmptyPath`) are kept, since `dir_namev` treats them
  apart. mknod, unlink, the new name of link and rename never get
  `RootPath`: they pass its NULL name on to `lookup`, whose
  `KASSERT(NULL != name)` (`namev.c:34`) panics the kernel, an ending the
  model leaves out. A component is a short name, `.`, `..`, or a name longer than
  `NAME_LEN` (`LongNames`).
* **`dir_namev`.** Its component loop is the RECURSIVE `Walk`, with
  `needToDecrease` as the argument `held`. A result records the error and
  the vnode whose reference the error path still holds, or the parent it
  holds and the basename.
* **Reference counts.** Each call computes the net change its exit path
  makes to each `vn_refcount` (the lookups, `vref`s and `vput`s in the
  code's order), and `Commit` applies it. An inode with no links and no
  references is freed.
* **The file system below.** `s5fs` is not in the sources. Its lookup,
  create, mknod, mkdir, rmdir, unlink and link are written from the
  specification (see the module header). An operation that adds an entry
  to a removed directory fails with `ENOENT`, and allocation fails with
  `ENOSPC` when no inode is free.
* **Steps.** Every call is one step, except `do_rename`. It is two steps,
  `do_link` then `do_unlink`, as the code writes it, and other processes
  run in between.
* **Abstraction.** `do_open` is modelled for the `fget` of a free
  `file_t` (`-ENOMEM` when none is free) and its `open_namev` part,
  read-only. `FdTable` models the table itself. Each process has one
  descriptor.
* **Processes.** `Fork` is what `proc_create` and `do_fork` do to the VFS
  state. The child gets the parent's `p_cwd` with a `vref`, and shares the
  parent's open file with an `fref` (`ForkFiles`). `Exit` is the VFS part
  of `proc_cleanup`: it closes the descriptor (`Fput`: the last put
  `vput`s `f_vnode`), then `vput`s the cwd and sets it to NULL. Like every
  call, it ends in `Commit`, which frees an inode left with no links and no
  references. The initial state is `idleproc_run`'s: each process's cwd is
  the root, with one `vref` per process.

What the properties say:

* **`ProcTreeConsistent`**
  * `_proc_list` holds exactly the allocated processes, each once.
  * Every children list holds live processes whose `p_pproc` is the owner
    of the list.
  * A child with a live parent is on that parent's list.
* **`CpuNeverHangs`**: the CPU never idles with an empty run queue before
  the halt. A lost wakeup of a parent in `do_waitpid` shows up here.
* **`ReapOnlyZombies`** is an action property. A process is freed only by
  its own parent, and only when it is DEAD with its thread EXITED.
* **`AreasWellFormed`**: the vmareas are non-empty, inside the user range,
  ascending and disjoint, through every sequence of calls.
* **`FindRangeFirstFit`**: on every reachable map and for every size,
  `vmmap_find_range` returns the lowest (LOHI) or highest (HILO) free start,
  compared with a direct definition over the set of free pages.
* **`MunmapExact` and `MmapExact`** are action properties over the
  page-to-(object, object page) function the map defines.
  * A successful munmap removes exactly its pages.
  * A successful mmap maps its range from page 0 of one object, and a fresh
    anon object backs nothing else.
  * Every other page keeps its object page. This checks the `vma_off`
    updates in the splits and trims of `vmmap_remove`.
* **`BrkMapsBand`**: a successful brk leaves the pages below
  `p_start_brk`'s page and above both breaks as they were.
* **`BrkExact`** is the stronger property: it also requires that the pages
  below the old break stay as they were.
* **`RefsExact`** (`Namev`):
  * every `file_t`'s `f_refcount` is the number of descriptors naming it;
  * every vnode's reference count is the VFS's hold on the root, plus the
    live processes whose cwd it is, plus the open files of it.

  It holds after every call, on every error path, and across fork and
  exit.
* **`HeldVnodesAllocated`** (`Namev`): the cwd of a live process and the
  vnode of an open file are never freed. This is the use-after-free
  question for a directory that one process removes while others work in
  it (`vfs_syscall.c:575`). The inode is freed by whichever of `chdir`,
  `close` and `exit` drops the last reference. A `proc_create` that copied
  `p_cwd` without its `vref` breaks it in six steps. The first process
  makes a directory and `chdir`s into it; the second removes it and exits;
  the first forks into the free slot and `chdir`s away, which frees the
  child's cwd.
* **`NamespaceIsTree`** (`Namev`):
  * the directories form a tree rooted at `vfs_root_vn`, each named by
    exactly one entry of its `..` directory, with `.` naming itself;
  * every link count is the number of entries that name the inode;
  * no inode is left with neither links nor references.

  This depends on the VFS-level checks: `EISDIR` in `do_link`, and the
  mode read in `do_unlink`. It also depends on the `.` and `..` checks in
  `do_rmdir`.
* **`RefcountExact`** (`Shadow`): every live object's `mmo_refcount` is
  the number of areas that map it, plus the live shadows directly above
  it, plus its resident pages, through every mmap, munmap, fault, fork
  (and failed fork) and exit. `TypeOK` adds that it is never below the
  resident pages.
* **`CowIsolation`** (`Shadow`): at every page of its areas a process
  reads what `mem` says, both through a mapped frame and through the
  lookup a fault would do. A write of a parent after fork that reached
  the child through a shared lower object, or a stale writable entry,
  breaks it.
* **`ChainsWellFormed`** (`Shadow`): every object reachable from an area
  is allocated, and every shadow in a chain has a shadowed object and
  caches as its bottom the anon object at the end of its own chain.
* **`CopyWithinRange`** (`Shadow`): for every range a live process has
  mapped, the page loop of `vmmap_read` and `vmmap_write` copies no byte
  outside `[vaddr, vaddr + count)`, so it overruns neither the kernel
  buffer nor the user's memory.
* **`MappingsPermitted`** (`Shadow`): every page-table entry of a live
  process lies under an area with PROT_READ, and a writable one under an
  area with PROT_WRITE. `handle_pagefault` checks `vma_prot` only when it
  maps, so the property holds only if every entry dies with the area it
  was checked against: `vmmap_remove`'s `pt_unmap_range` on munmap and on
  mmap over a range, the cleared page tables of fork, and exit. A fault
  that skipped the write check, or a munmap that left the page table
  alone, breaks it.
* **`UnreachableFreed`** (`Shadow`): the specification's rule that an
  object whose last outside reference is put is freed with its pages,
  stated as: every allocated object is in the chain of some area.
* **`Refinement`**: `km_holder` and `km_waitq`, mapped onto the abstract
  holder and queue, make every step of the kernel mutex a step of `Mutex`.

Every property of a passing run has a mutant in `PROJECT.json`: a plausible
bug in the modelled code, under which TLC finds that property violated.

### Findings

1. **A zombie moved to init does not wake init** (`proc.c:244`).
   * `proc_cleanup` wakes one waiter on the p_wait of the exiting
     process's own parent (`proc.c:240`). Then it moves the children of
     the exiting process to the tail of init's children, and does not
     wake init.
   * Init asleep in `do_waitpid(-1)` therefore keeps sleeping with a zombie
     child. It wakes only when one of its own children exits. Until then
     the zombie stays unreaped and init blocked, even with every thread
     scheduled fairly.
   * Trace (`MCProcReparent.cfg`, three forkable slots):
     1. Init forks f1, f1 forks f2, and f2 forks f3.
     2. Init and f1 block in `do_waitpid`.
     3. f3 exits.
     4. f2 calls `proc_kill_all`, which ends with f2's own `do_exit`.
        f3, now a zombie, moves to init, and only f1 is woken.
     5. f1 reaps f2, and f1 and a new child yield forever.
     6. Init never returns.
2. **`kmutex_lock_cancellable` returns `-EINTR` while holding the mutex**
   (`kmutex.c:96`).
   * It returns the result of `sched_cancellable_sleep_on` unconditionally.
   * A waiter that is cancelled and also handed the mutex by
     `kmutex_unlock` reports failure as `km_holder`.
   * This follows the specification's `sched_cancellable_sleep_on`, which
     returns `-EINTR` whenever `kt_cancelled` is set.

3. **A kernel copy-out after fork writes the other process's memory**
   (`vmmap.c:840`).
   * `vmmap_write` calls `pframe_lookup` with `forwrite` 0.
   * The read lookup returns the first resident frame down the shadow
     chain, or a new zero page of the bottom object. Both are shared with
     the other process after fork; only a write lookup would copy the
     page into the area's own shadow.
   * Trace: a private mmap, a fork, and `vmmap_write` into page 0 of one
     process. The other process then reads the value written.
4. **The last put of an object with resident pages leaks it**
   (`shadow.c:139`, `anon.c:118`).
   * `*_put` decrements the refcount; when it then equals the resident
     pages, the loop frees the tail page and returns, because the
     refcount it read is not 0.
   * The object, its other pages and the objects it shadows stay
     allocated with no area left to reach them.
   * Trace: a shared anonymous mmap, one read fault, exit.
5. **The `do_write` assertion fails under a race** (`vfs_syscall.c:141`).
   * `do_write` passes the current `f_pos` to the vnode write, which may
     sleep.
   * After the write it adds `bytes_written` to whatever `f_pos` is then.
   * A process that shares the file through fork can `lseek` past the end
     in between. `f_pos` then ends beyond `vn_len`, and the `KASSERT` at
     `vfs_syscall.c:145` panics the kernel.

6. **`dir_namev` leaks a reference on a long middle component**
   (`namev.c:201`).
   * The component loop returns `-ENAMETOOLONG` without the
     `vput(curPathBase)` that its lookup error path does.
   * After `mknod("a")`, `mknod("a/L/b")` leaves the vnode of `a` with a
     reference nobody holds, so it is never freed.
   * Every path call goes through `dir_namev`, so any of them leaks this
     way.

More defects are recorded as hazards in `PROJECT.json` rather than as
runs, because the project keeps its violation runs for defects a test
would hardly reach:

* **brk grows over a user mapping** (`brk.c:132`).
  * `do_brk` treats `prev_vma == start_vma` as "no heap yet".
  * After a `MAP_FIXED` mmap over the heap pages, the next growth maps the
    heap again from `p_start_brk`. This replaces user pages below the old
    break.
  * `BrkMapsBand` holds. With `Sources <- MCAllSources` and
    `PROPERTY BrkExact` in `MCVmMap.cfg`, TLC finds brk, a `MAP_FIXED`
    mmap of the executable over the heap, and brk again.
* **The kernel copies drop the last byte** (`vmmap.c:782`, `vmmap.c:869`).
  * On the last page of a range that spans pages, the loops of
    `vmmap_read` and `vmmap_write` copy `last_vaddr - PN_TO_ADDR(last_vfn)`
    bytes, one fewer than the bytes up to `last_vaddr`. The comment's own
    example (from address 02, 7 bytes) expects 1 byte there, and the code
    computes 0.
  * `CopyWithinRange` (no byte outside the range) holds. With
    `INVARIANT CopyExact` in `MCShadow.cfg`, TLC finds it violated after
    the first mmap.
* **An unchecked mmap range panics the kernel** (`mmap.c:39`).
  * `do_mmap` checks the end of neither a fixed range nor a hint's range.
  * `vmmap_map` then fails its `KASSERT` at `vmmap.c:363`.
  * With `INVARIANT MmapArgsChecked`, TLC finds this in one step.
* **Pid exhaustion** (`proc.c:94`).
  * `proc_create` stores the `-1` that `_proc_getid` returns when every
    pid is in use.
  * It takes 65,536 live processes.
  * `MCProc.cfg` with one pid fewer than slots shows it.
* **brk after munmap of the break page** (`brk.c:85`).
  * `vmmap_lookup` returns NULL for the break page, and `do_brk`
    dereferences it.
  * `INVARIANT BrkHeapLookupChecked` with anonymous sources shows it in
    two steps.
* **`do_mknod` puts an uninitialised pointer** (`vfs_syscall.c:387`).
  * When the parent is not a directory, `lookup` fails with `ENOTDIR` and
    never assigns `result`.
  * `do_mknod` then `vput`s it if it is not NULL.
  * `namev_safety` takes NULL for that stack value
    (`UninitResult = {null}`).
  * With every vnode allowed, TLC finds `RefsExact` violated after
    `mknod("a")` and `mknod("a/b")`.
* **A failed mmap has already unmapped** (`vmmap.c:404`).
  * `vmmap_map` removes a fixed range before `vmarea_alloc`,
    `anon_create` or `shadow_create` can fail.
  * With the failure point `vma` added to `Fails` in `MCVmMap.cfg` and
    `PROPERTY MapFailureAtomic`, TLC finds it in two steps.
* **A failed remove leaves overlapping areas** (`vmmap.c:383`).
  * `vmmap_map` ignores `vmmap_remove`'s `-1`, which it returns when the
    split area cannot be allocated.
  * The new area is then inserted over the old one.
  * With the failure point `remove_vma` added to `Fails` in
    `MCVmMap.cfg`, TLC finds `AreasWellFormed` violated.

## Bounds

* **Processes.** `MCProc` uses idle, init and two more slots, with
  `PROC_MAX_COUNT = 4`, so pids wrap and are reused. This is enough for:
  * a grandchild, so reparenting moves a live process;
  * two children waiting together;
  * a zombie with a sleeping parent.

  Three forkable slots do not finish within the time of a run, even with
  one exit status and symmetry. `MCProcReparent.cfg` takes the third slot
  for the liveness of `do_waitpid`, where it is needed: a zombie that
  moves to init has a parent that is not init. TLC finds that violation
  in about a minute.
* **Exit statuses.** Two.
* **Mutex.** `MCKMutex` uses three threads: a holder, and two waiters whose
  order matters.
* **Address space.** `MCVmMap` uses pages of 2 bytes and a user range of
  four pages (1..4):
  * the data page and break start in the first page;
  * the stack is in the last page;
  * there are two free pages between them.

  This is enough for a heap and an mmap side by side, and for every case of
  `vmmap_remove`: the case-1 split needs an area of three pages, which brk
  and mmap build. The calls try every aligned address from page 0 to one
  page past the range, every length up to the range, and every break
  address.
  * The passing run maps anonymous private memory only. Mapping the
    executable too (`MCAllSources`) shows the brk defect above.
  * Five user pages did not finish in 15 minutes.
* **Symmetry.** Symmetry is unsound for liveness.
  * Only `kmutex_safety` uses it, over the threads.
  * `proc_reparent_no_wakeup` checks `WaitpidReturns`, so it has no
    symmetry reduction.

* **Descriptor tables.** `MCFdTable` uses:
  * two processes, the second created by fork;
  * two descriptors each and two `file_t` structures, so that `EMFILE`
    and `ENOMEM` happen;
  * one regular file and one directory;
  * one-byte transfers;
  * file lengths and positions capped at 2 (`MAX_LEN`).

  `open` is tried with `O_RDONLY`, `O_WRONLY`, `O_RDWR`, the invalid `3`
  and `O_WRONLY|O_APPEND`. Descriptors are tried from -1 to `NFILES`.
  Symmetry over the `file_t` slots is sound: the slab allocator hands
  them out in no particular order. `op` is left out of the fingerprint, as
  in `VmMap`.

* **Path names.** `MCNamev` uses:
  * two process slots, so that one can `rmdir` the other's cwd, or run
    between the halves of its rename, and so that a process can exit and
    its slot be forked again;
  * two `file_t` slots, one for each process's descriptor, so the
    `-ENOMEM` of `fget` is not reached;
  * the root and two more inodes, so that allocation runs out (`ENOSPC`);
  * the names `a` and `b`, and a long name `L`.

  The paths are `/`, the empty path, `a`, `b`, `/a`, `a/b`, `.`, `..`,
  `a/..`, `b/a` and `a/L`. They cover:
  * a lookup through a non-directory (`b/a` after `mknod b`);
  * a long last component after a walk.

  `MCNamevLong.cfg` adds `a/L/b`. Symmetry over the two non-root inodes,
  and over the two `file_t` slots, is sound: the allocators may hand out
  either.

* **Memory objects.** `MCShadow` uses:
  * two processes, one running at the start, so a fork has a child;
  * two user pages, mapped by mmap as one area (`MapRanges`) and unmapped
    one page at a time (`UnmapRanges`), which reaches cases 2, 3 and 4 of
    `vmmap_remove`; the case-1 split needs three pages, which took the
    state space past what a run can finish;
  * one anon slot and four shadow slots: two forks of two private areas
    use them up, so the allocators run out too. With one anon slot a
    second mmap over a page that has been faulted in is never enabled
    (the old anon object keeps its page, see `shadow_put_leak`), so
    `MappingsPermitted` meets stale entries through munmap, fork and exit,
    not through an mmap with another protection; two anon slots took the
    run past five minutes;
  * mmap with PROT_NONE, PROT_READ and PROT_READ | PROT_WRITE (`Prots`),
    so read and write faults are refused as well as served;
  * pages of two bytes, and kernel copies of every byte range of the two
    pages: a copy within a page, across both, and ending on the first byte
    of the second page; the kernel-write run takes only the copies within
    one page, so the off-by-one of the last page stays out of its way;
  * one stored value, since copy-on-write is about which frame a write
    lands in, not what it writes;
  * at most two forks (`MaxForks`), enough for a chain three objects deep
    and for a fork of a child whose parent has exited.

  The fault points `map` (the private shadow of `vmmap_map`), `fork_new`
  and `fork_old` are enabled. Symmetry over the two processes is sound:
  nothing but `Init1` tells them apart, and symmetry there permutes the
  process slots, which the kernel hands out in no fixed order.

## Fairness

The kernel is non-preemptive. A thread on the CPU runs until it yields,
blocks or exits.

* **`Proc`** assumes weak fairness of each thread's step: a thread that
  holds the CPU eventually does something. Because of this fairness, the
  violation of `WaitpidReturns` is not a stuttering artefact. In the
  trace, every runnable thread keeps running, and only init, asleep with
  no one to wake it, stops.
* **`KMutex`** also assumes strong fairness of `KmutexUnlock` (every
  caller of `kmutex_lock` in the sources unlocks before it returns), and
  states `LockAcquired`: a waiting thread eventually holds the mutex. No run checks it: with cancellable lockers
  the handoff defect violates it, and `kmutex_cancel_after_handoff`
  already shows that defect as a safety property.

`Shadow` has no fairness and only safety properties. Its cfgs set
`CHECK_DEADLOCK FALSE`, because the system really stops when every
process has exited.

`Namev` has no fairness and no liveness property. Its cfgs set
`CHECK_DEADLOCK FALSE`, because the system stops when both processes have
exited.

`FdTable` assumes that a sleeping vnode read or write eventually returns,
but no property of it relies on that yet. `VmMap` has no fairness: its
properties are all safety properties. Its
cfgs set `CHECK_DEADLOCK FALSE` because a kernel panic really stops the
system.

The process configurations set `CHECK_DEADLOCK FALSE`. The system really
stops once idle has reaped init and halts (`halted`), and `CpuNeverHangs`
catches every other way the model could stop.

## Not modelled yet, and the plan

* **One composed process model.** `Proc` has the process tree, `FdTable`
  the file tables, `Namev` the cwd (and one shared descriptor), and
  `Shadow` the address spaces of
  `do_fork` and `proc_cleanup`; none of them reads another's state, so
  they are checked apart. The allocation failure of `vmmap_create` in
  `proc_create` (hazard at `proc.c:165`) would need the process list and
  the address space together, and is not modelled.
* **The case-1 split of `vmmap_remove` with its shadow objects.** It is
  modelled in `VmMap` (failure point `remove_shadow`) and in `Shadow`
  (failure points `first` and `second`, which would show the leak of the
  first shadow at `vmmap.c:563`), but no run reaches it: it needs an area
  of three pages.
* **File mappings and shared file pages in `Shadow`.** Every area there
  is anonymous; `VmMap` has the executable's vnode. Of the checks of
  `handle_pagefault`, FAULT_RESERVED and FAULT_EXEC are never reached:
  user code in the model only loads and stores.
* **`dirtypage` and `cleanpage`** of the memory objects set a bit on
  pinned frames that no modelled code reads; the bottom object's list of
  vmareas (`mmo_vmas`, and the double insert at `vmmap.c:581`) is a
  back-index that nothing modelled reads either.
* **The bytes of a page.** `Shadow` keeps one value per page, so the
  byte-level effect of the copies is stated only through `CopySegment`.
* **`vmmap_clone`'s own allocation failure** (hazard at `fork.c:79`).
* **Namev and FdTable together.** `do_open` is in `FdTable` (the table)
  and in `Namev` (the resolution). A composition would put the same
  vnode reference counts under both.
* **The window of `do_unlink`.** The `vn_mode` read after `vput`
  (`vfs_syscall.c:644`) touches a vnode that may be freed. It could be
  reused if `vput` sleeps in the file system. The model's calls are
  atomic, so it reads the freed vnode's own mode.
* **Vnode operations that fail.** In `FdTable` they never fail. The hazard
  of a negative read result added to `f_pos` (`vfs_syscall.c:77`) needs
  them.
* **Not planned.** `kthread_join`, `kthread_detach` and the reaper are
  stubs that panic. `proc_info`, `proc_list_info` and the kshell test
  functions only print.

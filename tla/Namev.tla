------------------------------- MODULE Namev -------------------------------
(***************************************************************************)
(* Path name resolution (src/kernel/fs/namev.c: lookup, dir_namev,         *)
(* open_namev) and the path system calls of src/kernel/fs/vfs_syscall.c    *)
(* (mknod, mkdir, rmdir, unlink, link, rename, chdir, stat), with the      *)
(* open_namev part of do_open and the fput of do_close.                    *)
(*                                                                         *)
(* A path is abstracted to what dir_namev makes of the string: whether it  *)
(* starts with '/', and its components once runs of '/' are collapsed and *)
(* trailing '/' dropped.  A string of slashes only is RootPath and the     *)
(* empty string EmptyPath.  A component is a short name, "." or "..", or  *)
(* a name longer than NAME_LEN (LongNames).                                *)
(*                                                                         *)
(* The file system under the VFS (s5fs) is not part of the sources; its   *)
(* vnode operations are written from the specification: lookup finds a    *)
(* directory entry, with "." and ".." entries of their own; create, mknod *)
(* and mkdir take a free inode (ENOSPC when there is none); rmdir refuses *)
(* a missing entry, a non-directory and a non-empty directory; an inode   *)
(* is freed when its link count and its vnode reference count are both    *)
(* zero; an operation that adds an entry to a removed directory fails     *)
(* with ENOENT.                                                            *)
(*                                                                         *)
(* Every system call is one step except rename, which the code makes of   *)
(* do_link and do_unlink: other processes may run between the two (the    *)
(* lookups of do_unlink read the disk and may sleep).                      *)
(*                                                                         *)
(* Processes are forked and exit: proc_create gives the child the parent's *)
(* p_cwd with a vref, do_fork shares the open file with an fref, and       *)
(* proc_cleanup closes the descriptor and vputs the cwd.  Each process has *)
(* one descriptor; an open file is a file_t slot with f_vnode and          *)
(* f_refcount.                                                             *)
(***************************************************************************)
EXTENDS Integers, FiniteSets, Sequences, TLC

LOCAL INSTANCE Relation

CONSTANTS
    Procs,        \* the processes making calls
    Vnodes,       \* the inodes of the file system, with their vnodes
    Root,         \* vfs_root_vn
    NoVnode,      \* NULL
    Names,        \* short component names
    LongNames,    \* component names longer than NAME_LEN
    Paths,        \* the paths the calls are tried with
    UninitResult, \* what the uninitialised 'result' of do_mknod may hold
    Files,        \* the file_t structures of the slab
    NoFile        \* a NULL file_t pointer

Dot    == "."
DotDot == ".."
NoName == "NULL"    \* the name dir_namev returns for a path of slashes

Entries == Names \cup {Dot, DotDot}

RootPath  == [abs |-> TRUE, comps |-> << >>]
EmptyPath == [abs |-> FALSE, comps |-> << >>]

ASSUME /\ Root \in Vnodes /\ NoVnode \notin Vnodes /\ NoFile \notin Files
       /\ UninitResult \subseteq Vnodes \cup {NoVnode}
       /\ Paths \subseteq [abs : BOOLEAN, comps : Seq(Entries \cup LongNames)]

(* errno values *)
ENOENT       == 2
ENOMEM       == 12
EEXIST       == 17
ENOTDIR      == 20
EISDIR       == 21
EINVAL       == 22
ENOSPC       == 28
ENAMETOOLONG == 36
ENOTEMPTY    == 39

(* vn_mode *)
FREE == "free"
DIR  == "dir"
REG  == "reg"
CHR  == "chr"

VARIABLES
    mode,      \* vn_mode of every inode, FREE for an unallocated one
    ents,      \* the entries of every directory: name -> inode or NULL
    nlink,     \* the link count of every inode
    vref,      \* vn_refcount of every vnode
    live,      \* the processes that exist
    cwd,       \* p_cwd of every process, NULL once it has exited
    file,      \* the open file of a process's descriptor, or NULL
    fvn,       \* f_vnode of every file_t
    fcnt,      \* f_refcount of every file_t, 0 for a free one
    renaming,  \* the old name of a rename between its link and unlink
    op         \* the last call and its result

vars == <<mode, ents, nlink, vref, live, cwd, file, fvn, fcnt, renaming, op>>

(* What the path calls leave alone: processes and open files. *)
tables == <<live, file, fvn, fcnt>>

NoPath  == [abs |-> FALSE, comps |-> <<NoName>>]
NoEnts  == [e \in Entries |-> NoVnode]
Zero    == [v \in Vnodes |-> 0]

(* Reference count changes: one vref or vput of v, if v is not NULL. *)
Vref(d, v) == IF v = NoVnode THEN d ELSE [d EXCEPT ![v] = @ + 1]
Vput(d, v) == IF v = NoVnode THEN d ELSE [d EXCEPT ![v] = @ - 1]

(* A directory whose last link has gone (rmdir while some process holds  *)
(* it, as its cwd or an open file).                                      *)
Removed(d) == d # Root /\ nlink[d] = 0

(* The outcome of a call: its return value, the file system after it and *)
(* the net change it made to the vnode reference counts.                 *)
Res(ret, d) == [ret |-> ret, m |-> mode, e |-> ents, n |-> nlink, d |-> d]

----------------------------------------------------------------------------
(* namev.c lookup with the file system's lookup: -ENOTDIR unless dir is  *)
(* a directory, -ENOENT for a missing entry, else the entry, whose       *)
(* reference count the caller now holds one of.                          *)
Lookup(dir, name) ==
    IF mode[dir] # DIR THEN [err |-> -ENOTDIR, vn |-> NoVnode]
    ELSE IF ents[dir][name] = NoVnode THEN [err |-> -ENOENT, vn |-> NoVnode]
    ELSE [err |-> 0, vn |-> ents[dir][name]]

(* What dir_namev returns: an error with the vnode whose reference it    *)
(* still holds on that error (leak), or the parent it holds and the      *)
(* basename.                                                             *)
NamevFail(e, leak) == [err |-> e, parent |-> NoVnode, name |-> NoName, leak |-> leak]
NamevOk(par, name) == [err |-> 0, parent |-> par, name |-> name, leak |-> NoVnode]

(* The component loop of dir_namev from curPathBase cur, with the        *)
(* components left; held is needToDecrease.  A too long component is     *)
(* refused before it is looked up, and the last one only after the walk  *)
(* (vref of a single file name, then vput on ENAMETOOLONG).              *)
RECURSIVE Walk(_, _, _)
Walk(cur, rest, held) ==
    IF Len(rest) = 1
    THEN IF rest[1] \in LongNames THEN NamevFail(-ENAMETOOLONG, NoVnode)
         ELSE NamevOk(cur, rest[1])
    ELSE IF Head(rest) \in LongNames
         THEN NamevFail(-ENAMETOOLONG, IF held THEN cur ELSE NoVnode)
         ELSE LET r == Lookup(cur, Head(rest))
              IN  IF r.err # 0 THEN NamevFail(r.err, NoVnode)
                  ELSE Walk(r.vn, Tail(rest), TRUE)

(* dir_namev(path, ..., NULL, &res): relative paths start at p_cwd.      *)
DirNamev(p, path) ==
    IF path = EmptyPath THEN NamevFail(-EINVAL, NoVnode)
    ELSE IF path.comps = << >> THEN NamevOk(Root, NoName)
    ELSE Walk(IF path.abs THEN Root ELSE cwd[p], path.comps, FALSE)

(* The references a failed dir_namev leaves behind. *)
Leaked(dn) == Vref(Zero, dn.leak)

(* The inodes the file system can allocate. *)
FreeInodes == {v \in Vnodes : mode[v] = FREE}

(* The file system's create, mknod and mkdir of name in par: the set of   *)
(* outcomes, one per inode it may allocate; the new vnode is returned     *)
(* referenced when ref is TRUE (create).                                 *)
FsMake(par, name, kind, ref) ==
    IF Removed(par) THEN {Res(-ENOENT, Zero)}
    ELSE IF FreeInodes = {} THEN {Res(-ENOSPC, Zero)}
    ELSE {[ret |-> 0,
           m   |-> [mode EXCEPT ![v] = kind],
           e   |-> [ents EXCEPT ![par][name] = v,
                                ![v] = IF kind = DIR
                                       THEN [NoEnts EXCEPT ![Dot] = v, ![DotDot] = par]
                                       ELSE NoEnts],
           n   |-> [nlink EXCEPT ![v] = 1],
           d   |-> IF ref THEN Vref(Zero, v) ELSE Zero,
           vn  |-> v] : v \in FreeInodes}

(* Mutant: the root case of open_namev without the vref of the root vnode. *)
OpenNamevRootNoRef(p, path, creat) ==
    LET dn == DirNamev(p, path)
        l  == Lookup(dn.parent, dn.name)
        with(r, vn) == [r EXCEPT !.d = Vref(@, vn)] @@ [vn |-> vn]
    IN  IF dn.err # 0 THEN {with(Res(dn.err, Leaked(dn)), NoVnode)}
        ELSE IF dn.name = NoName THEN {Res(0, Vput(Zero, Root)) @@ [vn |-> Root]}
        ELSE IF l.err = -ENOENT /\ ~creat THEN {with(Res(-ENOENT, Zero), NoVnode)}
        ELSE IF l.err = -ENOENT THEN FsMake(dn.parent, dn.name, REG, TRUE)
        ELSE {with(Res(l.err, Zero), l.vn)}

(* open_namev(path, flag, &res, NULL): the set of outcomes, each with the *)
(* vnode returned (its reference counted in d).                          *)
OpenNamev(p, path, creat) ==
    LET dn == DirNamev(p, path)
        l  == Lookup(dn.parent, dn.name)
        with(r, vn) == [r EXCEPT !.d = Vref(@, vn)] @@ [vn |-> vn]
    IN  IF dn.err # 0 THEN {with(Res(dn.err, Leaked(dn)), NoVnode)}
        ELSE IF dn.name = NoName THEN {with(Res(0, Zero), Root)}
        ELSE IF l.err = -ENOENT /\ ~creat THEN {with(Res(-ENOENT, Zero), NoVnode)}
        ELSE IF l.err = -ENOENT THEN FsMake(dn.parent, dn.name, REG, TRUE)
        ELSE {with(Res(l.err, Zero), l.vn)}

(* The one outcome of an open_namev that does not create. *)
Resolve(p, path) == CHOOSE r \in OpenNamev(p, path, FALSE) : TRUE
----------------------------------------------------------------------------
(* The end of a call: the file system and reference counts it leaves; an *)
(* inode with neither links nor references is freed.                     *)
Commit(call, r) ==
    LET rc   == [v \in Vnodes |-> vref[v] + r.d[v]]
        dead == {v \in Vnodes \ {Root} : r.n[v] = 0 /\ rc[v] = 0}
    IN  /\ vref' = rc
        /\ mode' = [v \in Vnodes |-> IF v \in dead THEN FREE ELSE r.m[v]]
        /\ ents' = [v \in Vnodes |-> IF v \in dead THEN NoEnts ELSE r.e[v]]
        /\ nlink' = r.n
        /\ op' = [call |-> call, ret |-> r.ret]

(* A process that exists and is not between the two halves of a rename. *)
Ready(p) == p \in live /\ renaming[p] = NoPath

(* do_mknod.  On an error of lookup other than -ENOENT (the parent is not *)
(* a directory) 'result' was never assigned, and it is vput when it is   *)
(* not NULL.                                                             *)
DoMknod(p, path, kind) ==
    /\ Ready(p)
    /\ LET dn == DirNamev(p, path)
           l  == Lookup(dn.parent, dn.name)
       IN  \E r \in
             IF kind # CHR THEN {Res(-EINVAL, Zero)}
             ELSE IF dn.err # 0 THEN {Res(dn.err, Leaked(dn))}
             ELSE IF l.err = -ENOENT THEN FsMake(dn.parent, dn.name, CHR, FALSE)
             ELSE IF l.err # 0 THEN {Res(l.err, Vput(Zero, g)) : g \in UninitResult}
             ELSE {Res(-EEXIST, Zero)} :
             Commit("mknod", r)
    /\ UNCHANGED <<cwd, renaming, tables>>

(* do_mkdir *)
DoMkdir(p, path) ==
    /\ Ready(p)
    /\ LET dn == DirNamev(p, path)
           l  == Lookup(dn.parent, dn.name)
       IN  \E r \in
             IF dn.err # 0 THEN {Res(dn.err, Leaked(dn))}
             ELSE IF dn.name = NoName THEN {Res(-EEXIST, Zero)}
             ELSE IF mode[dn.parent] # DIR THEN {Res(-ENOTDIR, Zero)}
             ELSE IF l.err = -ENOENT THEN FsMake(dn.parent, dn.name, DIR, FALSE)
             ELSE IF l.err # 0 THEN {Res(l.err, Zero)}
             ELSE {Res(-EEXIST, Zero)} :
             Commit("mkdir", r)
    /\ UNCHANGED <<cwd, renaming, tables>>

(* The file system's rmdir of name in par. *)
FsRmdir(par, name) ==
    LET c == ents[par][name] IN
    IF c = NoVnode THEN Res(-ENOENT, Zero)
    ELSE IF mode[c] # DIR THEN Res(-ENOTDIR, Zero)
    ELSE IF \E n \in Names : ents[c][n] # NoVnode THEN Res(-ENOTEMPTY, Zero)
    ELSE [Res(0, Zero) EXCEPT !.e = [ents EXCEPT ![par][name] = NoVnode, ![c] = NoEnts],
                              !.n = [nlink EXCEPT ![c] = 0]]

(* do_rmdir: "." is refused with EINVAL (as is a path of slashes, whose  *)
(* NULL name strncmp compares over length 0) and ".." with ENOTEMPTY.    *)
DoRmdir(p, path) ==
    /\ Ready(p)
    /\ LET dn == DirNamev(p, path)
           r  == IF dn.err # 0 THEN Res(dn.err, Leaked(dn))
                 ELSE IF mode[dn.parent] # DIR THEN Res(-ENOTDIR, Zero)
                 ELSE IF dn.name \in {Dot, NoName} THEN Res(-EINVAL, Zero)
                 ELSE IF dn.name = DotDot THEN Res(-ENOTEMPTY, Zero)
                 ELSE FsRmdir(dn.parent, dn.name)
       IN  Commit("rmdir", r)
    /\ UNCHANGED <<cwd, renaming, tables>>

(* do_unlink, as an outcome: the mode of result is read after vput(result). *)
Unlinked(p, path) ==
    LET dn == DirNamev(p, path)
        l  == Lookup(dn.parent, dn.name)
    IN  IF dn.err # 0 THEN Res(dn.err, Leaked(dn))
        ELSE IF l.err # 0 THEN Res(l.err, Zero)
        ELSE IF mode[l.vn] = DIR THEN Res(-EISDIR, Zero)
        ELSE [Res(0, Zero) EXCEPT !.e = [ents EXCEPT ![dn.parent][dn.name] = NoVnode],
                                  !.n = [nlink EXCEPT ![l.vn] = @ - 1]]

(* Mutant: do_link without the EISDIR check of from_vnode. *)
LinkedAllowsDirs(p, from, to) ==
    LET o  == Resolve(p, from)
        dn == DirNamev(p, to)
        l  == Lookup(dn.parent, dn.name)
    IN  IF o.ret # 0 THEN Res(o.ret, o.d)
        ELSE IF dn.err # 0 THEN Res(dn.err, Leaked(dn))
        ELSE IF l.err = 0 THEN Res(-EEXIST, Zero)
        ELSE IF l.err = -ENOTDIR THEN Res(-ENOTDIR, Zero)
        ELSE IF Removed(dn.parent) THEN Res(-ENOENT, Zero)
        ELSE [Res(0, Zero) EXCEPT !.e = [ents EXCEPT ![dn.parent][dn.name] = o.vn],
                                  !.n = [nlink EXCEPT ![o.vn] = @ + 1]]

(* do_link, as an outcome: open_namev(from), EISDIR for a directory,     *)
(* dir_namev(to), EEXIST or ENOTDIR from the lookup of the new name, else *)
(* the file system's link.                                               *)
Linked(p, from, to) ==
    LET o  == Resolve(p, from)
        dn == DirNamev(p, to)
        l  == Lookup(dn.parent, dn.name)
    IN  IF o.ret # 0 THEN Res(o.ret, o.d)
        ELSE IF mode[o.vn] = DIR THEN Res(-EISDIR, Zero)
        ELSE IF dn.err # 0 THEN Res(dn.err, Leaked(dn))
        ELSE IF l.err = 0 THEN Res(-EEXIST, Zero)
        ELSE IF l.err = -ENOTDIR THEN Res(-ENOTDIR, Zero)
        ELSE IF Removed(dn.parent) THEN Res(-ENOENT, Zero)
        ELSE [Res(0, Zero) EXCEPT !.e = [ents EXCEPT ![dn.parent][dn.name] = o.vn],
                                  !.n = [nlink EXCEPT ![o.vn] = @ + 1]]

DoUnlink(p, path) ==
    /\ Ready(p)
    /\ Commit("unlink", Unlinked(p, path))
    /\ UNCHANGED <<cwd, renaming, tables>>

DoLink(p, from, to) ==
    /\ Ready(p)
    /\ Commit("link", Linked(p, from, to))
    /\ UNCHANGED <<cwd, renaming, tables>>

(* do_rename, first half: do_link(old, new); its error is rename's. *)
DoRenameLink(p, old, new) ==
    /\ Ready(p)
    /\ LET r == Linked(p, old, new) IN
       /\ Commit(IF r.ret = 0 THEN "rename_link" ELSE "rename", r)
       /\ renaming' = IF r.ret = 0 THEN [renaming EXCEPT ![p] = old] ELSE renaming
    /\ UNCHANGED <<cwd, tables>>

(* do_rename, second half: do_unlink(old), whose result rename returns. *)
DoRenameUnlink(p) ==
    /\ p \in live /\ renaming[p] # NoPath
    /\ Commit("rename", Unlinked(p, renaming[p]))
    /\ renaming' = [renaming EXCEPT ![p] = NoPath]
    /\ UNCHANGED <<cwd, tables>>

(* do_chdir: the vnode open_namev returns must be a directory; the old   *)
(* cwd is put and the new one keeps the reference open_namev took.       *)
DoChdir(p, path) ==
    /\ Ready(p)
    /\ LET o == Resolve(p, path) IN
       IF o.ret # 0 THEN Commit("chdir", o) /\ UNCHANGED cwd
       ELSE IF mode[o.vn] # DIR
       THEN Commit("chdir", Res(-ENOTDIR, Zero)) /\ UNCHANGED cwd
       ELSE /\ Commit("chdir", [o EXCEPT !.d = Vput(@, cwd[p])])
            /\ cwd' = [cwd EXCEPT ![p] = o.vn]
    /\ UNCHANGED <<renaming, tables>>

(* do_stat: open_namev, the stat operation, vput. *)
DoStat(p, path) ==
    /\ Ready(p)
    /\ LET o == Resolve(p, path) IN
       Commit("stat", IF o.ret # 0 THEN o ELSE Res(0, Zero))
    /\ UNCHANGED <<cwd, renaming, tables>>

(* fput of file f: f_refcount drops, and the last fput vputs f_vnode     *)
(* (Released, as a reference change) and frees the file_t.                *)
Released(f) == IF fcnt[f] = 1 THEN Vput(Zero, fvn[f]) ELSE Zero

Fput(f) ==
    /\ fcnt' = [fcnt EXCEPT ![f] = @ - 1]
    /\ fvn'  = IF fcnt[f] = 1 THEN [fvn EXCEPT ![f] = NoVnode] ELSE fvn

(* The part of do_open around open_namev (flags O_RDONLY, with or without *)
(* O_CREAT, so no EISDIR): fget(-1) of a free file_t, -ENOMEM when there  *)
(* is none; on an error of open_namev the file_t, which has no vnode yet,  *)
(* is put back; on success it keeps the vnode reference.                  *)
DoOpen(p, path, creat) ==
    /\ Ready(p)
    /\ file[p] = NoFile
    /\ LET free == {f \in Files : fcnt[f] = 0} IN
       IF free = {} THEN Commit("open", Res(-ENOMEM, Zero)) /\ UNCHANGED <<file, fvn, fcnt>>
       ELSE \E f \in free, o \in OpenNamev(p, path, creat) :
              /\ Commit("open", o)
              /\ IF o.ret = 0
                 THEN /\ file' = [file EXCEPT ![p] = f]
                      /\ fvn'  = [fvn EXCEPT ![f] = o.vn]
                      /\ fcnt' = [fcnt EXCEPT ![f] = 1]
                 ELSE UNCHANGED <<file, fvn, fcnt>>
    /\ UNCHANGED <<cwd, renaming, live>>

(* Mutant: close puts the vnode once more than fput does. *)
DoCloseDoublePut(p) ==
    /\ Ready(p)
    /\ file[p] # NoFile
    /\ Commit("close", Res(0, Vput(Released(file[p]), fvn[file[p]])))
    /\ Fput(file[p])
    /\ file' = [file EXCEPT ![p] = NoFile]
    /\ UNCHANGED <<cwd, renaming, live>>

(* do_close: the descriptor is cleared and its file put. *)
DoClose(p) ==
    /\ Ready(p)
    /\ file[p] # NoFile
    /\ Commit("close", Res(0, Released(file[p])))
    /\ Fput(file[p])
    /\ file' = [file EXCEPT ![p] = NoFile]
    /\ UNCHANGED <<cwd, renaming, live>>

(* do_fork's copy of the file table: an fref of the descriptor's file. *)
ForkFiles(p) == IF file[p] = NoFile THEN fcnt ELSE [fcnt EXCEPT ![file[p]] = @ + 1]

(* Mutant: proc_create copies p_cwd without the vref. *)
ForkNoCwdRef(p, c) ==
    /\ Ready(p) /\ c \notin live
    /\ Commit("fork", Res(0, Zero))
    /\ cwd'  = [cwd EXCEPT ![c] = cwd[p]]
    /\ file' = [file EXCEPT ![c] = file[p]]
    /\ fcnt' = ForkFiles(p)
    /\ live' = live \cup {c}
    /\ UNCHANGED <<fvn, renaming>>

(* do_fork by p into the free process slot c: proc_create gives the child *)
(* the parent's p_cwd and vrefs it; the file table is copied.             *)
Fork(p, c) ==
    /\ Ready(p) /\ c \notin live
    /\ Commit("fork", Res(0, Vref(Zero, cwd[p])))
    /\ cwd'  = [cwd EXCEPT ![c] = cwd[p]]
    /\ file' = [file EXCEPT ![c] = file[p]]
    /\ fcnt' = ForkFiles(p)
    /\ live' = live \cup {c}
    /\ UNCHANGED <<fvn, renaming>>

(* do_exit's proc_cleanup, VFS part: do_close of the open descriptor,     *)
(* then vput of p_cwd, which is set to NULL.  The inodes whose last link  *)
(* and reference go are freed.                                            *)
Exit(p) ==
    /\ Ready(p)
    /\ LET f == file[p] IN
       /\ Commit("exit", Res(0, Vput(IF f = NoFile THEN Zero ELSE Released(f), cwd[p])))
       /\ IF f = NoFile THEN UNCHANGED <<fvn, fcnt>> ELSE Fput(f)
    /\ cwd'  = [cwd EXCEPT ![p] = NoVnode]
    /\ file' = [file EXCEPT ![p] = NoFile]
    /\ live' = live \ {p}
    /\ UNCHANGED renaming

----------------------------------------------------------------------------
(* The root directory, vfs_root_vn with the reference the VFS keeps, and *)
(* every process with its cwd at the root.                               *)
Init ==
    /\ mode  = [v \in Vnodes |-> IF v = Root THEN DIR ELSE FREE]
    /\ ents  = [v \in Vnodes |-> IF v = Root
                                 THEN [NoEnts EXCEPT ![Dot] = Root, ![DotDot] = Root]
                                 ELSE NoEnts]
    /\ nlink = [v \in Vnodes |-> IF v = Root THEN 1 ELSE 0]
    /\ vref  = [v \in Vnodes |-> IF v = Root THEN 1 + Cardinality(Procs) ELSE 0]
    /\ live  = Procs
    /\ cwd   = [p \in Procs |-> Root]
    /\ file  = [p \in Procs |-> NoFile]
    /\ fvn   = [f \in Files |-> NoVnode]
    /\ fcnt  = [f \in Files |-> 0]
    /\ renaming = [p \in Procs |-> NoPath]
    /\ op = [call |-> "none", ret |-> 0]

(* mknod, unlink, the new name of link and rename are not given a path   *)
(* of slashes only: dir_namev returns a NULL name for it, which these     *)
(* calls pass on to lookup, and its KASSERT(NULL != name) (namev.c:34)    *)
(* panics the kernel.  That ending is left out.                           *)
NamedPaths == Paths \ {RootPath}

Next ==
    \E p \in Procs :
        \/ \E path \in NamedPaths, kind \in {CHR, REG} : DoMknod(p, path, kind)
        \/ \E path \in Paths : DoMkdir(p, path)
        \/ \E path \in Paths : DoRmdir(p, path)
        \/ \E path \in NamedPaths : DoUnlink(p, path)
        \/ \E from \in Paths, to \in NamedPaths : DoLink(p, from, to)
        \/ \E old, new \in NamedPaths : DoRenameLink(p, old, new)
        \/ DoRenameUnlink(p)
        \/ \E path \in Paths : DoChdir(p, path)
        \/ \E path \in Paths : DoStat(p, path)
        \/ \E path \in Paths, creat \in BOOLEAN : DoOpen(p, path, creat)
        \/ DoClose(p)
        \/ \E c \in Procs : Fork(p, c)
        \/ Exit(p)

Spec == Init /\ [][Next]_vars

StateView == <<mode, ents, nlink, vref, live, cwd, file, fvn, fcnt, renaming>>

----------------------------------------------------------------------------
TypeOK ==
    /\ mode \in [Vnodes -> {FREE, DIR, REG, CHR}]
    /\ ents \in [Vnodes -> [Entries -> Vnodes \cup {NoVnode}]]
    /\ nlink \in [Vnodes -> Nat]
    /\ vref \in [Vnodes -> Nat]
    /\ live \subseteq Procs
    /\ cwd \in [Procs -> Vnodes \cup {NoVnode}]
    /\ file \in [Procs -> Files \cup {NoFile}]
    /\ fvn \in [Files -> Vnodes \cup {NoVnode}]
    /\ fcnt \in [Files -> Nat]
    /\ renaming \in [Procs -> Paths \cup {NoPath}]

(* Every path call releases every reference it took on every exit path   *)
(* (dir_namev, lookup, open_namev, do_mknod ... do_stat), and fork and    *)
(* exit take and drop exactly theirs: the f_refcount of each file is the  *)
(* number of descriptors naming it, and the reference count of each vnode *)
(* is the VFS's hold on the root, the cwds of the live processes and the  *)
(* open files, whatever calls came before.                                *)
RefsExact ==
    /\ \A f \in Files : fcnt[f] = Cardinality({p \in live : file[p] = f})
    /\ \A v \in Vnodes :
          vref[v] = (IF v = Root THEN 1 ELSE 0)
                    + Cardinality({p \in live : cwd[p] = v})
                    + Cardinality({f \in Files : fcnt[f] > 0 /\ fvn[f] = v})

(* The directories stay a tree rooted at vfs_root_vn: every directory in *)
(* it is named by exactly one entry, of its ".." directory, and "." names *)
(* itself; the link count of every inode is the number of entries naming *)
(* it; and no inode is left allocated that no entry names and no vnode   *)
(* reference holds (do_link's EISDIR, do_unlink's EISDIR read after vput, *)
(* do_rmdir's "." and ".." checks).                                      *)
NamespaceIsTree ==
    LET inuse    == {v \in Vnodes : mode[v] # FREE}
        namers(v) == {<<d, n>> \in inuse \X Names : ents[d][n] = v}
        dirs    == {d \in inuse : mode[d] = DIR /\ (d = Root \/ nlink[d] > 0)}
        up      == [c, d \in dirs |-> c # Root /\ ents[c][DotDot] = d]
    IN  /\ \A v \in inuse \ {Root} : nlink[v] = Cardinality(namers(v))
        /\ \A v \in inuse \ {Root} : nlink[v] > 0 \/ vref[v] > 0
        /\ \A c \in dirs \ {Root} :
              /\ ents[c][Dot] = c
              /\ nlink[c] = 1
              /\ namers(c) \subseteq {ents[c][DotDot]} \X Names
        /\ \A c \in dirs \ {Root} : ents[c][DotDot] \in dirs
        /\ \A c \in dirs : ReflexiveTransitiveClosure(up, dirs)[c, Root]

(* No process works in, and no open file reads, a freed inode: the cwd   *)
(* of a live process and the vnode of an open file stay allocated while  *)
(* another process removes the directory or unlinks the file, and across *)
(* the forks that share them and the exits that drop one reference.      *)
HeldVnodesAllocated ==
    /\ \A p \in live : mode[cwd[p]] # FREE
    /\ \A f \in Files : fcnt[f] > 0 => mode[fvn[f]] # FREE
============================================================================

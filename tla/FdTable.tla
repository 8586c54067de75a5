------------------------------ MODULE FdTable ------------------------------
(***************************************************************************)
(* The file descriptor system calls of src/kernel/fs/open.c and            *)
(* src/kernel/fs/vfs_syscall.c over the descriptor tables of several       *)
(* processes that share open files through fork, with the file-table part  *)
(* of do_fork and of proc_cleanup.                                          *)
(*                                                                         *)
(* fget, fref and fput (fs/file.c) and the vnode operations are not part   *)
(* of the sources; they are written from the specification: fget(-1)      *)
(* takes a fresh file_t with one reference, fget(fd) takes a reference to  *)
(* p_files[fd], and fput drops one and, at zero, vputs f_vnode and frees   *)
(* the file_t.                                                             *)
(*                                                                         *)
(* The vnode read and write operations may sleep (a busy page frame), so   *)
(* do_read and do_write are two steps each: up to the call of the vnode    *)
(* operation with the f_pos of that moment, and from its return, where     *)
(* f_pos is advanced and the file put.  Other processes run in between.   *)
(***************************************************************************)
EXTENDS Integers, FiniteSets, FiniteSetsExt, Bitwise

CONSTANTS
    Procs,      \* the processes
    FirstProc,  \* the process alive at the start
    NFILES,     \* the size of p_files
    FileSlots,  \* the file_t structures the allocator can hand out
    Regs,       \* regular-file vnodes
    Dirs,       \* directory vnodes
    MAX_LEN,    \* bound on file lengths and positions in the model
    NDIRENT,    \* entries of every directory
    OFlags      \* the oflags the calls to open are tried with

ASSUME FirstProc \in Procs /\ NFILES \in Nat \ {0} /\ Regs \cap Dirs = {}

Vnodes == Regs \cup Dirs
Fds    == 0 .. NFILES - 1
NULL   == "NULL"

(* What open_namev finds when the name does not exist. *)
NoEntry == "ENOENT"

(* errno values *)
EBADF   == 9
ENOMEM  == 12
EISDIR  == 21
EINVAL  == 22
EMFILE  == 24
ENOTDIR == 20
ENOENT  == 2

(* f_mode bits, oflags bits and whence values *)
FMODE_READ   == 1
FMODE_WRITE  == 2
FMODE_APPEND == 4
O_WRONLY     == 1
O_RDWR       == 2
O_CREAT      == 256
O_APPEND     == 1024
SEEK_SET     == 0
SEEK_CUR     == 1
SEEK_END     == 2

VARIABLES
    alive,    \* the processes that exist
    pfiles,   \* p_files of every process: a file_t or NULL
    ft,       \* every file_t: f_refcount, f_mode, f_vnode, f_pos
    vref,     \* vn_refcount of every vnode, counting the files' references
    vlen,     \* vn_len of every regular file
    pending,  \* the read or write a process sleeps in, with its file and
              \* the f_pos it passed to the vnode operation
    panic,    \* a failed KASSERT
    op        \* the last call and its result

vars == <<alive, pfiles, ft, vref, vlen, pending, panic, op>>

NoCall == [call |-> "none", file |-> NULL, pos |-> 0, n |-> 0]

FreeFile == [ref |-> 0, mode |-> 0, vnode |-> NULL, pos |-> 0]

Call(c, p, r) == [call |-> c, proc |-> p, ret |-> r]

(* fref: one more reference. *)
Fref(t, f) == [t EXCEPT ![f].ref = @ + 1]

(* Mutation of fput: the vnode is not put when the file is freed. *)
FputKeepsVnode(t, vr, f) ==
    IF t[f].ref = 1 THEN <<[t EXCEPT ![f] = FreeFile], vr>>
    ELSE <<[t EXCEPT ![f].ref = @ - 1], vr>>

(* fput on the file table and the vnode counts: one reference less; at    *)
(* zero the vnode is put and the file_t freed.                            *)
Fput(t, vr, f) ==
    IF t[f].ref = 1
    THEN <<[t EXCEPT ![f] = FreeFile],
           IF t[f].vnode = NULL THEN vr ELSE [vr EXCEPT ![t[f].vnode] = @ - 1]>>
    ELSE <<[t EXCEPT ![f].ref = @ - 1], vr>>

(* get_empty_fd: the lowest free descriptor, or -EMFILE. *)
GetEmptyFd(p) ==
    IF \E fd \in Fds : pfiles[p][fd] = NULL
    THEN Min({fd \in Fds : pfiles[p][fd] = NULL})
    ELSE -EMFILE

(* Mutation of do_open: the O_APPEND bit itself stored as FMODE_APPEND.    *)
FmodeOfRawAppend(oflags) ==
    (IF (oflags & O_APPEND) = O_APPEND THEN O_APPEND ELSE 0)
    + (IF (oflags & O_WRONLY) = 0 \/ (oflags & O_RDWR) = O_RDWR THEN FMODE_READ ELSE 0)
    + (IF (oflags & O_WRONLY) = O_WRONLY \/ (oflags & O_RDWR) = O_RDWR THEN FMODE_WRITE ELSE 0)

(* The f_mode do_open derives from oflags. *)
FmodeOf(oflags) ==
    (IF (oflags & O_APPEND) = O_APPEND THEN FMODE_APPEND ELSE 0)
    + (IF (oflags & O_WRONLY) = 0 \/ (oflags & O_RDWR) = O_RDWR THEN FMODE_READ ELSE 0)
    + (IF (oflags & O_WRONLY) = O_WRONLY \/ (oflags & O_RDWR) = O_RDWR THEN FMODE_WRITE ELSE 0)

Running(p) == p \in alive /\ pending[p] = NoCall /\ panic = FALSE

Ret(c, p, r) == op' = Call(c, p, r)

(* Mutation of do_open's error paths: the slot is cleared but the file_t   *)
(* is not put.                                                            *)
OpenFailedNoPut(t, vr, f) == <<t, vr>>

(* do_open's error paths after fget(-1): fput(new_file_t) and the slot     *)
(* cleared again.                                                         *)
OpenFailed(t, vr, f) == Fput(t, vr, f)

(***************************************************************************)
(* do_open(filename, oflags): the flag checks, get_empty_fd, fget(-1), the *)
(* slot, f_mode, then open_namev; target is what open_namev resolves the   *)
(* name to (a vnode with one more reference) or ENOENT.  A failure of      *)
(* open_namev, or a directory opened for writing, puts the file back and   *)
(* clears the slot.                                                        *)
(***************************************************************************)
DoOpen(p, oflags, target) ==
    /\ Running(p)
    /\ LET fd   == GetEmptyFd(p)
           free == {f \in FileSlots : ft[f].ref = 0}
       IN  CASE (oflags & 1795) # oflags \/ (oflags & 3) = 3 ->
                    Ret("open", p, -EINVAL) /\ UNCHANGED <<pfiles, ft, vref>>
             [] fd = -EMFILE ->
                    Ret("open", p, -EMFILE) /\ UNCHANGED <<pfiles, ft, vref>>
             [] free = {} ->
                    Ret("open", p, -ENOMEM) /\ UNCHANGED <<pfiles, ft, vref>>
             [] OTHER ->
                  \E f \in free :
                    LET new == [ref |-> 1, mode |-> FmodeOf(oflags), vnode |-> NULL, pos |-> 0]
                    IN  IF target = NoEntry
                        THEN /\ Ret("open", p, -ENOENT)
                             /\ ft' = OpenFailed([ft EXCEPT ![f] = new], vref, f)[1]
                             /\ UNCHANGED <<pfiles, vref>>
                        ELSE LET opened == [ft EXCEPT ![f] = [new EXCEPT !.vnode = target]]
                                 vr     == [vref EXCEPT ![target] = @ + 1]
                             IN  IF target \in Dirs /\ (new.mode & FMODE_WRITE) # 0
                                 THEN /\ ft' = OpenFailed(opened, vr, f)[1]
                                      /\ vref' = OpenFailed(opened, vr, f)[2]
                                      /\ Ret("open", p, -EISDIR)
                                      /\ UNCHANGED pfiles
                                 ELSE /\ ft' = opened
                                      /\ vref' = vr
                                      /\ pfiles' = [pfiles EXCEPT ![p][fd] = f]
                                      /\ Ret("open", p, fd)
    /\ UNCHANGED <<alive, vlen, pending, panic>>

(* The common prefix of the calls on a descriptor: fd in range, else       *)
(* -EBADF; fget(fd), and -EBADF if the slot is empty.                     *)
BadFd(p, fd) == fd \notin Fds \/ pfiles[p][fd] = NULL

(* Mutation of do_close: one fput for the two references. *)
CloseEffectSingleFput(t, vr, f) == Fput(Fref(t, f), vr, f)

(* The effect of do_close on an open descriptor: fget, clear the slot,     *)
(* fput, fput.                                                            *)
CloseEffect(t, vr, f) ==
    LET once == Fput(Fref(t, f), vr, f)
    IN  Fput(once[1], once[2], f)

(* do_close(fd) *)
DoClose(p, fd) ==
    /\ Running(p)
    /\ IF BadFd(p, fd)
       THEN Ret("close", p, -EBADF) /\ UNCHANGED <<pfiles, ft, vref>>
       ELSE LET c == CloseEffect(ft, vref, pfiles[p][fd])
            IN  /\ pfiles' = [pfiles EXCEPT ![p][fd] = NULL]
                /\ ft' = c[1] /\ vref' = c[2]
                /\ Ret("close", p, 0)
    /\ UNCHANGED <<alive, vlen, pending, panic>>

(* do_dup(fd): fget, get_empty_fd; with no free descriptor the reference  *)
(* is put back and -EMFILE returned; else the new slot shares the file.  *)
DoDup(p, fd) ==
    /\ Running(p)
    /\ IF BadFd(p, fd)
       THEN Ret("dup", p, -EBADF) /\ UNCHANGED <<pfiles, ft, vref>>
       ELSE LET f == pfiles[p][fd]
                n == GetEmptyFd(p)
            IN  IF n = -EMFILE
                THEN /\ ft' = Fput(Fref(ft, f), vref, f)[1]
                     /\ Ret("dup", p, -EMFILE) /\ UNCHANGED <<pfiles, vref>>
                ELSE /\ ft' = Fref(ft, f)
                     /\ pfiles' = [pfiles EXCEPT ![p][n] = f]
                     /\ Ret("dup", p, n) /\ UNCHANGED vref
    /\ UNCHANGED <<alive, vlen, pending, panic>>

(* do_dup2(ofd, nfd): both in range, fget(ofd); the same descriptor puts   *)
(* the reference back; an open nfd is do_close'd first.                   *)
DoDup2(p, ofd, nfd) ==
    /\ Running(p)
    /\ IF BadFd(p, ofd) \/ nfd \notin Fds
       THEN Ret("dup2", p, -EBADF) /\ UNCHANGED <<pfiles, ft, vref>>
       ELSE LET f   == pfiles[p][ofd]
                got == Fref(ft, f)
            IN  IF ofd = nfd
                THEN /\ ft' = Fput(got, vref, f)[1]
                     /\ Ret("dup2", p, nfd) /\ UNCHANGED <<pfiles, vref>>
                ELSE LET c == IF pfiles[p][nfd] = NULL THEN <<got, vref>>
                              ELSE CloseEffect(got, vref, pfiles[p][nfd])
                     IN  /\ ft' = c[1] /\ vref' = c[2]
                         /\ pfiles' = [pfiles EXCEPT ![p][nfd] = f]
                         /\ Ret("dup2", p, nfd)
    /\ UNCHANGED <<alive, vlen, pending, panic>>

(***************************************************************************)
(* do_read(fd, buf, nbytes) up to the vnode read: fget(fd); -EBADF if the  *)
(* file is not open for reading, -EISDIR for a directory (both after       *)
(* fput); else the read is called at the current f_pos and may sleep.      *)
(***************************************************************************)
DoReadCall(p, fd, nbytes) ==
    /\ Running(p)
    /\ IF BadFd(p, fd)
       THEN Ret("read", p, -EBADF) /\ UNCHANGED <<ft, pending>>
       ELSE LET f == pfiles[p][fd]
            IN  CASE (ft[f].mode & FMODE_READ) # FMODE_READ ->
                        Ret("read", p, -EBADF) /\ UNCHANGED <<ft, pending>>
                  [] ft[f].vnode \in Dirs ->
                        Ret("read", p, -EISDIR) /\ UNCHANGED <<ft, pending>>
                  [] OTHER ->
                        /\ ft' = Fref(ft, f)
                        /\ pending' = [pending EXCEPT ![p] =
                               [call |-> "read", file |-> f, pos |-> ft[f].pos, n |-> nbytes]]
                        /\ Ret("sleep", p, 0)
    /\ UNCHANGED <<alive, pfiles, vref, vlen, panic>>

(* What the vnode read returns: the bytes from pos up to the end of file. *)
BytesRead(v, pos, n) == IF pos >= vlen[v] THEN 0 ELSE Min({n, vlen[v] - pos})

(* do_read after the vnode read returns: f_pos += bytes_read; fput. *)
DoReadReturn(p) ==
    /\ p \in alive /\ pending[p].call = "read" /\ panic = FALSE
    /\ LET f == pending[p].file
           b == BytesRead(ft[f].vnode, pending[p].pos, pending[p].n)
       IN  /\ ft' = Fput([ft EXCEPT ![f].pos = @ + b], vref, f)[1]
           /\ Ret("read", p, b)
    /\ pending' = [pending EXCEPT ![p] = NoCall]
    /\ UNCHANGED <<alive, pfiles, vref, vlen, panic>>

(***************************************************************************)
(* do_write(fd, buf, nbytes) up to the vnode write: fget(fd); -EBADF if    *)
(* the file is not open for writing; with FMODE_APPEND, do_lseek(fd, 0,    *)
(* SEEK_END) first (its own fget and fput on the same slot); then the      *)
(* write is called at f_pos and may sleep.  Writes are tried only where    *)
(* they end within MAX_LEN.                                                *)
(***************************************************************************)
DoWriteCall(p, fd, nbytes) ==
    /\ Running(p)
    /\ IF BadFd(p, fd)
       THEN Ret("write", p, -EBADF) /\ UNCHANGED <<ft, pending>>
       ELSE LET f   == pfiles[p][fd]
                pos == IF (ft[f].mode & FMODE_APPEND) = FMODE_APPEND
                       THEN vlen[ft[f].vnode] ELSE ft[f].pos
            IN  IF (ft[f].mode & FMODE_WRITE) # FMODE_WRITE
                THEN Ret("write", p, -EBADF) /\ UNCHANGED <<ft, pending>>
                ELSE /\ pos + nbytes <= MAX_LEN
                     /\ ft' = Fref([ft EXCEPT ![f].pos = pos], f)
                     /\ pending' = [pending EXCEPT ![p] =
                            [call |-> "write", file |-> f, pos |-> pos, n |-> nbytes]]
                     /\ Ret("sleep", p, 0)
    /\ UNCHANGED <<alive, pfiles, vref, vlen, panic>>

(***************************************************************************)
(* do_write after the vnode write returns: the file now extends at least   *)
(* to pos + nbytes; f_pos += bytes_written; the KASSERT that f_pos of a    *)
(* regular file is within vn_len; fput.                                    *)
(***************************************************************************)
DoWriteReturn(p) ==
    /\ p \in alive /\ pending[p].call = "write" /\ panic = FALSE
    /\ LET f   == pending[p].file
           v   == ft[f].vnode
           len == Max({vlen[v], pending[p].pos + pending[p].n})
           pos == ft[f].pos + pending[p].n
       IN  /\ vlen' = [vlen EXCEPT ![v] = len]
           /\ ft' = Fput([ft EXCEPT ![f].pos = pos], vref, f)[1]
           /\ panic' = (v \in Regs /\ pos > len)
           /\ Ret("write", p, pending[p].n)
    /\ pending' = [pending EXCEPT ![p] = NoCall]
    /\ UNCHANGED <<alive, pfiles, vref>>

(* The position do_lseek computes, or -1 for a negative one. *)
SeekTo(f, offset, whence) ==
    CASE whence = SEEK_SET -> offset
      [] whence = SEEK_CUR -> ft[f].pos + offset
      [] whence = SEEK_END -> vlen[ft[f].vnode] + offset

(* do_lseek(fd, offset, whence): fget; -EINVAL for another whence or a     *)
(* negative result; else f_pos is set; fput.  Positions past MAX_LEN are   *)
(* not tried.                                                              *)
DoLseek(p, fd, offset, whence) ==
    /\ Running(p)
    /\ IF BadFd(p, fd)
       THEN Ret("lseek", p, -EBADF) /\ UNCHANGED ft
       ELSE LET f == pfiles[p][fd]
            IN  IF whence \notin {SEEK_SET, SEEK_CUR, SEEK_END} \/ SeekTo(f, offset, whence) < 0
                THEN Ret("lseek", p, -EINVAL) /\ UNCHANGED ft
                ELSE /\ SeekTo(f, offset, whence) <= MAX_LEN
                     /\ ft' = [ft EXCEPT ![f].pos = SeekTo(f, offset, whence)]
                     /\ Ret("lseek", p, SeekTo(f, offset, whence))
    /\ UNCHANGED <<alive, pfiles, vref, vlen, pending, panic>>

(* do_getdent(fd, dirp): fget; -ENOTDIR unless a directory; readdir at     *)
(* f_pos returns one entry or 0 at the end, f_pos advances; fput.          *)
DoGetdent(p, fd) ==
    /\ Running(p)
    /\ IF BadFd(p, fd)
       THEN Ret("getdent", p, -EBADF) /\ UNCHANGED ft
       ELSE LET f == pfiles[p][fd]
                r == IF ft[f].pos < NDIRENT THEN 1 ELSE 0
            IN  IF ft[f].vnode \notin Dirs
                THEN Ret("getdent", p, -ENOTDIR) /\ UNCHANGED ft
                ELSE /\ ft' = [ft EXCEPT ![f].pos = @ + r]
                     /\ Ret("getdent", p, r)
    /\ UNCHANGED <<alive, pfiles, vref, vlen, pending, panic>>

(* The file table part of do_fork: the child gets the parent's slots and   *)
(* fref is called once per non-NULL slot.                                 *)
DoFork(p, c) ==
    /\ Running(p) /\ c \notin alive
    /\ alive' = alive \cup {c}
    /\ pfiles' = [pfiles EXCEPT ![c] = pfiles[p]]
    /\ ft' = [f \in FileSlots |->
                [ft[f] EXCEPT !.ref = @ + Cardinality({fd \in Fds : pfiles[p][fd] = f})]]
    /\ Ret("fork", p, 0)
    /\ UNCHANGED <<vref, vlen, pending, panic>>

(* proc_cleanup: do_close of every open descriptor, in order. *)
RECURSIVE CloseFrom(_, _, _)
CloseFrom(c, p, fd) ==
    IF fd = NFILES THEN c
    ELSE CloseFrom(IF pfiles[p][fd] = NULL THEN c
                   ELSE CloseEffect(c[1], c[2], pfiles[p][fd]), p, fd + 1)

DoExit(p) ==
    /\ Running(p)
    /\ alive' = alive \ {p}
    /\ pfiles' = [pfiles EXCEPT ![p] = [fd \in Fds |-> NULL]]
    /\ ft' = CloseFrom(<<ft, vref>>, p, 0)[1]
    /\ vref' = CloseFrom(<<ft, vref>>, p, 0)[2]
    /\ Ret("exit", p, 0)
    /\ UNCHANGED <<vlen, pending, panic>>

(* One process with no open files. *)
Init ==
    /\ alive = {FirstProc}
    /\ pfiles = [p \in Procs |-> [fd \in Fds |-> NULL]]
    /\ ft = [f \in FileSlots |-> FreeFile]
    /\ vref = [v \in Vnodes |-> 0]
    /\ vlen = [v \in Vnodes |-> 0]
    /\ pending = [p \in Procs |-> NoCall]
    /\ panic = FALSE
    /\ op = Call("none", FirstProc, 0)

(* The arguments: the oflags of OFlags, every descriptor and one either   *)
(* side, one-byte transfers, small offsets and every whence.      *)
FdArgs  == -1 .. NFILES
Sizes   == {1}
Offsets == -1 .. MAX_LEN
Whences == {SEEK_SET, SEEK_CUR, SEEK_END, 3}

Next ==
    \E p \in Procs :
        \/ \E fl \in OFlags, t \in Vnodes \cup {NoEntry} : DoOpen(p, fl, t)
        \/ \E fd \in FdArgs : DoClose(p, fd)
        \/ \E fd \in FdArgs : DoDup(p, fd)
        \/ \E o, n \in FdArgs : DoDup2(p, o, n)
        \/ \E fd \in FdArgs, n \in Sizes : DoReadCall(p, fd, n)
        \/ DoReadReturn(p)
        \/ \E fd \in FdArgs, n \in Sizes : DoWriteCall(p, fd, n)
        \/ DoWriteReturn(p)
        \/ \E fd \in FdArgs, off \in Offsets, w \in Whences : DoLseek(p, fd, off, w)
        \/ \E fd \in FdArgs : DoGetdent(p, fd)
        \/ \E c \in Procs : DoFork(p, c)
        \/ DoExit(p)

(* The vnode operations return: a sleeping call eventually completes. *)
Spec == Init /\ [][Next]_vars /\ \A p \in Procs : WF_vars(DoReadReturn(p) \/ DoWriteReturn(p))

(* op only records the last call: no step depends on it, so states that   *)
(* differ only in op are the same state for the checker.                  *)
StateView == <<alive, pfiles, ft, vref, vlen, pending, panic>>

-----------------------------------------------------------------------------
(* The type invariant. *)
TypeOK ==
    /\ alive \subseteq Procs
    /\ pfiles \in [Procs -> [Fds -> FileSlots \cup {NULL}]]
    /\ ft \in [FileSlots -> [ref : Nat, mode : 0 .. 7, vnode : Vnodes \cup {NULL}, pos : Nat]]
    /\ vref \in [Vnodes -> Nat]
    /\ vlen \in [Vnodes -> 0 .. MAX_LEN]
    /\ panic \in BOOLEAN

(***************************************************************************)
(* f_refcount counts exactly the references to the file: the descriptor   *)
(* slots of the live processes that hold it and the calls asleep in a      *)
(* vnode operation on it; a file with no reference is free, and every     *)
(* descriptor slot holds a file with a vnode.  This is the "exactly one    *)
(* fput per reference" of the specification, through dup, dup2 over an     *)
(* open descriptor, close, fork, exit, and the error paths.                *)
(***************************************************************************)
RefCountsExact ==
    \A f \in FileSlots :
        /\ ft[f].ref = Cardinality({pf \in alive \X Fds : pfiles[pf[1]][pf[2]] = f})
                       + Cardinality({p \in Procs : pending[p].file = f})
        /\ ft[f].ref = 0 => ft[f] = FreeFile
        /\ ft[f].ref > 0 => ft[f].vnode # NULL

(* vn_refcount counts the open files on the vnode: open_namev's reference  *)
(* is kept by the file and given back by its last fput, also on the       *)
(* EISDIR path of do_open.                                                *)
VnodeRefsExact ==
    \A v \in Vnodes : vref[v] = Cardinality({f \in FileSlots : ft[f].ref > 0 /\ ft[f].vnode = v})

(* A call that fails leaves the descriptor tables, the files and the      *)
(* vnodes as they were: every error path puts back what it took.          *)
ErrorsLeaveNoTrace ==
    [][op'.ret < 0 => UNCHANGED <<pfiles, ft, vref, vlen>>]_vars

(* The KASSERT of do_write: after a write, f_pos of a regular file is      *)
(* within vn_len.                                                          *)
WriteWithinLength == panic = FALSE
====

------------------------------ MODULE FileTable ------------------------------
(***************************************************************************)
(* The open-file layer of src/src/kernel/fs/file.c, as the system calls    *)
(* of src/src/kernel/syscall.c drive it from the user task (the shell,     *)
(* made by task_user_create_new), together with the file ends of the pipes *)
(* pipe_alloc makes: the stdin and stdout pipes of stdio_init, and the     *)
(* pipes of syscall_pipe.                                                  *)
(*                                                                         *)
(* A file_t is a number of Files with its ref_count, what it was opened as *)
(* (kind: "inode", "pipe_r", "pipe_w", or "zero" once file_close's memset  *)
(* cleared it) and its pipe.  fdt is open_files of the task, with index -1 *)
(* added: the packed task_info_t puts current_dir just before              *)
(* open_files, so open_files[-1] is the current directory's dentry, Cwd.   *)
(* Slots 2 .. 15 are never written by task_create_new (kmalloc does not    *)
(* zero), so each holds NULL or a Wild pointer.  A dentry used as a file_t *)
(* has valid (always 0, dentry_alloc) where ref_count is, and path where   *)
(* stat is.  Page 0 is identity-mapped and holds the real-mode interrupt   *)
(* table, so a NULL file_t reads non-zero words: its operation pointers    *)
(* are not NULL and calling one jumps into that table.                     *)
(*                                                                         *)
(* Each system call is one step: the file-table updates happen under       *)
(* fhead.mutex or touch only the caller's own open_files; one task makes   *)
(* the calls.  File contents and pipe traffic are the business of          *)
(* Ext2File and Pipe and are left out; what a read, write or fstat does to *)
(* this state is whether it returns.                                       *)
(***************************************************************************)
EXTENDS Integers, Sequences, FiniteSets, FiniteSetsExt, Functions

CONSTANTS
    NFd,        \* OPEN_FILES_COUNT
    MaxFiles,   \* bound on the file_t that kmalloc hands out
    MaxPipes,   \* bound on the pipes pipe_alloc makes
    PathKind,   \* path -> "file", "dir" or "none": what dir_get finds
    Flags,      \* the flag sets open is called with
    Null, Wild, Cwd

Files == 1 .. MaxFiles
Pipes == 1 .. MaxPipes
Fds == -1 .. NFd - 1

VARIABLES
    fdt,       \* current_task->open_files, index -1 being current_dir
    file,      \* file_t -> [ref, kind, pipe]
    used,      \* the file_t kmalloc'd so far (fhead.ulist)
    flist,     \* fhead.flist, head first
    pipe,      \* pipe_t -> [ropen, wopen] (read_open, write_open)
    npipes,    \* pipes made so far
    cwdValid,  \* the valid field of the current directory's dentry
    status     \* "ok", "crash" (a call through a bad pointer), "hang"

vars == <<fdt, file, used, flist, pipe, npipes, cwdValid, status>>

\* The kernel's own pointers to stdio file ends: stdin_read and stdout_write
\* (globals of stdio_handler.c), stdin_write and stdout_read (statics).
KernelHeld == 1 .. 4

Zeroed == [ref |-> 0, kind |-> "zero", pipe |-> Null]

\* file_alloc: the head of the free list, or a new kmalloc'd file_t;
\* ref_count 1, operations NULL.  The new file's number.
NewFile(fl, us) == IF fl # << >> THEN Head(fl) ELSE Cardinality(us) + 1
Popped(fl) == IF fl # << >> THEN Tail(fl) ELSE fl
AllocNum == NewFile(flist, used)
AllocList == Popped(flist)

\* The allocations left before kmalloc reaches the bound.
Spare == Len(flist) + MaxFiles - Cardinality(used)
CanAlloc == Spare >= 1

\* fd_alloc's scan: the first slot from 0 that holds NULL, or -1.
FreeFd(t) == IF \E i \in 0 .. NFd - 1 : t[i] = Null
             THEN Min({i \in 0 .. NFd - 1 : t[i] = Null}) ELSE -1

\* file_close's last reference: memset(file, 0), push on fhead.flist, and
\* call the close pointer it has just zeroed.
LastClose(f) ==
    /\ file' = [file EXCEPT ![f] = Zeroed]
    /\ flist' = <<f>> \o flist
    /\ status' = "crash"

-----------------------------------------------------------------------------

\* task_create_new: a kmalloc'd task_info_t whose open_files it never
\* writes, each slot NULL or a Wild pointer, and whose current_dir is NULL.
CreateNewFds == {t \in [Fds -> {Null, Wild}] : t[-1] = Null}

\* task_user_create_new: task_create_new, then open_files[0] = stdin_read
\* and open_files[1] = stdout_write; current_dir is set by the shell's
\* dir_get("/") before its first call.
UserFds == {[t EXCEPT ![-1] = Cwd, ![0] = 1, ![1] = 4] : t \in CreateNewFds}

\* pipe_alloc's two files for pipe p: the read end (readp, pipe_read) and
\* the write end (writep, pipe_write), both closed by pipe_close.
PipeEnds(fl, fr, fw, p, n) ==
    [fl EXCEPT ![fr] = [ref |-> n, kind |-> "pipe_r", pipe |-> p],
               ![fw] = [ref |-> n, kind |-> "pipe_w", pipe |-> p]]

\* stdio_init: pipe_alloc for stdin (files 1, 2: stdin_read, stdin_write)
\* and stdout (files 3, 4: stdout_read, stdout_write); then
\* task_user_create_new gives the shell stdin_read and stdout_write as
\* fds 0 and 1, without file_dup; shell_main sets current_dir.
Init ==
    /\ fdt \in UserFds
    /\ file = PipeEnds(PipeEnds([f \in Files |-> Zeroed], 1, 2, 1, 1), 3, 4, 2, 1)
    /\ used = 1 .. 4
    /\ flist = << >>
    /\ pipe = [p \in Pipes |-> IF p <= 2 THEN [ropen |-> 1, wopen |-> 1]
                                        ELSE [ropen |-> 0, wopen |-> 0]]
    /\ npipes = 2
    /\ cwdValid = 0
    /\ status = "ok"

\* syscall_open -> file_open(path, flags).  dir_get of a relative path reads
\* current_dir->path: with current_dir NULL it is a word of page 0 and
\* finds nothing.  A missing path with O_CREAT goes to dir_create, which
\* locks the inode dinode_alloc returned locked and never returns.  A
\* directory opened other than O_RDONLY is refused.  Otherwise file_alloc
\* and fd_alloc, which file_dup's the file into the slot: ref_count 2.
\* With no free slot the file is closed, its last reference.
SysOpen(path, flags) ==
    LET k  == IF fdt[-1] = Cwd THEN PathKind[path] ELSE "none"
        f  == AllocNum
        fd == FreeFd(fdt)
    IN  /\ status = "ok"
        /\ \/ /\ k = "none" /\ "creat" \in flags
              /\ status' = "hang"
              /\ UNCHANGED <<fdt, file, used, flist, pipe, npipes, cwdValid>>
           \/ /\ k = "file" \/ (k = "dir" /\ flags = {"rdonly"})
              /\ CanAlloc
              /\ used' = used \cup {f}
              /\ UNCHANGED <<pipe, npipes, cwdValid>>
              /\ IF fd = -1
                 THEN /\ LastClose(f)
                      /\ UNCHANGED fdt
                 ELSE /\ fdt' = [fdt EXCEPT ![fd] = f]
                      /\ file' = [file EXCEPT ![f] = [ref |-> 2, kind |-> "inode",
                                                      pipe |-> Null]]
                      /\ flist' = AllocList
                      /\ status' = "ok"

\* syscall_close -> file_close(open_files[fd]), then open_files[fd] = 0.
\* ref_count is a uint32_t: --ref_count > 0 is ref_count # 1.  NULL's
\* ref_count is the first word of page 0, never 1; a dentry's is its valid
\* field.
SysClose(fd) ==
    LET x == fdt[fd]
    IN  /\ status = "ok"
        /\ UNCHANGED <<used, pipe, npipes>>
        /\ \/ /\ x \in Files /\ file[x].ref # 1
              /\ file' = [file EXCEPT ![x].ref = @ - 1]
              /\ fdt' = [fdt EXCEPT ![fd] = Null]
              /\ UNCHANGED <<flist, cwdValid, status>>
           \/ /\ x \in Files /\ file[x].ref = 1
              /\ LastClose(x)
              /\ UNCHANGED <<fdt, cwdValid>>
           \/ /\ x = Cwd
              /\ cwdValid' = cwdValid - 1
              /\ fdt' = [fdt EXCEPT ![fd] = Null]
              /\ IF cwdValid = 1 THEN status' = "crash" ELSE status' = "ok"
              /\ UNCHANGED <<file, flist>>
           \/ /\ x \in {Null, Wild}
              /\ fdt' = [fdt EXCEPT ![fd] = Null]
              /\ status' \in IF x = Null THEN {"ok"} ELSE {"ok", "crash"}
              /\ UNCHANGED <<file, flist, cwdValid>>

\* syscall_dup -> fd_alloc(open_files[old_fd]): the first free slot gets
\* file_dup of whatever the old slot holds.
SysDup(fd) ==
    LET x == fdt[fd]
        i == FreeFd(fdt)
    IN  /\ status = "ok"
        /\ i # -1
        /\ fdt' = [fdt EXCEPT ![i] = x]
        /\ file' = IF x \in Files THEN [file EXCEPT ![x].ref = @ + 1] ELSE file
        /\ cwdValid' = IF x = Cwd THEN cwdValid + 1 ELSE cwdValid
        /\ UNCHANGED <<used, flist, pipe, npipes, status>>

\* syscall_pipe: pipe_alloc takes two files (read end, then write end) and
\* a pipe with both ends open; fd_alloc file_dup's each into a slot.  With
\* no slot for the read end both files are closed, the read end's last
\* reference first; with none for the write end the read end's slot is
\* cleared and both closed: the read end drops to 1, the write end to 0.
SysPipe ==
    LET fr  == AllocNum
        fw  == NewFile(AllocList, used \cup {fr})
        p   == npipes + 1
        rfd == FreeFd(fdt)
        wfd == FreeFd([fdt EXCEPT ![rfd] = fr])
        ends == PipeEnds(file, fr, fw, p, 2)
    IN  /\ status = "ok"
        /\ npipes < MaxPipes /\ Spare >= 2
        /\ used' = used \cup {fr, fw}
        /\ npipes' = p
        /\ pipe' = [pipe EXCEPT ![p] = [ropen |-> 1, wopen |-> 1]]
        /\ UNCHANGED cwdValid
        /\ \/ /\ rfd = -1
              /\ file' = [file EXCEPT ![fr] = Zeroed]
              /\ flist' = <<fr>> \o Popped(AllocList)
              /\ status' = "crash"
              /\ UNCHANGED fdt
           \/ /\ rfd # -1 /\ wfd = -1
              /\ file' = [ends EXCEPT ![fr].ref = 1, ![fw] = Zeroed]
              /\ flist' = <<fw>> \o Popped(AllocList)
              /\ status' = "crash"
              /\ UNCHANGED fdt
           \/ /\ rfd # -1 /\ wfd # -1
              /\ fdt' = [fdt EXCEPT ![rfd] = fr, ![wfd] = fw]
              /\ file' = ends
              /\ flist' = Popped(AllocList)
              /\ status' = "ok"

\* Whether file_read, file_write or file_stat on what the slot holds can
\* call through a pointer that is no file operation.  NULL: the words of
\* the interrupt table where readp/read, writep/write and stat lie are not
\* zero.  The dentry: readp is the low half of its ref_count (not zero) and
\* read is its free-list next, stale or NULL; writep is the high half (zero,
\* -1 returned); stat is its path, a string called as code.
Crashes(x, op) ==
    \/ x \in {Null, Wild}
    \/ x = Cwd /\ op \in {"read", "fstat"}

\* syscall_read, syscall_write, syscall_fstat on fd.  A call that returns
\* leaves this state as it was.
SysAccess(fd, op) ==
    /\ status = "ok"
    /\ Crashes(fdt[fd], op)
    /\ status' = "crash"
    /\ UNCHANGED <<fdt, file, used, flist, pipe, npipes, cwdValid>>

Next ==
    \/ \E path \in DOMAIN PathKind, flags \in Flags : SysOpen(path, flags)
    \/ \E fd \in Fds : SysClose(fd) \/ SysDup(fd)
    \/ SysPipe
    \/ \E fd \in Fds, op \in {"read", "write", "fstat"} : SysAccess(fd, op)

Spec == Init /\ [][Next]_vars

-----------------------------------------------------------------------------

TypeOK ==
    /\ fdt \in [Fds -> Files \cup {Null, Wild, Cwd}]
    /\ \A f \in Files : file[f].kind \in {"inode", "pipe_r", "pipe_w", "zero"}
    /\ used \subseteq Files /\ Range(flist) \subseteq used
    /\ npipes \in 2 .. MaxPipes
    /\ status \in {"ok", "crash", "hang"}

\* A file_t is held by each descriptor slot that points at it and by the
\* kernel pointer to it, if any.
Holders(f) == Cardinality({i \in Fds : fdt[i] = f}) + IF f \in KernelHeld THEN 1 ELSE 0

\* Once nothing holds the write end of a pipe any more, the pipe is marked
\* write-closed (pipe_close's write_open = 0), so that pipe_read returns -1
\* and pipe_unbuf_read does not wait on b_read for a writer that is gone:
\* fd_alloc's file_dup, file_close's count and the close pointer set by
\* pipe_alloc have to agree for this.
ClosedEndSignalled ==
    status = "ok" =>
        \A p \in 1 .. npipes :
            (\A f \in used : file[f].kind = "pipe_w" /\ file[f].pipe = p
                               => Holders(f) = 0)
            => pipe[p].wopen = 0

\* Every system call the shell makes returns: none calls through NULL, a
\* zeroed close pointer, or a dentry taken for a file.
CallsReturn == status # "crash"

\* No file_t has fewer references counted than it has holders, so that no
\* close frees a file another descriptor or the kernel still uses
\* (task_user_create_new installs stdin_read and stdout_write uncounted).
RefsCoverHolders ==
    \A f \in used : file[f].kind # "zero" => file[f].ref >= Holders(f)
====

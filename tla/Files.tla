------------------------------- MODULE Files -------------------------------
(***************************************************************************)
(* The open files of processes: the descriptor tables of fs/file.c and     *)
(* fs/fs.c, the counts of the VFS inodes behind them (vfs/inode.c,         *)
(* vfs/vfsfile.c, vfs/vfspath.c), and what fork, exec and exit do to both. *)
(*                                                                         *)
(* The kernel is not preempted and no file lock is ever found taken, so a  *)
(* call is one step, except the read of stdin, which sleeps.  A path is    *)
(* the inode it leads to, or NoNode.  CLONE_FS is passed by no caller:     *)
(* every process has a files_struct of its own, with files_count 1.        *)
(***************************************************************************)
EXTENDS Integers, FiniteSets, Functions

CONSTANTS
    Proc,               \* slots for processes
    Shell,              \* the process user_main has become
    Dir, Plain,         \* inodes of the file system
    Root,               \* its root directory
    stdin, Screens,     \* the device inodes: stdin, and those like stdout
    NoNode,             \* NULL
    FILES_STRUCT_NENTRY,
    MaxOpen,            \* bound on the descriptors open at once, in all tables
    MaxLost             \* bound on the references a history loses

Dev  == {stdin} \cup Screens
Node == Dir \cup Plain \cup Dev
FD   == 0 .. FILES_STRUCT_NENTRY - 1

ASSUME ConstantsAssumption ==
    /\ IsFiniteSet(Proc)
    /\ Shell \in Proc /\ Root \in Dir /\ NoNode \notin Node
    /\ Dir \cap Plain = {} /\ (Dir \cup Plain) \cap Dev = {} /\ stdin \notin Screens
    /\ FILES_STRUCT_NENTRY \in Nat \ {0} /\ MaxOpen \in Nat /\ MaxLost \in Nat

VARIABLES
    files,      \* files[p]: p's files_struct, or NoFiles
    live,       \* the processes that have not exited
    refs,       \* ref_count of every inode; one with 0 is not in memory
    opens,      \* open_count of every inode
    asleep,     \* asleep[p]: the descriptor p sleeps in read on, or -1
    lost,       \* history: references to an inode whose holder is gone
    halted      \* the operation whose assertion has stopped the kernel, or ""

vars == <<files, live, refs, opens, asleep, lost, halted>>
counts == <<refs, opens>>

-----------------------------------------------------------------------------
(* struct file and struct files_struct.  Between two calls the status of a *)
(* descriptor is FD_NONE or FD_OPENED; FD_INIT and FD_CLOSED only occur    *)
(* within one.                                                             *)

NoFile == [status |-> "NONE", open_count |-> 0, node |-> NoNode, mode |-> {}]
NoFiles == [pwd |-> NoNode, fd |-> [f \in FD |-> NoFile]]
Opened(n, mode) == [status |-> "OPENED", open_count |-> 1, node |-> n, mode |-> mode]

\* The descriptors of table t that are open.
OpenFds(t) == {f \in FD : t.fd[f].status = "OPENED"}

\* How many of the descriptors F of t hold inode n.
Held(t, F, n) == Cardinality({f \in F \cap OpenFds(t) : t.fd[f].node = n})

\* How often n is the working directory t holds.
Pwd(t, n) == IF t.pwd = n THEN 1 ELSE 0

\* fd_array_alloc(NO_FD): the lowest free descriptor.
Alloc(t) == {f \in FD : /\ t.fd[f].status = "NONE"
                        /\ \A g \in 0..f-1 : t.fd[g].status # "NONE"}

\* t without the descriptors F.
Without(t, F) == [t EXCEPT !.fd = [f \in FD |-> IF f \in F THEN NoFile ELSE t.fd[f]]]

Total(count) == FoldFunction(+, 0, count)

\* fd2file for a process that runs in user mode
Runs(p) == p \in live /\ asleep[p] = -1 /\ halted = ""
Fd2File(p, f) == f \in OpenFds(files[p])

-----------------------------------------------------------------------------
(* The tables of inode operations.  __vop_op asserts that the operation is *)
(* there before it calls it.                                               *)

Ops(n) ==
    CASE n \in Dir   -> {"open", "close", "fstat", "fsync", "namefile", "getdirentry",
                         "reclaim", "gettype", "lookup"}
      [] n \in Plain -> {"open", "close", "read", "write", "fstat", "fsync", "reclaim",
                         "gettype", "tryseek", "truncate"}
      [] n \in Dev   -> {"open", "close", "read", "write", "fstat", "ioctl", "gettype",
                         "tryseek", "lookup"}

\* The assertion fails and the kernel stops.
Panic(op) ==
    /\ halted' = op
    /\ UNCHANGED <<files, live, refs, opens, asleep, lost>>

\* The open flags: the access mode, and which of the other four are set.
Flags == [acc : {{"r"}, {"w"}, {"r", "w"}},
          set : SUBSET {"CREAT", "EXCL", "TRUNC", "APPEND"}]

\* vop_open: sfs_opendir, sfs_openfile, and dev_open with stdin_open and stdout_open
VopOpen(n, fl) ==
    CASE n \in Dir   -> fl.acc = {"r"} /\ "APPEND" \notin fl.set
      [] n \in Plain -> TRUE
      [] n = stdin   -> fl.acc = {"r"} /\ fl.set = {}
      [] n \in Screens -> fl.acc = {"w"} /\ fl.set = {}

Excluded(fl) == {"CREAT", "EXCL"} \subseteq fl.set
Truncates(fl) == fl.set \cap {"CREAT", "TRUNC"} # {}

\* The flags that vfs_open does not refuse at once.
Consistent == {fl \in Flags : "TRUNC" \in fl.set => "w" \in fl.acc}

\* The flags with which vfs_open of n comes past vop_open.
Accepted == [n \in Node |-> {fl \in Consistent : ~Excluded(fl) /\ VopOpen(n, fl)}]

\* Those among them that make it call vop_truncate on an inode without it.
Untruncated ==
    [n \in Node |-> {fl \in Accepted[n] : Truncates(fl) /\ "truncate" \notin Ops(n)}]

\* The modes in which n can be opened.
Modes == [n \in Node |-> {fl.acc : fl \in Accepted[n] \ Untruncated[n]}]

-----------------------------------------------------------------------------
(* init_main has made the root directory the boot file system, which holds *)
(* a reference like its own pwd does; the device list holds the devices.   *)

Base(n) == CASE n = Root -> 2 [] n \in Dev -> 1 [] OTHER -> 0

FilesInit ==
    /\ files = [p \in Proc |-> IF p = Shell THEN [NoFiles EXCEPT !.pwd = Root] ELSE NoFiles]
    /\ live = {Shell}
    /\ refs = [n \in Node |-> Base(n) + (IF n = Root THEN 1 ELSE 0)]
    /\ opens = [n \in Node |-> 0]
    /\ asleep = [p \in Proc |-> -1]
    /\ lost = [n \in Node |-> 0]
    /\ halted = ""

-----------------------------------------------------------------------------
(* open                                                                    *)

\* No descriptor is free, the flags contradict each other, the path leads
\* nowhere, or vop_open refuses: every count is as before.
OpenRefused(p) == Runs(p) /\ UNCHANGED vars

\* A descriptor is reserved, and vfs_open goes on.
Opening(p) == Runs(p) /\ Alloc(files[p]) # {}

\* The file exists, and was to be created: vfs_open returns with the reference
\* that vfs_lookup took.
OpenExists(p, n) ==
    /\ Opening(p)
    /\ Total(lost) < MaxLost
    /\ refs' = [refs EXCEPT ![n] = @ + 1]
    /\ lost' = [lost EXCEPT ![n] = @ + 1]
    /\ UNCHANGED <<files, live, opens, asleep, halted>>

\* The path leads nowhere, and no file system has a vop_create; or a directory
\* is to be truncated.
OpenPanics(p, n) ==
    /\ Opening(p)
    /\ \/ n = NoNode /\ Panic("create")
       \/ n # NoNode /\ Untruncated[n] # {} /\ Panic("truncate")

Open(p, n, mode) ==
    /\ Opening(p)
    /\ Total(opens) < MaxOpen
    /\ \E f \in Alloc(files[p]) : files' = [files EXCEPT ![p].fd[f] = Opened(n, mode)]
    /\ refs' = [refs EXCEPT ![n] = @ + 1]
    /\ opens' = [opens EXCEPT ![n] = @ + 1]
    /\ UNCHANGED <<live, asleep, lost, halted>>

-----------------------------------------------------------------------------
(* close, dup and the calls on an open file                                *)

\* fd_array_close, fd_array_free and vfs_close of the descriptors F of p.
VfsClose(p, F) ==
    /\ refs'  = [n \in Node |-> refs[n] - Held(files[p], F, n)]
    /\ opens' = [n \in Node |-> opens[n] - Held(files[p], F, n)]

Close(p, f) ==
    /\ Runs(p) /\ Fd2File(p, f)
    /\ VfsClose(p, {f})
    /\ files' = [files EXCEPT ![p] = Without(@, {f})]
    /\ UNCHANGED <<live, asleep, lost, halted>>

\* dup2: f2 must be free.
Dup(p, f1, f2) ==
    /\ Runs(p) /\ Fd2File(p, f1)
    /\ files[p].fd[f2].status = "NONE"
    /\ Total(opens) < MaxOpen
    /\ files' = [files EXCEPT ![p].fd[f2] = Opened(files[p].fd[f1].node, files[p].fd[f1].mode)]
    /\ refs' = [refs EXCEPT ![files[p].fd[f1].node] = @ + 1]
    /\ opens' = [opens EXCEPT ![files[p].fd[f1].node] = @ + 1]
    /\ UNCHANGED <<live, asleep, lost, halted>>

\* file_read, file_write, file_seek, file_fstat, file_fsync and file_getdirentry
\* acquire the file, call the inode and release the file.
Calls == {"read", "write", "tryseek", "fstat", "fsync", "getdirentry"}

Allowed(file, op) ==
    /\ op = "read"  => "r" \in file.mode
    /\ op = "write" => "w" \in file.mode

Call(p, f, op) ==
    /\ Runs(p) /\ Fd2File(p, f)
    /\ LET file == files[p].fd[f]
       IN IF Allowed(file, op) /\ op \notin Ops(file.node) THEN Panic(op) ELSE UNCHANGED vars

\* dev_stdin_read finds no key: p sleeps with the file acquired...
ReadSleeps(p, f) ==
    /\ Runs(p) /\ Fd2File(p, f)
    /\ files[p].fd[f].node = stdin
    /\ files' = [files EXCEPT ![p].fd[f].open_count = @ + 1]
    /\ asleep' = [asleep EXCEPT ![p] = f]
    /\ UNCHANGED <<live, counts, lost, halted>>

\* ...and releases it when a key or a kill has woken it.
ReadEnds(p) ==
    /\ p \in live /\ asleep[p] # -1 /\ halted = ""
    /\ files' = [files EXCEPT ![p].fd[asleep[p]].open_count = @ - 1]
    /\ asleep' = [asleep EXCEPT ![p] = -1]
    /\ UNCHANGED <<live, counts, lost, halted>>

\* vfs_chdir.  What is no directory is refused, its reference dropped again.
Chdir(p, n) ==
    /\ Runs(p) /\ n \in Dir /\ n # files[p].pwd
    /\ files' = [files EXCEPT ![p].pwd = n]
    /\ refs' = [refs EXCEPT ![n] = @ + 1, ![files[p].pwd] = @ - 1]
    /\ UNCHANGED <<live, opens, asleep, lost, halted>>

-----------------------------------------------------------------------------
(* fork, exec and exit                                                     *)

\* Mutant: dup_files does not count the child's working directory.
CopiedFiles(t, n) == Held(t, FD, n)

\* The references to n that a copy of table t takes: the pwd and every open file.
Copied(t, n) == Held(t, FD, n) + Pwd(t, n)

\* copy_files and dup_files; open_count of a copied file starts at 1.
Fork(p, q) ==
    /\ Runs(p) /\ q \notin live /\ files[q] = NoFiles
    /\ Total(opens) + Cardinality(OpenFds(files[p])) <= MaxOpen
    /\ files' = [files EXCEPT ![q] =
                    [pwd |-> files[p].pwd,
                     fd  |-> [f \in FD |-> IF Fd2File(p, f)
                                           THEN Opened(files[p].fd[f].node, files[p].fd[f].mode)
                                           ELSE NoFile]]]
    /\ refs' = [n \in Node |-> refs[n] + Copied(files[p], n)]
    /\ opens' = [n \in Node |-> opens[n] + Held(files[p], FD, n)]
    /\ live' = live \cup {q}
    /\ UNCHANGED <<asleep, lost, halted>>

\* do_exit puts the files of a process that has an mm: files_destroy drops the
\* working directory and closes every file.
DoExit(p) ==
    /\ live' = live \ {p}
    /\ files' = [files EXCEPT ![p] = NoFiles]
    /\ refs' = [n \in Node |-> refs[n] - Copied(files[p], n)]
    /\ opens' = [n \in Node |-> opens[n] - Held(files[p], FD, n)]
    /\ UNCHANGED <<asleep, lost, halted>>

Exit(p) == Runs(p) /\ DoExit(p)

\* files_closeall leaves descriptors 0 and 1 open.
Closeall == FD \ {0, 1}

\* The table after files_closeall, and the references to n it drops.
Closed(p) == Without(files[p], Closeall)
Less(p, n) == Held(files[p], Closeall, n)

\* sysfile_open of the program fails: do_exit, with the old mm in place.
ExecNotOpened(p, n) ==
    /\ Runs(p)
    /\ n = NoNode \/ n \in Screens \/ Alloc(Closed(p)) = {}
    /\ DoExit(p)

\* load_icode has read the program and closed it...
ProgramRead(p, n) ==
    /\ Runs(p) /\ n \in Plain /\ Alloc(Closed(p)) # {}
    /\ files' = [files EXCEPT ![p] = Closed(p)]
    /\ refs' = [m \in Node |-> refs[m] - Less(p, m)]
    /\ opens' = [m \in Node |-> opens[m] - Less(p, m)]
    /\ UNCHANGED <<asleep, lost, halted>>

\* ...and sets up the new mm...
ExecLoads(p, n) == ProgramRead(p, n) /\ UNCHANGED live

\* ...or fails in the mm_map of the stack: do_exit, which does not put the files, as
\* there is no mm.
ExecFailsClosed(p, n) == ProgramRead(p, n) /\ live' = live \ {p}

\* load_icode fails, because the file is no program or stdin cannot be sought:
\* the old mm is gone, do_exit does not put the files, and the program is open.
ExecFails(p, n) ==
    /\ Runs(p) /\ n \in Plain \cup {stdin}
    /\ \E f \in Alloc(Closed(p)) :
          files' = [files EXCEPT ![p] = [Closed(p) EXCEPT !.fd[f] = Opened(n, {"r"})]]
    /\ refs' = [m \in Node |-> refs[m] - Less(p, m) + (IF m = n THEN 1 ELSE 0)]
    /\ opens' = [m \in Node |-> opens[m] - Less(p, m) + (IF m = n THEN 1 ELSE 0)]
    /\ live' = live \ {p}
    /\ UNCHANGED <<asleep, lost, halted>>

\* load_icode_read seeks, and directories have no vop_tryseek.
ExecPanics(p, n) ==
    /\ Runs(p) /\ n \in Dir /\ Alloc(Closed(p)) # {}
    /\ Panic("tryseek")

Next ==
    \E p \in Proc :
        \/ \E n \in Node : \/ OpenExists(p, n)
                           \/ \E mode \in Modes[n] : Open(p, n, mode)
                           \/ Chdir(p, n)
        \/ \E n \in Node \cup {NoNode} :
              \/ OpenPanics(p, n)
              \/ ExecNotOpened(p, n) \/ ExecLoads(p, n) \/ ExecFails(p, n)
              \/ ExecFailsClosed(p, n) \/ ExecPanics(p, n)
        \/ \E f \in FD : \/ Close(p, f) \/ ReadSleeps(p, f)
                         \/ \E g \in FD : Dup(p, f, g)
                         \/ \E op \in Calls : Call(p, f, op)
        \/ OpenRefused(p)
        \/ ReadEnds(p)
        \/ \E q \in Proc : Fork(p, q)
        \/ Exit(p)

Spec == FilesInit /\ [][Next]_vars

-----------------------------------------------------------------------------
(* Properties.                                                             *)

\* The references to n in the tables of all processes, dead ones included.
Holders(n) ==
    Cardinality({x \in Proc \X FD : Fd2File(x[1], x[2]) /\ files[x[1]].fd[x[2]].node = n})

Dirs(n) == Cardinality({p \in Proc : files[p].pwd = n})

\* The open_count of a descriptor is 1, and 2 while its process sleeps in read.
FilesSettled ==
    \A p \in Proc : \A f \in FD :
        files[p].fd[f].open_count = (IF Fd2File(p, f) THEN 1 ELSE 0) + (IF asleep[p] = f THEN 1 ELSE 0)

\* The counts of every inode are the references there are: one for each open
\* descriptor, working directory and owner in the kernel, and one for each that
\* vfs_open has lost.  So no inode is reclaimed while a descriptor leads to it, its
\* last close calls vop_close and its last reference vop_reclaim, and the assertions
\* of fd_array_release, files_destroy, inode_kill and inode_check hold, whatever
\* order processes open, dup, fork, exec and exit in, one of them asleep in read.
CountsExact ==
    /\ \A n \in Node :
        /\ opens[n] = Holders(n)
        /\ refs[n] = Holders(n) + Dirs(n) + Base(n) + lost[n]
    /\ FilesSettled

\* "vop_reclaim - Called when inode is no longer in use" (vfs/inode.h): an inode
\* that has references has a user.
UnusedReclaimed ==
    \A n \in Node : refs[n] > 0 => Holders(n) + Dirs(n) + Base(n) > 0

\* "only after do_wait function, all resources of the child proces are free"
\* (proc.c): a process that is gone holds no files.
ExitFreesFiles == \A p \in Proc \ live : files[p] = NoFiles

\* "On non-directory objects, return ENOTDIR" (vfs/inode.h, vop_getdirentry): the
\* call returns, it does not stop the kernel.
GetdirentryReturns == halted # "getdirentry"
=============================================================================

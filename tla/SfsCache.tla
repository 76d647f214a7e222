------------------------------ MODULE SfsCache ------------------------------
(***************************************************************************)
(* The inodes of the simple file system in memory: how sfs_load_inode      *)
(* finds or loads one, how the last vop_ref_dec makes sfs_reclaim write it *)
(* back and free it, and the locks that keep the two apart (fs_sem, and    *)
(* sem of every inode).                                                    *)
(*                                                                         *)
(* A step runs from one down() to the next, since a thread may sleep in    *)
(* any of them: in down on fs_sem, on sem, or, while it holds these, on    *)
(* io_sem when it reads or writes the disk.  nlinks is never 0: nothing    *)
(* unlinks a file.                                                         *)
(***************************************************************************)
EXTENDS Integers, FiniteSets

CONSTANTS
    Thread, Ino,
    NodeId,     \* the addresses inodes are allocated at
    NoThread, NoInode

ASSUME NamesAssumption ==
    /\ NoThread \notin Thread /\ NoInode \notin NodeId
    /\ IsFiniteSet(Thread)

Value == {0, 1}     \* what is in an inode: its block map and its size

VARIABLES
    node,       \* node[n]: the inode allocated at n, or Free
    links,      \* the nodes in the hash list
    fs_sem,     \* the thread that holds fs_sem
    disk,       \* disk[i]: inode i on the disk
    pc,         \* what each thread is about to do
    mine,       \* mine[t]: the node t works on and has a reference to, or NoInode
    want,       \* want[t]: the inode number t is loading
    latest,     \* history: what each inode had when it last was marked dirty
    synced      \* fs_cleanup has run

cachevars == <<node, links, fs_sem, disk, pc, mine, want, latest, synced>>

Free == [ino |-> 0, ref_count |-> 0, reclaim_count |-> 0, dirty |-> FALSE,
         din |-> 0, sem |-> NoThread]

\* lookup_sfs_nolock: the node of inode i in the hash list
Hashed(i) == {n \in links : node[n].ino = i}

Goto(t, l) == pc' = [pc EXCEPT ![t] = l]

CacheInit ==
    /\ node = [n \in NodeId |-> Free]
    /\ links = {}
    /\ fs_sem = NoThread
    /\ disk = [i \in Ino |-> 0]
    /\ pc = [t \in Thread |-> "run"]
    /\ mine = [t \in Thread |-> NoInode]
    /\ want = [t \in Thread |-> 0]
    /\ latest = disk
    /\ synced = FALSE

-----------------------------------------------------------------------------
(* sfs_load_inode                                                          *)

Load(t, i) ==
    /\ pc[t] = "run" /\ mine[t] = NoInode /\ ~synced
    /\ want' = [want EXCEPT ![t] = i]
    /\ Goto(t, "load")
    /\ UNCHANGED <<node, links, fs_sem, disk, mine, latest, synced>>

\* The reference of a lookup; the first after it had fallen to 0 also tells
\* the reclaim that is under way.
Referenced(nd) ==
    [nd EXCEPT !.ref_count = @ + 1,
               !.reclaim_count = IF nd.ref_count = 0 THEN @ + 1 ELSE @]

\* lock_sfs_fs, and the inode is in memory.
LoadHit(t) ==
    /\ pc[t] = "load" /\ fs_sem = NoThread
    /\ \E n \in Hashed(want[t]) :
          /\ node' = [node EXCEPT ![n] = Referenced(@)]
          /\ mine' = [mine EXCEPT ![t] = n]
    /\ Goto(t, "run")
    /\ UNCHANGED <<links, fs_sem, disk, want, latest, synced>>

\* lock_sfs_fs, and it is not: sfs_rbuf reads it with the lock held.
LoadMiss(t) ==
    /\ pc[t] = "load" /\ fs_sem = NoThread
    /\ Hashed(want[t]) = {}
    /\ fs_sem' = t
    /\ Goto(t, "create")
    /\ UNCHANGED <<node, links, disk, mine, want, latest, synced>>

\* sfs_create_inode and sfs_set_links
Create(t) ==
    /\ pc[t] = "create"
    /\ \E n \in NodeId :
          /\ node[n] = Free
          /\ node' = [node EXCEPT ![n] = [ino |-> want[t], ref_count |-> 1, reclaim_count |-> 1,
                                          dirty |-> FALSE, din |-> disk[want[t]], sem |-> NoThread]]
          /\ links' = links \cup {n}
          /\ mine' = [mine EXCEPT ![t] = n]
    /\ fs_sem' = NoThread
    /\ Goto(t, "run")
    /\ UNCHANGED <<disk, want, latest, synced>>

-----------------------------------------------------------------------------
(* Writing the file, and sfs_fsync                                         *)

\* lock_sin of sfs_io or sfs_truncfile...
WriteLock(t) ==
    /\ pc[t] = "run" /\ mine[t] # NoInode /\ ~synced
    /\ node[mine[t]].sem = NoThread
    /\ node' = [node EXCEPT ![mine[t]].sem = t]
    /\ Goto(t, "write")
    /\ UNCHANGED <<links, fs_sem, disk, mine, want, latest, synced>>

\* ...and unlock_sin.  The inode is marked dirty, unless only the count of its blocks
\* has grown (sfs_bmap_load_nolock), or a truncation has failed.
WriteDone(t) ==
    /\ pc[t] = "write"
    /\ \E v \in Value, marked \in BOOLEAN :
          LET dirty == node[mine[t]].dirty \/ marked
          IN /\ node' = [node EXCEPT ![mine[t]] =
                            [@ EXCEPT !.din = v, !.dirty = dirty, !.sem = NoThread]]
             /\ latest' = [latest EXCEPT ![node[mine[t]].ino] = IF dirty THEN v ELSE @]
    /\ Goto(t, "run")
    /\ UNCHANGED <<links, fs_sem, disk, mine, want, synced>>

\* sfs_fsync of n under the lock: dirty is reset, and sfs_wbuf begins...
SyncBegins(t, n) ==
    /\ node[n].sem = NoThread /\ node[n].dirty
    /\ node' = [node EXCEPT ![n].sem = t, ![n].dirty = FALSE]

\* ...and ends with the inode on the disk.
Written(n) == disk' = [disk EXCEPT ![node[n].ino] = node[n].din]

\* The fsync of a close, or one that a process asks for, finds n dirty.
Fsync(t) ==
    /\ pc[t] = "run" /\ mine[t] # NoInode /\ ~synced
    /\ node[mine[t]].dirty
    /\ Goto(t, "fsync")
    /\ UNCHANGED <<node, links, fs_sem, disk, mine, want, latest, synced>>

\* lock_sin, and it is still dirty...
FsyncLock(t) ==
    /\ pc[t] = "fsync"
    /\ SyncBegins(t, mine[t])
    /\ Goto(t, "fsync2")
    /\ UNCHANGED <<links, fs_sem, disk, mine, want, latest, synced>>

\* ...or somebody else has written it.
FsyncClean(t) ==
    /\ pc[t] = "fsync"
    /\ node[mine[t]].sem = NoThread /\ ~node[mine[t]].dirty
    /\ Goto(t, "run")
    /\ UNCHANGED <<node, links, fs_sem, disk, mine, want, latest, synced>>

FsyncDone(t) ==
    /\ pc[t] = "fsync2"
    /\ Written(mine[t])
    /\ node' = [node EXCEPT ![mine[t]].sem = NoThread]
    /\ Goto(t, "run")
    /\ UNCHANGED <<links, fs_sem, mine, want, latest, synced>>

-----------------------------------------------------------------------------
(* vop_ref_dec and sfs_reclaim                                             *)

RefDec(t) ==
    /\ pc[t] = "run" /\ mine[t] # NoInode /\ ~synced
    /\ node' = [node EXCEPT ![mine[t]].ref_count = @ - 1]
    /\ IF node[mine[t]].ref_count = 1
       THEN Goto(t, "reclaim") /\ UNCHANGED mine
       ELSE mine' = [mine EXCEPT ![t] = NoInode] /\ UNCHANGED pc
    /\ UNCHANGED <<links, fs_sem, disk, want, latest, synced>>

\* Mutant: the inode is taken to be unused if it has no reference now.
UnusedNow(nd) == nd.ref_count = 0

\* After --reclaim_count, nobody else is about to reclaim it or holds it.
Unused(nd) == nd.reclaim_count = 1 /\ nd.ref_count = 0

\* Mutant: -E_BUSY is returned without unlock_sfs_fs.
ReclaimBusyLocked(t) ==
    /\ pc[t] = "reclaim" /\ fs_sem = NoThread
    /\ ~Unused(node[mine[t]])
    /\ fs_sem' = t
    /\ node' = [node EXCEPT ![mine[t]].reclaim_count = @ - 1]
    /\ mine' = [mine EXCEPT ![t] = NoInode]
    /\ Goto(t, "run")
    /\ UNCHANGED <<links, disk, want, latest, synced>>

\* lock_sfs_fs, and the inode is in use again: -E_BUSY.
ReclaimBusy(t) ==
    /\ pc[t] = "reclaim" /\ fs_sem = NoThread
    /\ ~Unused(node[mine[t]])
    /\ node' = [node EXCEPT ![mine[t]].reclaim_count = @ - 1]
    /\ mine' = [mine EXCEPT ![t] = NoInode]
    /\ Goto(t, "run")
    /\ UNCHANGED <<links, fs_sem, disk, want, latest, synced>>

\* Mutant: sfs_reclaim frees the inode without sfs_fsync.
NeverDirty(nd) == FALSE

Dirty(nd) == nd.dirty

\* lock_sfs_fs, and the inode must be written first.
ReclaimDirty(t) ==
    /\ pc[t] = "reclaim" /\ fs_sem = NoThread
    /\ Unused(node[mine[t]]) /\ Dirty(node[mine[t]])
    /\ fs_sem' = t
    /\ node' = [node EXCEPT ![mine[t]].reclaim_count = @ - 1]
    /\ Goto(t, "rsync")
    /\ UNCHANGED <<links, disk, mine, want, latest, synced>>

ReclaimLock(t) ==
    /\ pc[t] = "rsync"
    /\ SyncBegins(t, mine[t])
    /\ Goto(t, "rsync2")
    /\ UNCHANGED <<links, fs_sem, disk, mine, want, latest, synced>>

\* sfs_remove_links, unlock_sfs_fs, and vop_kill frees the node.
Killed(t) ==
    /\ node' = [node EXCEPT ![mine[t]] = Free]
    /\ links' = links \ {mine[t]}
    /\ fs_sem' = NoThread
    /\ mine' = [mine EXCEPT ![t] = NoInode]
    /\ Goto(t, "run")
    /\ UNCHANGED <<want, latest, synced>>

ReclaimSynced(t) ==
    /\ pc[t] = "rsync2"
    /\ Written(mine[t])
    /\ Killed(t)

\* lock_sfs_fs, and the inode is clean.
ReclaimClean(t) ==
    /\ pc[t] = "reclaim" /\ fs_sem = NoThread
    /\ Unused(node[mine[t]]) /\ ~Dirty(node[mine[t]])
    /\ UNCHANGED disk
    /\ Killed(t)

-----------------------------------------------------------------------------
(* fs_cleanup, when every process has quit, some with an inode in hand:    *)
(* sfs_sync writes the dirty ones.                                         *)

Cleanup ==
    /\ ~synced
    /\ \A t \in Thread : pc[t] = "run"
    /\ disk' = [i \in Ino |->
                  IF \E n \in Hashed(i) : node[n].dirty
                  THEN node[CHOOSE n \in Hashed(i) : node[n].dirty].din ELSE disk[i]]
    /\ node' = [n \in NodeId |-> IF n \in links THEN [node[n] EXCEPT !.dirty = FALSE] ELSE node[n]]
    /\ synced' = TRUE
    /\ UNCHANGED <<links, fs_sem, pc, mine, want, latest>>

\* The steps that take a lock, and those that a thread takes by itself.
Take(t) == LoadHit(t) \/ LoadMiss(t) \/ FsyncLock(t) \/ FsyncClean(t) \/ ReclaimBusy(t)
           \/ ReclaimDirty(t) \/ ReclaimClean(t) \/ ReclaimLock(t)
Run(t)  == Create(t) \/ WriteDone(t) \/ FsyncDone(t) \/ ReclaimSynced(t)

CacheNext ==
    \/ \E t \in Thread :
          \/ \E i \in Ino : Load(t, i)
          \/ WriteLock(t) \/ Fsync(t) \/ RefDec(t)
          \/ Take(t) \/ Run(t)
    \/ Cleanup

\* The semaphores hand a lock to the thread that has waited longest, so whoever
\* waits for one that is given back again and again gets it; the others run on.
Fairness == \A t \in Thread : SF_cachevars(Take(t)) /\ WF_cachevars(Run(t))

CacheSpec == CacheInit /\ [][CacheNext]_cachevars /\ Fairness

-----------------------------------------------------------------------------
(* Properties.                                                             *)

\* An inode a thread works on has not been freed under it, and no second copy of
\* it is in memory: the reclaim that another thread was about to do when the inode
\* was looked up again leaves it alone.
HeldOnce ==
    /\ \A t \in Thread : mine[t] # NoInode => mine[t] \in links
    /\ \A m, n \in links : node[m].ino = node[n].ino => m = n
    /\ \A n \in links :
          node[n].ref_count = Cardinality({t \in Thread : /\ mine[t] = n
                                                          /\ pc[t] \notin {"reclaim", "rsync", "rsync2"}})

Writing(t, n) == mine[t] = n /\ pc[t] \in {"fsync2", "rsync2"}

\* What an inode had when it last was marked dirty is on the disk, unless the inode
\* is in memory, holds it and is still marked or being written, and is on the disk
\* after fs_cleanup: no update that sets sin->dirty is lost when an inode is
\* reclaimed and loaded again.
MarkedKept ==
    \A i \in Ino :
        \/ disk[i] = latest[i]
        \/ \E n \in Hashed(i) : /\ node[n].din = latest[i]
                                /\ node[n].dirty \/ \E t \in Thread : Writing(t, n)
                                /\ ~synced

\* Whoever has begun to load, sync or give back an inode comes to the end: the
\* locks are always taken in the order fs_sem, sem, and none is kept.
EveryoneFinishes == \A t \in Thread : pc[t] # "run" ~> pc[t] = "run"
=============================================================================

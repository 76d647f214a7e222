-------------------------- MODULE SfsCache_proofs --------------------------
(***************************************************************************)
(* For any number of threads, inodes and places in memory, the inode cache *)
(* of the simple file system holds every inode once, counts the references *)
(* to it exactly and loses no update that is marked dirty.                 *)
(***************************************************************************)
EXTENDS SfsCache, FiniteSetTheorems, TLAPS

Label == {"run", "load", "create", "write", "fsync", "fsync2", "reclaim", "rsync", "rsync2"}

Inode ==
    [ino : Ino \cup {0}, ref_count : Nat, reclaim_count : Nat, dirty : BOOLEAN,
     din : Value, sem : Thread \cup {NoThread}]

TypeOK ==
    /\ node \in [NodeId -> Inode]
    /\ links \subseteq NodeId
    /\ fs_sem \in Thread \cup {NoThread}
    /\ disk \in [Ino -> Value] /\ latest \in [Ino -> Value]
    /\ pc \in [Thread -> Label]
    /\ mine \in [Thread -> NodeId \cup {NoInode}]
    /\ want \in [Thread -> Ino \cup {0}]
    /\ synced \in BOOLEAN

\* Where a thread stands says whether it has a node, and what it has is in memory.
Standing ==
    \A t \in Thread :
        /\ mine[t] # NoInode => mine[t] \in links
        /\ pc[t] \in {"load", "create"} => mine[t] = NoInode /\ want[t] \in Ino
        /\ pc[t] \in {"write", "fsync", "fsync2", "reclaim", "rsync", "rsync2"} => mine[t] # NoInode
        /\ synced => pc[t] = "run"

\* fs_sem is held while an inode is read from the disk and while one is written
\* to be freed; the former is not in memory, and the latter is nobody else's.
FsLock ==
    \A t \in Thread :
        /\ pc[t] \in {"create", "rsync", "rsync2"} <=> fs_sem = t
        /\ pc[t] = "create" => \A n \in links : node[n].ino # want[t]
        /\ pc[t] \in {"rsync", "rsync2"} => \A u \in Thread \ {t} : mine[u] # mine[t]
        /\ pc[t] = "rsync" => node[mine[t]].dirty

\* The hash list: no inode twice, no node that is free, and none without a user.
Listed ==
    /\ \A n \in NodeId \ links : node[n] = Free
    /\ \A n \in links : node[n].ino \in Ino
    /\ \A m, n \in links : node[m].ino = node[n].ino => m = n
    /\ \A n \in links : \E t \in Thread : mine[t] = n

\* The lock of a node is held by a thread that reads, changes or writes the node.
NodeLock ==
    \A n \in links : \A t \in Thread :
        node[n].sem = t <=> mine[t] = n /\ pc[t] \in {"write", "fsync2", "rsync2"}

Holders(n) == {t \in Thread : mine[t] = n /\ pc[t] \notin {"reclaim", "rsync", "rsync2"}}
Reclaimers(n) == {t \in Thread : mine[t] = n /\ pc[t] = "reclaim"}

\* ref_count counts those that use a node; reclaim_count those about to reclaim it,
\* and one more while it is in use.
Counted ==
    \A n \in links :
        /\ node[n].ref_count = Cardinality(Holders(n))
        /\ node[n].reclaim_count =
              Cardinality(Reclaimers(n)) + (IF node[n].ref_count > 0 THEN 1 ELSE 0)

\* A node that is marked dirty or being written has what was last put into the inode.
Marked(n) == node[n].dirty \/ \E t \in Thread : Writing(t, n)
Fresh == \A n \in links : Marked(n) => node[n].din = latest[node[n].ino]

\* The inductive invariant.
IInv ==
    TypeOK /\ Standing /\ FsLock /\ Listed /\ NodeLock /\ Counted /\ Fresh /\ MarkedKept

-----------------------------------------------------------------------------
(* Counting                                                                *)

\* The sets that are counted are finite, and grow and shrink by one thread.
LEMMA Counting ==
    ASSUME NEW S \in SUBSET Thread
    PROVE  /\ IsFiniteSet(S) /\ Cardinality(S) \in Nat
           /\ \A t : t \notin S => Cardinality(S \cup {t}) = Cardinality(S) + 1
           /\ \A t \in S : Cardinality(S \ {t}) = Cardinality(S) - 1
           /\ Cardinality(S) = 0 <=> S = {}
           /\ \A t \in S : Cardinality(S) = 1 => S = {t}
<1>1. IsFiniteSet(S)
  BY NamesAssumption, FS_Subset
<1>2. Cardinality(S) \in Nat
  BY <1>1, FS_CardinalityType
<1>3. ASSUME NEW t, t \notin S
      PROVE  Cardinality(S \cup {t}) = Cardinality(S) + 1
  BY <1>1, <1>3, FS_AddElement
<1>4. ASSUME NEW t \in S
      PROVE  Cardinality(S \ {t}) = Cardinality(S) - 1
  BY <1>1, FS_RemoveElement
<1>5. Cardinality(S) = 0 <=> S = {}
  BY <1>1, FS_EmptySet
<1>6. ASSUME NEW t \in S, Cardinality(S) = 1
      PROVE  S = {t}
  <2>1. PICK x : S = {x}
    BY <1>1, <1>6, FS_Singleton
  <2>2. QED
    BY <2>1
<1>7. QED
  BY <1>1, <1>2, <1>3, <1>4, <1>5, <1>6

\* The users of a node are threads.
LEMMA Users == \A n : Holders(n) \subseteq Thread /\ Reclaimers(n) \subseteq Thread
BY DEF Holders, Reclaimers

\* The counts of a node stay right as long as its users and its counters do.
LEMMA CountsKept ==
    ASSUME Counted, links' \subseteq links,
           \A n \in links' : /\ node'[n].ref_count = node[n].ref_count
                             /\ node'[n].reclaim_count = node[n].reclaim_count
                             /\ Holders(n)' = Holders(n) /\ Reclaimers(n)' = Reclaimers(n)
    PROVE  Counted'
<1> SUFFICES ASSUME NEW n \in links'
             PROVE  /\ node'[n].ref_count = Cardinality(Holders(n)')
                    /\ node'[n].reclaim_count =
                          Cardinality(Reclaimers(n)') + (IF node'[n].ref_count > 0 THEN 1 ELSE 0)
  BY DEF Counted
<1> QED
  BY DEF Counted

\* A node that is not newly marked still has what was last put into the inode.
LEMMA FreshStays ==
    ASSUME Fresh, links' \subseteq links, latest' = latest,
           \A m \in links' : /\ node'[m].ino = node[m].ino /\ node'[m].din = node[m].din
                             /\ node'[m].dirty => node[m].dirty,
           \A m \in links', u \in Thread : Writing(u, m)' => Marked(m)
    PROVE  Fresh'
<1> SUFFICES ASSUME NEW m \in links', Marked(m)'
             PROVE  node'[m].din = latest'[node'[m].ino]
  BY DEF Fresh
<1>1. m \in links /\ Marked(m)
  BY DEF Marked
<1>2. QED
  BY <1>1 DEF Fresh

-----------------------------------------------------------------------------
(* The steps                                                               *)

\* At first nothing is in memory.
LEMMA InitIInv == CacheInit => IInv
<1> SUFFICES ASSUME CacheInit PROVE IInv
  OBVIOUS
<1>1. TypeOK
  BY NamesAssumption DEF CacheInit, TypeOK, Inode, Free, Label, Value
<1>2. Standing /\ FsLock
  BY NamesAssumption DEF CacheInit, Standing, FsLock
<1>3. Listed /\ NodeLock /\ Counted /\ Fresh
  BY DEF CacheInit, Listed, NodeLock, Counted, Fresh
<1>4. MarkedKept
  BY DEF CacheInit, MarkedKept
<1>5. QED
  BY <1>1, <1>2, <1>3, <1>4 DEF IInv

\* Beginning to load an inode, and finding that it is not in memory.
LEMMA LoadSteps ==
    ASSUME IInv, NEW t \in Thread, (\E i \in Ino : Load(t, i)) \/ LoadMiss(t)
    PROVE  IInv'
<1>1. TypeOK /\ Standing /\ FsLock /\ Listed /\ NodeLock /\ Counted /\ Fresh /\ MarkedKept
  BY DEF IInv
<1>2. PICK l \in {"load", "create"} :
         /\ pc' = [pc EXCEPT ![t] = l]
         /\ pc[t] \in {"run", "load"}
         /\ node' = node /\ links' = links /\ disk' = disk /\ mine' = mine
         /\ latest' = latest /\ synced' = synced /\ mine[t] = NoInode /\ ~synced
         /\ want'[t] \in Ino /\ want' \in [Thread -> Ino \cup {0}]
         /\ \A u \in Thread \ {t} : want'[u] = want[u]
         /\ l = "load" => fs_sem' = fs_sem
         /\ l = "create" => fs_sem = NoThread /\ fs_sem' = t /\ Hashed(want'[t]) = {}
  <2>1. CASE \E i \in Ino : Load(t, i)
    BY <2>1, <1>1 DEF Load, Goto, TypeOK, Inode
  <2>2. CASE LoadMiss(t)
    BY <2>2, <1>1 DEF LoadMiss, Goto, TypeOK, Inode, Standing
  <2>3. QED
    BY <2>1, <2>2
<1>3. /\ pc'[t] = l
      /\ \A u \in Thread \ {t} : pc'[u] = pc[u]
  BY <1>1, <1>2 DEF TypeOK, Inode
<1>4. TypeOK'
  BY <1>1, <1>2 DEF TypeOK, Inode, Label
<1>5. Standing'
  BY <1>1, <1>2, <1>3 DEF Standing
<1>6. FsLock'
  BY <1>1, <1>2, <1>3, NamesAssumption DEF FsLock, Hashed, TypeOK, Inode
<1>7. Listed' /\ Fresh'
  <2>1. \A m \in links, u \in Thread : Writing(u, m)' => Writing(u, m)
    BY <1>2, <1>3 DEF Writing
  <2>2. QED
    BY <2>1, <1>1, <1>2, FreshStays DEF Listed, Marked
<1>8. NodeLock'
  BY <1>1, <1>2, <1>3, NamesAssumption DEF NodeLock, TypeOK, Inode
<1>9. Counted'
  <2>1. ASSUME NEW n \in links
        PROVE  Holders(n)' = Holders(n) /\ Reclaimers(n)' = Reclaimers(n)
    BY <1>1, <1>2, <1>3, NamesAssumption DEF Holders, Reclaimers, TypeOK, Inode
  <2>2. QED
    BY <2>1, <1>1, <1>2, CountsKept
<1>10. MarkedKept'
  BY <1>1, <1>2, <1>3, NamesAssumption DEF MarkedKept, Hashed, Writing, TypeOK, Inode
<1>11. QED
  BY <1>4, <1>5, <1>6, <1>7, <1>8, <1>9, <1>10 DEF IInv

\* A call of fsync that finds the node dirty, and one that finds it written.
LEMMA FsyncSteps ==
    ASSUME IInv, NEW t \in Thread, Fsync(t) \/ FsyncClean(t)
    PROVE  IInv'
<1>1. TypeOK /\ Standing /\ FsLock /\ Listed /\ NodeLock /\ Counted /\ Fresh /\ MarkedKept
  BY DEF IInv
<1>2. PICK l \in {"run", "fsync"} :
         /\ pc' = [pc EXCEPT ![t] = l]
         /\ pc[t] \in {"run", "fsync"}
         /\ node' = node /\ links' = links /\ disk' = disk /\ mine' = mine /\ want' = want
         /\ latest' = latest /\ synced' = synced /\ mine[t] # NoInode /\ ~synced /\ fs_sem' = fs_sem
  BY <1>1 DEF Fsync, FsyncClean, Goto, TypeOK, Inode, Standing
<1>3. /\ pc'[t] = l
      /\ \A u \in Thread \ {t} : pc'[u] = pc[u]
  BY <1>1, <1>2 DEF TypeOK, Inode
<1>4. TypeOK'
  BY <1>1, <1>2 DEF TypeOK, Inode, Label
<1>5. Standing'
  BY <1>1, <1>2, <1>3 DEF Standing
<1>6. FsLock'
  BY <1>1, <1>2, <1>3 DEF FsLock
<1>7. Listed' /\ Fresh'
  <2>1. \A m \in links, u \in Thread : Writing(u, m)' => Writing(u, m)
    BY <1>2, <1>3 DEF Writing
  <2>2. QED
    BY <2>1, <1>1, <1>2, FreshStays DEF Listed, Marked
<1>8. NodeLock'
  BY <1>1, <1>2, <1>3 DEF NodeLock
<1>9. Counted'
  <2>1. ASSUME NEW n \in links
        PROVE  Holders(n)' = Holders(n) /\ Reclaimers(n)' = Reclaimers(n)
    BY <1>1, <1>2, <1>3 DEF Holders, Reclaimers, TypeOK, Inode
  <2>2. QED
    BY <2>1, <1>1, <1>2, CountsKept
<1>10. MarkedKept'
  BY <1>1, <1>2, <1>3 DEF MarkedKept, Hashed, Writing
<1>11. QED
  BY <1>4, <1>5, <1>6, <1>7, <1>8, <1>9, <1>10 DEF IInv

\* Taking the lock of a node, to change it or, with dirty reset, to write it.
LEMMA LockSteps ==
    ASSUME IInv, NEW t \in Thread, WriteLock(t) \/ FsyncLock(t)
    PROVE  IInv'
<1>1. TypeOK /\ Standing /\ FsLock /\ Listed /\ NodeLock /\ Counted /\ Fresh /\ MarkedKept
  BY DEF IInv
<1> DEFINE n == mine[t]
<1>2. PICK l \in {"write", "fsync2"} :
         /\ pc' = [pc EXCEPT ![t] = l]
         /\ l = "write" => WriteLock(t)
         /\ l = "fsync2" => FsyncLock(t)
         /\ pc[t] \in {"run", "fsync"} /\ n \in links /\ n \in NodeId
         /\ node[n].sem = NoThread /\ (l = "fsync2" => node[n].dirty)
         /\ links' = links /\ disk' = disk /\ mine' = mine /\ want' = want
         /\ latest' = latest /\ synced' = synced /\ ~synced /\ fs_sem' = fs_sem
  BY <1>1, Zenon DEF WriteLock, FsyncLock, SyncBegins, Goto, TypeOK, Inode, Standing
<1>3. /\ pc'[t] = l
      /\ \A u \in Thread \ {t} : pc'[u] = pc[u]
  BY <1>1, <1>2 DEF TypeOK, Inode
<1>4. /\ node' \in [NodeId -> Inode]
      /\ \A m \in NodeId \ {n} : node'[m] = node[m]
      /\ node'[n].sem = t /\ node'[n].ino = node[n].ino /\ node'[n].din = node[n].din
      /\ node'[n].ref_count = node[n].ref_count
      /\ node'[n].reclaim_count = node[n].reclaim_count
      /\ l = "write" => node'[n].dirty = node[n].dirty
      /\ l = "fsync2" => ~node'[n].dirty
  <2>1. CASE l = "write"
    <3>1. node' = [node EXCEPT ![n].sem = t]
      BY <2>1, <1>2 DEF WriteLock
    <3>2. QED
      BY <2>1, <3>1, <1>1, <1>2 DEF TypeOK, Inode
  <2>2. CASE l = "fsync2"
    <3>1. node' = [node EXCEPT ![n].sem = t, ![n].dirty = FALSE]
      BY <2>2, <1>2 DEF FsyncLock, SyncBegins
    <3>2. PICK x : x = [node[n] EXCEPT !.sem = t, !.dirty = FALSE]
      OBVIOUS
    <3>3. node[n] \in Inode /\ t \in Thread
      BY <1>1, <1>2 DEF TypeOK
    <3>4. /\ x \in Inode /\ x.sem = t /\ x.ino = node[n].ino /\ x.din = node[n].din
          /\ x.ref_count = node[n].ref_count /\ x.reclaim_count = node[n].reclaim_count /\ ~x.dirty
      BY <3>2, <3>3 DEF Inode
    <3>5. node' = [node EXCEPT ![n] = x]
      BY <3>1, <3>2
    <3>6. QED
      BY <3>4, <3>5, <2>2, <1>1, <1>2 DEF TypeOK
  <2>3. QED
    BY <2>1, <2>2
<1>5. TypeOK'
  <2>1. pc' \in [Thread -> Label]
    BY <1>1, <1>2 DEF TypeOK, Inode, Label
  <2>2. QED
    BY <2>1, <1>1, <1>2, <1>4 DEF TypeOK, Inode
<1>6. Standing'
  BY <1>1, <1>2, <1>3, NamesAssumption DEF Standing
<1>7. FsLock'
  <2>1. \A u \in Thread : pc[u] = "rsync" => mine[u] # n
    BY <1>1, <1>2 DEF FsLock
  <2>2. QED
    BY <2>1, <1>1, <1>2, <1>3, <1>4 DEF FsLock, TypeOK, Inode, Standing
<1>8. Listed' /\ Fresh'
  <2>1. ASSUME NEW m \in links
        PROVE  /\ m \in NodeId /\ node'[m].ino = node[m].ino /\ node'[m].din = node[m].din
               /\ node'[m].ref_count = node[m].ref_count
               /\ node'[m].reclaim_count = node[m].reclaim_count
    BY <1>1, <1>2, <1>4 DEF TypeOK
  <2>2. \A m \in NodeId \ links : node'[m] = node[m]
    BY <1>2, <1>4
  <2>3. Listed'
    BY <2>1, <2>2, <1>1, <1>2 DEF Listed
  <2>4. Fresh'
    <3>1. \A m \in links : node'[m].dirty => node[m].dirty
      BY <1>1, <1>2, <1>4 DEF TypeOK
    <3>2. \A m \in links, u \in Thread : Writing(u, m)' => Marked(m)
      BY <1>2, <1>3 DEF Writing, Marked
    <3>3. QED
      BY <2>1, <3>1, <3>2, <1>1, <1>2, FreshStays
  <2>5. QED
    BY <2>3, <2>4
<1>9. NodeLock'
  <2>1. \A u \in Thread : mine[u] = n => pc[u] \notin {"write", "fsync2", "rsync2"}
    BY <1>1, <1>2, NamesAssumption DEF NodeLock
  <2>2. QED
    BY <2>1, <1>1, <1>2, <1>3, <1>4 DEF NodeLock, TypeOK, Inode
<1>10. Counted'
  <2>1. ASSUME NEW m \in links
        PROVE  Holders(m)' = Holders(m) /\ Reclaimers(m)' = Reclaimers(m)
    BY <1>1, <1>2, <1>3 DEF Holders, Reclaimers, TypeOK, Inode
  <2>2. ASSUME NEW m \in links
        PROVE  /\ node'[m].ref_count = node[m].ref_count
               /\ node'[m].reclaim_count = node[m].reclaim_count
    BY <1>1, <1>2, <1>4 DEF TypeOK, Inode
  <2>3. QED
    BY <2>1, <2>2, <1>1, <1>2, CountsKept
<1>11. MarkedKept'
  <2> SUFFICES ASSUME NEW i \in Ino, disk[i] # latest[i]
               PROVE  \E m \in links : /\ node'[m].ino = i /\ node'[m].din = latest[i]
                                       /\ node'[m].dirty \/ \E u \in Thread : Writing(u, m)'
    BY <1>2 DEF MarkedKept, Hashed
  <2>1. PICK m \in links : /\ node[m].ino = i /\ node[m].din = latest[i]
                           /\ node[m].dirty \/ \E u \in Thread : Writing(u, m)
    BY <1>1 DEF MarkedKept, Hashed
  <2>2. node'[m].ino = i /\ node'[m].din = latest[i]
    BY <2>1, <1>1, <1>4 DEF TypeOK, Inode
  <2>3. CASE m = n /\ l = "fsync2"
    BY <2>2, <2>3, <1>2, <1>3 DEF Writing
  <2>4. CASE ~(m = n /\ l = "fsync2")
    <3>1. node'[m].dirty = node[m].dirty
      BY <2>1, <2>4, <1>1, <1>2, <1>4 DEF TypeOK, Inode
    <3>2. ASSUME NEW u \in Thread, Writing(u, m)
          PROVE  Writing(u, m)'
      BY <3>2, <1>2, <1>3 DEF Writing
    <3>3. QED
      BY <3>1, <3>2, <2>1, <2>2
  <2>5. QED
    BY <2>3, <2>4
<1>12. QED
  BY <1>5, <1>6, <1>7, <1>8, <1>9, <1>10, <1>11 DEF IInv

\* Giving the lock of a node back, when it has been changed or written.
LEMMA UnlockSteps ==
    ASSUME IInv, NEW t \in Thread, WriteDone(t) \/ FsyncDone(t)
    PROVE  IInv'
<1>1. TypeOK /\ Standing /\ FsLock /\ Listed /\ NodeLock /\ Counted /\ Fresh /\ MarkedKept
  BY DEF IInv
<1> DEFINE n == mine[t]
           i == node[n].ino
<1>2. /\ pc' = [pc EXCEPT ![t] = "run"] /\ pc[t] \in {"write", "fsync2"}
      /\ n \in links /\ n \in NodeId /\ i \in Ino /\ ~synced
      /\ links' = links /\ mine' = mine /\ want' = want /\ synced' = synced /\ fs_sem' = fs_sem
  BY <1>1 DEF WriteDone, FsyncDone, Goto, TypeOK, Inode, Standing, Listed
<1>3. /\ pc'[t] = "run"
      /\ \A u \in Thread \ {t} : pc'[u] = pc[u]
  BY <1>1, <1>2 DEF TypeOK, Inode
<1>4. /\ node' \in [NodeId -> Inode]
      /\ \A m \in NodeId \ {n} : node'[m] = node[m]
      /\ node'[n].sem = NoThread /\ node'[n].ino = i
      /\ node'[n].ref_count = node[n].ref_count
      /\ node'[n].reclaim_count = node[n].reclaim_count
      /\ disk' \in [Ino -> Value] /\ latest' \in [Ino -> Value]
      /\ \A j \in Ino \ {i} : disk'[j] = disk[j] /\ latest'[j] = latest[j]
      /\ node'[n].dirty => node'[n].din = latest'[i]
      /\ disk'[i] = latest'[i] \/ node'[n].dirty
  <2>1. CASE WriteDone(t)
    <3>0. node[n] \in Inode
      BY <1>1, <1>2 DEF TypeOK
    <3>1. PICK v \in Value, b \in BOOLEAN :
             /\ node[n].dirty => b
             /\ node' = [node EXCEPT ![n] = [@ EXCEPT !.din = v, !.dirty = b, !.sem = NoThread]]
             /\ latest' = [latest EXCEPT ![i] = IF b THEN v ELSE @] /\ disk' = disk
      <4>1. PICK v \in Value, marked \in BOOLEAN :
               /\ node' = [node EXCEPT ![n] = [@ EXCEPT !.din = v, !.dirty = node[n].dirty \/ marked,
                                                         !.sem = NoThread]]
               /\ latest' = [latest EXCEPT ![i] = IF node[n].dirty \/ marked THEN v ELSE @]
               /\ disk' = disk
        BY <2>1 DEF WriteDone
      <4>2. PICK b : b = (node[n].dirty \/ marked)
        OBVIOUS
      <4>3. b \in BOOLEAN /\ (node[n].dirty => b)
        BY <4>2, <3>0 DEF Inode
      <4>4. QED
        BY <4>1, <4>2, <4>3
    <3>2. PICK x : x = [node[n] EXCEPT !.din = v, !.dirty = b, !.sem = NoThread]
      OBVIOUS
    <3>4. /\ x \in Inode /\ x.sem = NoThread /\ x.ino = node[n].ino /\ x.din = v /\ x.dirty = b
          /\ x.ref_count = node[n].ref_count /\ x.reclaim_count = node[n].reclaim_count
      BY <3>2, <3>0 DEF Inode
    <3>5. node' = [node EXCEPT ![n] = x]
      BY <3>1, <3>2
    <3>6. disk[i] = latest[i] \/ b
      <4>1. ASSUME NEW u \in Thread
            PROVE  ~Writing(u, n)
        <5>1. pc[t] = "write"
          BY <2>1 DEF WriteDone
        <5>2. node[n].sem = t
          BY <5>1, <1>1, <1>2 DEF NodeLock
        <5>3. Writing(u, n) => node[n].sem = u
          BY <1>1, <1>2 DEF NodeLock, Writing
        <5>4. QED
          BY <5>1, <5>2, <5>3 DEF Writing
      <4>2. \A m \in links : node[m].ino = i => m = n
        BY <1>1, <1>2 DEF Listed
      <4>3. QED
        BY <3>1, <4>1, <4>2, <1>1, <1>2 DEF MarkedKept, Hashed
    <3>7. latest' \in [Ino -> Value] /\ latest'[i] = (IF b THEN v ELSE latest[i])
          /\ \A j \in Ino \ {i} : latest'[j] = latest[j]
      BY <3>1, <1>1, <1>2 DEF TypeOK
    <3>8. QED
      BY <3>1, <3>4, <3>5, <3>6, <3>7, <1>1, <1>2 DEF TypeOK
  <2>2. CASE FsyncDone(t)
    <3>1. /\ node' = [node EXCEPT ![n].sem = NoThread]
          /\ disk' = [disk EXCEPT ![i] = node[n].din] /\ latest' = latest
      BY <2>2 DEF FsyncDone, Written
    <3>2. node[n].din = latest[i]
      <4>1. Writing(t, n)
        BY <2>2 DEF FsyncDone, Writing
      <4>2. QED
        BY <4>1, <1>1, <1>2 DEF Fresh, Marked
    <3>3. QED
      BY <3>1, <3>2, <1>1, <1>2 DEF TypeOK, Inode
  <2>3. QED
    BY <2>1, <2>2
<1>5. TypeOK'
  BY <1>1, <1>2, <1>4 DEF TypeOK, Inode, Label
<1>6. Standing'
  BY <1>1, <1>2, <1>3 DEF Standing
<1>7. FsLock'
  <2>1. \A u \in Thread : pc[u] = "rsync" => mine[u] # n
    BY <1>1, <1>2 DEF FsLock
  <2>2. QED
    BY <2>1, <1>1, <1>2, <1>3, <1>4 DEF FsLock, TypeOK, Inode, Standing
<1>8. Listed'
  BY <1>1, <1>2, <1>4 DEF Listed, TypeOK, Inode
<1>9. Fresh'
  <2> SUFFICES ASSUME NEW m \in links, Marked(m)'
               PROVE  node'[m].din = latest'[node'[m].ino]
    BY <1>2 DEF Fresh
  <2>1. \A u \in Thread : Writing(u, m)' => Writing(u, m) /\ u # t
    BY <1>2, <1>3 DEF Writing
  <2>2. CASE m = n
    <3>1. \A u \in Thread \ {t} : ~Writing(u, n)
      BY <1>1, <1>2 DEF Writing, NodeLock
    <3>2. node'[n].dirty
      BY <2>1, <2>2, <3>1 DEF Marked
    <3>3. QED
      BY <2>2, <3>2, <1>4
  <2>3. CASE m # n
    <3>1. node'[m] = node[m] /\ node[m].ino \in Ino \ {i}
      BY <2>3, <1>1, <1>2, <1>4 DEF Listed, TypeOK
    <3>2. Marked(m)
      BY <2>1, <3>1 DEF Marked
    <3>3. QED
      BY <3>1, <3>2, <1>1, <1>4 DEF Fresh
  <2>4. QED
    BY <2>2, <2>3
<1>10. NodeLock'
  <2>1. node[n].sem = t
    BY <1>1, <1>2 DEF NodeLock
  <2>2. \A u \in Thread : u # t /\ mine[u] = n => pc[u] \notin {"write", "fsync2", "rsync2"}
    BY <2>1, <1>1, <1>2 DEF NodeLock
  <2>3. QED
    BY <2>2, <1>1, <1>2, <1>3, <1>4, NamesAssumption DEF NodeLock, TypeOK, Inode
<1>11. Counted'
  <2>1. ASSUME NEW m \in links
        PROVE  Holders(m)' = Holders(m) /\ Reclaimers(m)' = Reclaimers(m)
    BY <1>1, <1>2, <1>3 DEF Holders, Reclaimers, TypeOK, Inode
  <2>2. ASSUME NEW m \in links
        PROVE  /\ node'[m].ref_count = node[m].ref_count
               /\ node'[m].reclaim_count = node[m].reclaim_count
    BY <1>1, <1>2, <1>4 DEF TypeOK, Inode
  <2>3. QED
    BY <2>1, <2>2, <1>1, <1>2, CountsKept
<1>12. MarkedKept'
  <2> SUFFICES ASSUME NEW j \in Ino, disk'[j] # latest'[j]
               PROVE  \E m \in links : /\ node'[m].ino = j /\ node'[m].din = latest'[j]
                                       /\ node'[m].dirty \/ \E u \in Thread : Writing(u, m)'
    BY <1>2 DEF MarkedKept, Hashed
  <2>1. CASE j = i
    BY <2>1, <1>2, <1>4
  <2>2. CASE j # i
    <3>1. PICK m \in links : /\ node[m].ino = j /\ node[m].din = latest[j]
                             /\ node[m].dirty \/ \E u \in Thread : Writing(u, m)
      BY <2>2, <1>1, <1>4 DEF MarkedKept, Hashed
    <3>2. m # n /\ node'[m] = node[m] /\ latest'[j] = latest[j]
      BY <3>1, <2>2, <1>1, <1>4 DEF TypeOK, Inode
    <3>3. ASSUME NEW u \in Thread, Writing(u, m)
          PROVE  Writing(u, m)'
      BY <3>2, <3>3, <1>2, <1>3 DEF Writing
    <3>4. QED
      BY <3>1, <3>2, <3>3
  <2>3. QED
    BY <2>1, <2>2
<1>13. QED
  BY <1>5, <1>6, <1>7, <1>8, <1>9, <1>10, <1>11, <1>12 DEF IInv

\* A reference makes an inode of an inode.
LEMMA ReferencedType ==
    ASSUME NEW nd \in Inode
    PROVE  Referenced(nd) \in Inode
<1>1. PICK c \in Nat : c = IF nd.ref_count = 0 THEN nd.reclaim_count + 1 ELSE nd.reclaim_count
  BY DEF Inode
<1>2. PICK d \in Nat : d = nd.ref_count + 1
  BY DEF Inode
<1>3. Referenced(nd) = [nd EXCEPT !.ref_count = d, !.reclaim_count = c]
  BY <1>1, <1>2 DEF Referenced
<1>4. [nd EXCEPT !.ref_count = d, !.reclaim_count = c] \in Inode
  BY DEF Inode
<1>5. QED
  BY <1>3, <1>4

\* A lookup that finds the node in memory takes a reference, and one for the reclaim
\* that may be under way.
LEMMA LoadHitStep ==
    ASSUME IInv, NEW t \in Thread, LoadHit(t)
    PROVE  IInv'
<1>1. TypeOK /\ Standing /\ FsLock /\ Listed /\ NodeLock /\ Counted /\ Fresh /\ MarkedKept
  BY DEF IInv
<1>2. PICK n \in links : /\ node' = [node EXCEPT ![n] = Referenced(@)]
                         /\ mine' = [mine EXCEPT ![t] = n]
  BY DEF LoadHit, Hashed
<1>3. /\ pc' = [pc EXCEPT ![t] = "run"] /\ pc[t] = "load" /\ mine[t] = NoInode /\ ~synced
      /\ n \in NodeId /\ fs_sem = NoThread /\ fs_sem' = NoThread
      /\ links' = links /\ disk' = disk /\ want' = want /\ latest' = latest /\ synced' = synced
  BY <1>1 DEF LoadHit, Goto, TypeOK, Inode, Standing
<1>4. /\ pc'[t] = "run" /\ mine'[t] = n
      /\ \A u \in Thread \ {t} : pc'[u] = pc[u] /\ mine'[u] = mine[u]
  BY <1>1, <1>2, <1>3 DEF TypeOK, Inode
<1>5. /\ node' \in [NodeId -> Inode]
      /\ \A m \in NodeId \ {n} : node'[m] = node[m]
      /\ node'[n].sem = node[n].sem /\ node'[n].ino = node[n].ino
      /\ node'[n].din = node[n].din /\ node'[n].dirty = node[n].dirty
      /\ node'[n].ref_count = node[n].ref_count + 1
      /\ node'[n].reclaim_count = IF node[n].ref_count = 0 THEN node[n].reclaim_count + 1
                                                           ELSE node[n].reclaim_count
  <2>1. node[n] \in Inode
    BY <1>1, <1>3 DEF TypeOK
  <2>2. node'[n] = Referenced(node[n]) /\ \A m \in NodeId \ {n} : node'[m] = node[m]
    BY <1>1, <1>2, <1>3 DEF TypeOK
  <2>3. Referenced(node[n]) \in Inode
    BY <2>1, ReferencedType
  <2>4. node' \in [NodeId -> Inode]
    BY <2>3, <1>1, <1>2, <1>3 DEF TypeOK
  <2>5. QED
    BY <2>1, <2>2, <2>4 DEF Referenced, Inode
<1>6. TypeOK'
  <2>1. mine' \in [Thread -> NodeId \cup {NoInode}] /\ pc' \in [Thread -> Label]
    BY <1>1, <1>2, <1>3 DEF TypeOK, Inode, Label
  <2>2. QED
    BY <2>1, <1>1, <1>3, <1>5 DEF TypeOK, Inode
<1>7. Standing'
  BY <1>1, <1>2, <1>3, <1>4 DEF Standing
<1>8. FsLock'
  BY <1>1, <1>3, <1>4, NamesAssumption DEF FsLock
<1>9. Listed' /\ Fresh'
  <2>1. \A m \in NodeId : node'[m].ino = node[m].ino /\ node'[m].din = node[m].din
    BY <1>5
  <2>2. \A m \in links : \E u \in Thread : mine'[u] = m
    BY <1>1, <1>3, <1>4, NamesAssumption DEF Listed, TypeOK, Inode
  <2>3. \A m \in NodeId \ links : node'[m] = Free
    BY <1>1, <1>2, <1>5 DEF Listed
  <2>4. Fresh'
    <3>1. \A m \in links, u \in Thread : Writing(u, m)' => Writing(u, m)
      BY <1>3, <1>4 DEF Writing
    <3>2. \A m \in links : node'[m].dirty => node[m].dirty
      BY <1>1, <1>5 DEF TypeOK
    <3>3. QED
      BY <2>1, <3>1, <3>2, <1>1, <1>3, FreshStays DEF Marked, TypeOK
  <2>5. QED
    BY <2>1, <2>2, <2>3, <2>4, <1>1, <1>3 DEF Listed, TypeOK, Inode
<1>10. NodeLock'
  BY <1>1, <1>3, <1>4, <1>5 DEF NodeLock, TypeOK, Inode
<1>11. Counted'
  <2>1. /\ Holders(n)' = Holders(n) \cup {t} /\ t \notin Holders(n)
        /\ Reclaimers(n)' = Reclaimers(n)
    BY <1>1, <1>3, <1>4, NamesAssumption DEF Holders, Reclaimers
  <2>2. \A m \in NodeId \ {n} : Holders(m)' = Holders(m) /\ Reclaimers(m)' = Reclaimers(m)
    BY <1>1, <1>3, <1>4, NamesAssumption DEF Holders, Reclaimers
  <2>3. /\ Cardinality(Holders(n)') = Cardinality(Holders(n)) + 1
        /\ Cardinality(Holders(n)) \in Nat /\ Cardinality(Reclaimers(n)) \in Nat
    BY <2>1, Users, Counting
  <2>4. /\ node[n].ref_count = Cardinality(Holders(n))
        /\ node[n].reclaim_count =
              Cardinality(Reclaimers(n)) + (IF node[n].ref_count > 0 THEN 1 ELSE 0)
    BY <1>1 DEF Counted
  <2>5. /\ node'[n].ref_count = Cardinality(Holders(n)')
        /\ node'[n].reclaim_count =
              Cardinality(Reclaimers(n)') + (IF node'[n].ref_count > 0 THEN 1 ELSE 0)
    BY <2>1, <2>3, <2>4, <1>5
  <2>6. ASSUME NEW m \in links, m # n
        PROVE  /\ node'[m].ref_count = Cardinality(Holders(m)')
               /\ node'[m].reclaim_count =
                     Cardinality(Reclaimers(m)') + (IF node'[m].ref_count > 0 THEN 1 ELSE 0)
    BY <2>2, <2>6, <1>1, <1>5 DEF Counted, TypeOK, Inode
  <2>7. QED
    BY <2>5, <2>6, <1>3 DEF Counted
<1>12. MarkedKept'
  <2>1. ASSUME NEW m \in links
        PROVE  /\ node'[m].ino = node[m].ino /\ node'[m].din = node[m].din
               /\ node'[m].dirty = node[m].dirty
    BY <1>1, <1>5 DEF TypeOK
  <2>2. ASSUME NEW u \in Thread, NEW m, Writing(u, m)
        PROVE  Writing(u, m)'
    BY <2>2, <1>1, <1>3, <1>4 DEF Writing
  <2>3. QED
    BY <2>1, <2>2, <1>1, <1>3 DEF MarkedKept, Hashed
<1>13. QED
  BY <1>6, <1>7, <1>8, <1>9, <1>10, <1>11, <1>12 DEF IInv

\* A node that is free has no user, and no node in memory is taken for a free one.
LEMMA FreeUnlisted ==
    ASSUME IInv, NEW n \in NodeId, node[n] = Free, NEW t \in Thread, pc[t] = "create"
    PROVE  n \notin links /\ Holders(n) = {} /\ Reclaimers(n) = {}
<1>1. TypeOK /\ Standing /\ FsLock /\ Listed /\ Counted
  BY DEF IInv
<1>2. n \notin links
  <2> SUFFICES ASSUME n \in links PROVE FALSE
    OBVIOUS
  <2>1. Cardinality(Holders(n)) = 0 /\ Cardinality(Reclaimers(n)) = 0
    <3>1. node[n].ref_count = 0 /\ node[n].reclaim_count = 0
      BY DEF Free
    <3>2. Cardinality(Holders(n)) = 0 /\ Cardinality(Reclaimers(n)) \in Nat
      BY <3>1, <1>1, Users, Counting DEF Counted
    <3>3. QED
      BY <3>1, <3>2, <1>1 DEF Counted
  <2>2. Holders(n) = {} /\ Reclaimers(n) = {}
    BY <2>1, Users, Counting
  <2>3. PICK u \in Thread : mine[u] = n
    BY <1>1 DEF Listed
  <2>4. pc[u] \in {"rsync", "rsync2"}
    BY <2>2, <2>3 DEF Holders, Reclaimers
  <2>5. fs_sem = u /\ fs_sem = t
    BY <2>4, <1>1 DEF FsLock
  <2>6. QED
    BY <2>4, <2>5
<1>3. \A u \in Thread : mine[u] # n
  BY <1>1, <1>2, NamesAssumption DEF Standing
<1>4. QED
  BY <1>2, <1>3 DEF Holders, Reclaimers

\* The node of an inode read from the disk: nothing newer was written.
LEMMA CreateStep ==
    ASSUME IInv, NEW t \in Thread, Create(t)
    PROVE  IInv'
<1>1. TypeOK /\ Standing /\ FsLock /\ Listed /\ NodeLock /\ Counted /\ Fresh /\ MarkedKept
  BY DEF IInv
<1> DEFINE i == want[t]
<1>2. PICK n \in NodeId :
         /\ node[n] = Free
         /\ node' = [node EXCEPT ![n] = [ino |-> i, ref_count |-> 1, reclaim_count |-> 1,
                                         dirty |-> FALSE, din |-> disk[i], sem |-> NoThread]]
         /\ links' = links \cup {n}
         /\ mine' = [mine EXCEPT ![t] = n]
  BY DEF Create
<1>3. /\ pc' = [pc EXCEPT ![t] = "run"] /\ pc[t] = "create" /\ mine[t] = NoInode /\ ~synced
      /\ i \in Ino /\ fs_sem = t /\ fs_sem' = NoThread
      /\ disk' = disk /\ want' = want /\ latest' = latest /\ synced' = synced
  BY <1>1 DEF Create, Goto, TypeOK, Inode, Standing, FsLock
<1>4. /\ pc'[t] = "run" /\ mine'[t] = n
      /\ \A u \in Thread \ {t} : pc'[u] = pc[u] /\ mine'[u] = mine[u]
  BY <1>1, <1>2, <1>3 DEF TypeOK, Inode
<1>5. /\ node' \in [NodeId -> Inode]
      /\ \A m \in NodeId \ {n} : node'[m] = node[m]
      /\ node'[n].sem = NoThread /\ node'[n].ino = i /\ node'[n].din = disk[i]
      /\ node'[n].ref_count = 1 /\ node'[n].reclaim_count = 1
  BY <1>1, <1>2, <1>3 DEF TypeOK, Inode
<1>6. n \notin links /\ Holders(n) = {} /\ Reclaimers(n) = {}
  BY <1>2, <1>3, FreeUnlisted
<1>7. \A m \in links : node[m].ino # i
  BY <1>1, <1>3 DEF FsLock
<1>8. disk[i] = latest[i]
  BY <1>1, <1>3, <1>7 DEF MarkedKept, Hashed
<1>9. \A u \in Thread : mine[u] # n
  BY <1>1, <1>6, NamesAssumption DEF Standing
<1>10. TypeOK'
  BY <1>1, <1>2, <1>3, <1>5 DEF TypeOK, Inode, Label
<1>11. Standing'
  BY <1>1, <1>2, <1>3, <1>4 DEF Standing
<1>12. FsLock'
  BY <1>1, <1>3, <1>4, NamesAssumption DEF FsLock
<1>13. Listed'
  <2>1. \A m \in NodeId \ links' : node'[m] = Free
    BY <1>1, <1>2, <1>5 DEF Listed
  <2>2. \A m \in links' : node'[m].ino \in Ino
    BY <1>1, <1>2, <1>3, <1>5 DEF Listed, TypeOK, Inode
  <2>3. \A m \in links : node'[m] = node[m]
    BY <1>1, <1>5, <1>6 DEF TypeOK, Inode
  <2>4. \A k, m \in links' : node'[k].ino = node'[m].ino => k = m
    BY <2>3, <1>1, <1>2, <1>5, <1>7 DEF Listed
  <2>5. \A m \in links' : \E u \in Thread : mine'[u] = m
    BY <1>1, <1>2, <1>3, <1>4, NamesAssumption DEF Listed, TypeOK, Inode
  <2>6. QED
    BY <2>1, <2>2, <2>4, <2>5 DEF Listed
<1>14. Fresh'
  <2> SUFFICES ASSUME NEW m \in links', Marked(m)'
               PROVE  node'[m].din = latest'[node'[m].ino]
    BY DEF Fresh
  <2>1. CASE m = n
    BY <2>1, <1>3, <1>5, <1>8
  <2>2. CASE m # n
    <3>1. m \in links /\ node'[m] = node[m]
      BY <2>2, <1>1, <1>2, <1>5 DEF TypeOK
    <3>2. \A u \in Thread : Writing(u, m)' => Writing(u, m)
      BY <1>3, <1>4 DEF Writing
    <3>3. QED
      BY <3>1, <3>2, <1>1, <1>3 DEF Fresh, Marked
  <2>3. QED
    BY <2>1, <2>2
<1>15. NodeLock'
  <2>1. \A m \in links : node'[m] = node[m] /\ m # n
    BY <1>1, <1>5, <1>6 DEF TypeOK, Inode
  <2>2. QED
    BY <2>1, <1>1, <1>2, <1>3, <1>4, <1>5, <1>9, NamesAssumption DEF NodeLock, Standing
<1>16. Counted'
  <2>1. Holders(n)' = Holders(n) \cup {t} /\ t \notin Holders(n) /\ Reclaimers(n)' = Reclaimers(n)
    BY <1>3, <1>4, <1>6, <1>9 DEF Holders, Reclaimers
  <2>2. \A m \in links : Holders(m)' = Holders(m) /\ Reclaimers(m)' = Reclaimers(m)
    BY <1>1, <1>3, <1>4, <1>6, NamesAssumption DEF Holders, Reclaimers, TypeOK, Inode
  <2>3. Cardinality(Holders(n)') = 1 /\ Cardinality(Reclaimers(n)') = 0
    BY <2>1, <1>6, Users, Counting
  <2>4. ASSUME NEW m \in links
        PROVE  /\ node'[m].ref_count = Cardinality(Holders(m)')
               /\ node'[m].reclaim_count =
                     Cardinality(Reclaimers(m)') + (IF node'[m].ref_count > 0 THEN 1 ELSE 0)
    <3>1. node'[m] = node[m]
      BY <1>1, <1>5, <1>6 DEF TypeOK, Inode
    <3>2. QED
      BY <2>2, <3>1, <1>1 DEF Counted
  <2>5. /\ node'[n].ref_count = Cardinality(Holders(n)')
        /\ node'[n].reclaim_count =
              Cardinality(Reclaimers(n)') + (IF node'[n].ref_count > 0 THEN 1 ELSE 0)
    BY <2>3, <1>5
  <2>6. QED
    BY <2>4, <2>5, <1>2 DEF Counted
<1>17. MarkedKept'
  <2> SUFFICES ASSUME NEW j \in Ino, disk[j] # latest[j]
               PROVE  \E m \in links' : /\ node'[m].ino = j /\ node'[m].din = latest[j]
                                        /\ node'[m].dirty \/ \E u \in Thread : Writing(u, m)'
    BY <1>3 DEF MarkedKept, Hashed
  <2>1. PICK m \in links : /\ node[m].ino = j /\ node[m].din = latest[j]
                           /\ node[m].dirty \/ \E u \in Thread : Writing(u, m)
    BY <1>1 DEF MarkedKept, Hashed
  <2>2. node'[m] = node[m] /\ m \in links'
    BY <1>1, <1>2, <1>5, <1>6 DEF TypeOK, Inode
  <2>3. ASSUME NEW u \in Thread, Writing(u, m)
        PROVE  Writing(u, m)'
    BY <2>3, <1>3, <1>4 DEF Writing
  <2>4. QED
    BY <2>1, <2>2, <2>3
<1>18. QED
  BY <1>10, <1>11, <1>12, <1>13, <1>14, <1>15, <1>16, <1>17 DEF IInv

\* A node whose users and reclaimers are counted right is counted right.
LEMMA CountedAt ==
    ASSUME Counted, NEW n, links' = links,
           \A m \in links \ {n} : /\ node'[m] = node[m]
                                  /\ Holders(m)' = Holders(m) /\ Reclaimers(m)' = Reclaimers(m),
           /\ node'[n].ref_count = Cardinality(Holders(n)')
           /\ node'[n].reclaim_count =
                 Cardinality(Reclaimers(n)') + (IF node'[n].ref_count > 0 THEN 1 ELSE 0)
    PROVE  Counted'
<1> SUFFICES ASSUME NEW m \in links
             PROVE  /\ node'[m].ref_count = Cardinality(Holders(m)')
                    /\ node'[m].reclaim_count =
                          Cardinality(Reclaimers(m)') + (IF node'[m].ref_count > 0 THEN 1 ELSE 0)
  BY DEF Counted
<1>1. CASE m = n
  BY <1>1
<1>2. CASE m # n
  BY <1>2 DEF Counted
<1>3. QED
  BY <1>1, <1>2

\* An inode that has a node marked dirty or being written still has it when only other
\* fields of the nodes change and nobody stops writing.
LEMMA MarkedKeptStays ==
    ASSUME MarkedKept, links' = links, disk' = disk, latest' = latest, ~synced, synced' = synced,
           \A m \in links : /\ node'[m].ino = node[m].ino /\ node'[m].din = node[m].din
                            /\ node'[m].dirty = node[m].dirty \/ \E u \in Thread : Writing(u, m)',
           \A m \in links, u \in Thread : Writing(u, m) => Writing(u, m)'
    PROVE  MarkedKept'
<1> SUFFICES ASSUME NEW i \in Ino, disk[i] # latest[i]
             PROVE  \E m \in links : /\ node'[m].ino = i /\ node'[m].din = latest[i]
                                     /\ node'[m].dirty \/ \E u \in Thread : Writing(u, m)'
  BY DEF MarkedKept, Hashed
<1>1. PICK m \in links : /\ node[m].ino = i /\ node[m].din = latest[i]
                         /\ node[m].dirty \/ \E u \in Thread : Writing(u, m)
  BY DEF MarkedKept, Hashed
<1>2. QED
  BY <1>1

\* A reference is given back: the last one starts a reclaim, and otherwise the node
\* still has a user.
LEMMA RefDecStep ==
    ASSUME IInv, NEW t \in Thread, RefDec(t)
    PROVE  IInv'
<1>1. TypeOK /\ Standing /\ FsLock /\ Listed /\ NodeLock /\ Counted /\ Fresh /\ MarkedKept
  BY DEF IInv
<1>0. PICK n : n = mine[t]
  OBVIOUS
<1> DEFINE last == node[n].ref_count = 1
<1>2. /\ pc[t] = "run" /\ n \in links /\ n \in NodeId /\ ~synced /\ n # NoInode
      /\ pc' = (IF last THEN [pc EXCEPT ![t] = "reclaim"] ELSE pc)
      /\ mine' = (IF last THEN mine ELSE [mine EXCEPT ![t] = NoInode])
      /\ links' = links /\ fs_sem' = fs_sem /\ disk' = disk /\ want' = want
      /\ latest' = latest /\ synced' = synced
  BY <1>0, <1>1 DEF RefDec, Goto, TypeOK, Standing
<1>3. /\ pc'[t] = (IF last THEN "reclaim" ELSE "run")
      /\ mine'[t] = (IF last THEN n ELSE NoInode)
      /\ \A u \in Thread \ {t} : pc'[u] = pc[u] /\ mine'[u] = mine[u]
      /\ pc' \in [Thread -> Label] /\ mine' \in [Thread -> NodeId \cup {NoInode}]
  BY <1>0, <1>1, <1>2 DEF TypeOK, Label
<1>4. /\ node[n].ref_count = Cardinality(Holders(n))
      /\ node[n].reclaim_count =
            Cardinality(Reclaimers(n)) + (IF node[n].ref_count > 0 THEN 1 ELSE 0)
      /\ t \in Holders(n) /\ t \notin Reclaimers(n)
  BY <1>0, <1>1, <1>2 DEF Counted, Holders, Reclaimers
<1>5. /\ Cardinality(Holders(n)) \in Nat /\ Cardinality(Reclaimers(n)) \in Nat
      /\ Cardinality(Holders(n)) # 0
      /\ Cardinality(Holders(n) \ {t}) = Cardinality(Holders(n)) - 1
      /\ Cardinality(Reclaimers(n) \cup {t}) = Cardinality(Reclaimers(n)) + 1
      /\ Cardinality(Holders(n) \ {t}) # 0 => Holders(n) \ {t} # {}
  <2>1. Holders(n) \ {t} \in SUBSET Thread
    BY Users
  <2>2. QED
    BY <2>1, <1>4, Users, Counting
<1>6. /\ node' \in [NodeId -> Inode]
      /\ \A m \in NodeId \ {n} : node'[m] = node[m]
      /\ node'[n].sem = node[n].sem /\ node'[n].ino = node[n].ino
      /\ node'[n].din = node[n].din /\ node'[n].dirty = node[n].dirty
      /\ node'[n].ref_count = node[n].ref_count - 1
      /\ node'[n].reclaim_count = node[n].reclaim_count
  <2>1. node' = [node EXCEPT ![n].ref_count = @ - 1]
    BY <1>0 DEF RefDec
  <2>2. node[n] \in Inode /\ node[n].ref_count - 1 \in Nat
    BY <1>1, <1>2, <1>4, <1>5 DEF TypeOK
  <2>3. QED
    BY <2>1, <2>2, <1>1, <1>2 DEF TypeOK, Inode
<1>7. TypeOK'
  BY <1>1, <1>2, <1>3, <1>6 DEF TypeOK
<1>8. Standing'
  BY <1>0, <1>1, <1>2, <1>3 DEF Standing
<1>9. FsLock'
  <2>1. \A u \in Thread : pc[u] \in {"rsync", "rsync2"} => mine[u] # n /\ mine[u] # NoInode
    BY <1>0, <1>1, <1>2 DEF FsLock, Standing
  <2>2. \A u \in Thread : pc'[u] \in {"create", "rsync", "rsync2"} <=> pc[u] \in {"create", "rsync", "rsync2"}
    BY <1>0, <1>2, <1>3
  <2>3. \A m \in NodeId : node'[m].ino = node[m].ino /\ node'[m].dirty = node[m].dirty
    BY <1>6
  <2>4. QED
    BY <2>1, <2>2, <2>3, <1>1, <1>2, <1>3 DEF FsLock, TypeOK
<1>10. Listed'
  <2>1. \A m \in NodeId : node'[m].ino = node[m].ino
    BY <1>6
  <2>2. \A m \in NodeId \ links : node'[m] = Free
    BY <1>1, <1>2, <1>6 DEF Listed
  <2>3. ASSUME NEW m \in links
        PROVE  \E u \in Thread : mine'[u] = m
    <3>1. CASE m # n
      BY <3>1, <1>0, <1>1, <1>3 DEF Listed
    <3>2. CASE m = n /\ last
      BY <3>2, <1>3
    <3>3. CASE m = n /\ ~last
      <4>1. PICK u : u \in Holders(n) \ {t}
        BY <3>3, <1>4, <1>5
      <4>2. QED
        BY <4>1, <3>3, <1>3 DEF Holders
    <3>4. QED
      BY <3>1, <3>2, <3>3
  <2>4. QED
    BY <2>1, <2>2, <2>3, <1>1, <1>2 DEF Listed, TypeOK
<1>11. Fresh'
  <2>1. \A m \in links, u \in Thread : Writing(u, m)' => Writing(u, m)
    BY <1>2, <1>3 DEF Writing
  <2>2. \A m \in links : /\ node'[m].ino = node[m].ino /\ node'[m].din = node[m].din
                         /\ node'[m].dirty = node[m].dirty
    BY <1>1, <1>6 DEF TypeOK
  <2>3. QED
    BY <2>1, <2>2, <1>1, <1>2, FreshStays DEF Marked
<1>12. NodeLock'
  <2>1. \A m \in NodeId : node'[m].sem = node[m].sem
    BY <1>6
  <2>2. \A m \in links, u \in Thread :
           mine'[u] = m /\ pc'[u] \in {"write", "fsync2", "rsync2"}
           <=> mine[u] = m /\ pc[u] \in {"write", "fsync2", "rsync2"}
    BY <1>0, <1>2, <1>3
  <2>3. QED
    BY <2>1, <2>2, <1>1, <1>2 DEF NodeLock, TypeOK
<1>13. Counted'
  <2>1. Holders(n)' = Holders(n) \ {t}
    BY <1>0, <1>2, <1>3 DEF Holders
  <2>2. Reclaimers(n)' = IF last THEN Reclaimers(n) \cup {t} ELSE Reclaimers(n)
    BY <1>0, <1>2, <1>3 DEF Reclaimers
  <2>3. \A m \in links \ {n} : Holders(m)' = Holders(m) /\ Reclaimers(m)' = Reclaimers(m)
    BY <1>0, <1>1, <1>2, <1>3, NamesAssumption DEF Holders, Reclaimers, TypeOK
  <2>4. /\ node'[n].ref_count = Cardinality(Holders(n)')
        /\ node'[n].reclaim_count =
              Cardinality(Reclaimers(n)') + (IF node'[n].ref_count > 0 THEN 1 ELSE 0)
    BY <2>1, <2>2, <1>4, <1>5, <1>6
  <2>5. \A m \in links \ {n} : node'[m] = node[m]
    BY <1>1, <1>6 DEF TypeOK
  <2>6. QED
    BY <2>3, <2>4, <2>5, <1>1, <1>2, CountedAt
<1>14. MarkedKept'
  <2>1. \A m \in links : /\ node'[m].ino = node[m].ino /\ node'[m].din = node[m].din
                         /\ node'[m].dirty = node[m].dirty
    BY <1>1, <1>6 DEF TypeOK
  <2>2. \A m \in links, u \in Thread : Writing(u, m) => Writing(u, m)'
    BY <1>0, <1>2, <1>3 DEF Writing
  <2>3. QED
    BY <2>1, <2>2, <1>1, <1>2, MarkedKeptStays
<1>15. QED
  BY <1>7, <1>8, <1>9, <1>10, <1>11, <1>12, <1>13, <1>14 DEF IInv

\* What the counters of a node tell the thread that is about to reclaim it: as long as
\* fs_sem is free, an unused node is that thread's alone, and a used one has another user.
LEMMA ReclaimerAlone ==
    ASSUME IInv, NEW t \in Thread, pc[t] = "reclaim", fs_sem = NoThread, NEW n, n = mine[t]
    PROVE  /\ n \in links /\ t \in Reclaimers(n) /\ t \notin Holders(n)
           /\ node[n].ref_count = Cardinality(Holders(n))
           /\ node[n].reclaim_count =
                 Cardinality(Reclaimers(n)) + (IF node[n].ref_count > 0 THEN 1 ELSE 0)
           /\ Cardinality(Holders(n)) \in Nat /\ Cardinality(Reclaimers(n)) \in Nat
           /\ Cardinality(Reclaimers(n)) # 0
           /\ Cardinality(Reclaimers(n) \ {t}) = Cardinality(Reclaimers(n)) - 1
           /\ Unused(node[n]) => \A u \in Thread \ {t} : mine[u] # n
           /\ ~Unused(node[n]) => \E u \in Thread \ {t} : mine[u] = n
<1>1. TypeOK /\ Standing /\ FsLock /\ Listed /\ NodeLock /\ Counted
  BY DEF IInv
<1>2. n \in links /\ t \in Reclaimers(n) /\ t \notin Holders(n)
  BY <1>1 DEF Standing, Reclaimers, Holders
<1>3. /\ node[n].ref_count = Cardinality(Holders(n))
      /\ node[n].reclaim_count =
            Cardinality(Reclaimers(n)) + (IF node[n].ref_count > 0 THEN 1 ELSE 0)
  BY <1>1, <1>2 DEF Counted
<1>4. Reclaimers(n) \ {t} \in SUBSET Thread
  BY Users
<1>5. /\ Cardinality(Holders(n)) \in Nat /\ Cardinality(Reclaimers(n)) \in Nat
      /\ Cardinality(Holders(n)) = 0 <=> Holders(n) = {}
      /\ Cardinality(Reclaimers(n)) = 0 <=> Reclaimers(n) = {}
      /\ Cardinality(Reclaimers(n)) = 1 => Reclaimers(n) = {t}
      /\ Cardinality(Reclaimers(n) \ {t}) = Cardinality(Reclaimers(n)) - 1
      /\ Cardinality(Reclaimers(n) \ {t}) = 0 <=> Reclaimers(n) \ {t} = {}
  BY <1>2, <1>4, Users, Counting
<1>6. ASSUME Unused(node[n]), NEW u \in Thread \ {t}
      PROVE  mine[u] # n
  <2>1. Reclaimers(n) = {t} /\ Holders(n) = {}
    BY <1>3, <1>5, <1>6 DEF Unused
  <2>2. pc[u] \notin {"rsync", "rsync2"}
    BY <1>1, NamesAssumption DEF FsLock
  <2>3. QED
    BY <2>1, <2>2 DEF Reclaimers, Holders
<1>7. ASSUME ~Unused(node[n])
      PROVE  \E u \in Thread \ {t} : mine[u] = n
  <2>1. CASE Holders(n) # {}
    BY <2>1, <1>2 DEF Holders
  <2>2. CASE Holders(n) = {}
    <3>1. Reclaimers(n) \ {t} # {}
      BY <2>2, <1>3, <1>5, <1>7 DEF Unused
    <3>2. QED
      BY <3>1 DEF Reclaimers
  <2>3. QED
    BY <2>1, <2>2
<1>8. Cardinality(Reclaimers(n)) # 0
  BY <1>2, <1>5
<1>9. QED
  BY <1>2, <1>3, <1>5, <1>6, <1>7, <1>8

\* A reclaim that finds the node in use, or about to be reclaimed by somebody else.
LEMMA ReclaimBusyStep ==
    ASSUME IInv, NEW t \in Thread, ReclaimBusy(t)
    PROVE  IInv'
<1>1. TypeOK /\ Standing /\ FsLock /\ Listed /\ NodeLock /\ Counted /\ Fresh /\ MarkedKept
  BY DEF IInv
<1>0. PICK n : n = mine[t]
  OBVIOUS
<1>2. /\ pc[t] = "reclaim" /\ n \in links /\ n \in NodeId /\ ~synced
      /\ fs_sem = NoThread /\ ~Unused(node[n])
      /\ pc' = [pc EXCEPT ![t] = "run"] /\ mine' = [mine EXCEPT ![t] = NoInode]
      /\ links' = links /\ fs_sem' = fs_sem /\ disk' = disk /\ want' = want
      /\ latest' = latest /\ synced' = synced
  BY <1>0, <1>1 DEF ReclaimBusy, Goto, TypeOK, Standing
<1>3. /\ pc'[t] = "run" /\ mine'[t] = NoInode
      /\ \A u \in Thread \ {t} : pc'[u] = pc[u] /\ mine'[u] = mine[u]
      /\ pc' \in [Thread -> Label] /\ mine' \in [Thread -> NodeId \cup {NoInode}]
  BY <1>1, <1>2 DEF TypeOK, Label
<1>4. /\ t \in Reclaimers(n)
      /\ node[n].ref_count = Cardinality(Holders(n))
      /\ node[n].reclaim_count =
            Cardinality(Reclaimers(n)) + (IF node[n].ref_count > 0 THEN 1 ELSE 0)
      /\ Cardinality(Holders(n)) \in Nat /\ Cardinality(Reclaimers(n)) \in Nat
      /\ Cardinality(Reclaimers(n)) # 0
      /\ Cardinality(Reclaimers(n) \ {t}) = Cardinality(Reclaimers(n)) - 1
      /\ \E u \in Thread \ {t} : mine[u] = n
  <2>1. pc[t] = "reclaim" /\ fs_sem = NoThread /\ n = mine[t] /\ ~Unused(node[n])
    BY <1>0, <1>2
  <2>2. QED
    BY <2>1, ReclaimerAlone, Zenon
<1>5. /\ node' \in [NodeId -> Inode]
      /\ \A m \in NodeId \ {n} : node'[m] = node[m]
      /\ node'[n].sem = node[n].sem /\ node'[n].ino = node[n].ino
      /\ node'[n].din = node[n].din /\ node'[n].dirty = node[n].dirty
      /\ node'[n].ref_count = node[n].ref_count
      /\ node'[n].reclaim_count = node[n].reclaim_count - 1
  <2>1. node' = [node EXCEPT ![n].reclaim_count = @ - 1]
    BY <1>0 DEF ReclaimBusy
  <2>2. node[n] \in Inode /\ node[n].reclaim_count - 1 \in Nat
    BY <1>1, <1>2, <1>4 DEF TypeOK
  <2>3. QED
    BY <2>1, <2>2, <1>1, <1>2 DEF TypeOK, Inode
<1>6. TypeOK'
  BY <1>1, <1>2, <1>3, <1>5 DEF TypeOK
<1>7. Standing'
  BY <1>1, <1>2, <1>3 DEF Standing
<1>8. FsLock'
  BY <1>1, <1>2, <1>3, NamesAssumption DEF FsLock
<1>9. Listed'
  <2>1. \A m \in NodeId : node'[m].ino = node[m].ino
    BY <1>5
  <2>2. \A m \in NodeId \ links : node'[m] = Free
    BY <1>1, <1>2, <1>5 DEF Listed
  <2>3. ASSUME NEW m \in links
        PROVE  \E u \in Thread : mine'[u] = m
    BY <1>0, <1>1, <1>3, <1>4 DEF Listed
  <2>4. QED
    BY <2>1, <2>2, <2>3, <1>1, <1>2 DEF Listed, TypeOK
<1>10. Fresh'
  <2>1. \A m \in links, u \in Thread : Writing(u, m)' => Writing(u, m)
    BY <1>2, <1>3 DEF Writing
  <2>2. \A m \in links : /\ node'[m].ino = node[m].ino /\ node'[m].din = node[m].din
                         /\ node'[m].dirty = node[m].dirty
    BY <1>1, <1>5 DEF TypeOK
  <2>3. QED
    BY <2>1, <2>2, <1>1, <1>2, FreshStays DEF Marked
<1>11. NodeLock'
  <2>1. \A m \in NodeId : node'[m].sem = node[m].sem
    BY <1>5
  <2>2. \A m \in links, u \in Thread :
           mine'[u] = m /\ pc'[u] \in {"write", "fsync2", "rsync2"}
           <=> mine[u] = m /\ pc[u] \in {"write", "fsync2", "rsync2"}
    BY <1>2, <1>3
  <2>3. QED
    BY <2>1, <2>2, <1>1, <1>2 DEF NodeLock, TypeOK
<1>12. Counted'
  <2>1. Holders(n)' = Holders(n) /\ Reclaimers(n)' = Reclaimers(n) \ {t}
    BY <1>1, <1>2, <1>3, NamesAssumption DEF Holders, Reclaimers
  <2>2. \A m \in links \ {n} : Holders(m)' = Holders(m) /\ Reclaimers(m)' = Reclaimers(m)
    BY <1>0, <1>1, <1>2, <1>3, NamesAssumption DEF Holders, Reclaimers, TypeOK
  <2>3. /\ node'[n].ref_count = Cardinality(Holders(n)')
        /\ node'[n].reclaim_count =
              Cardinality(Reclaimers(n)') + (IF node'[n].ref_count > 0 THEN 1 ELSE 0)
    BY <2>1, <1>4, <1>5
  <2>4. \A m \in links \ {n} : node'[m] = node[m]
    BY <1>1, <1>5 DEF TypeOK
  <2>5. QED
    BY <2>2, <2>3, <2>4, <1>1, <1>2, CountedAt
<1>13. MarkedKept'
  <2>1. \A m \in links : /\ node'[m].ino = node[m].ino /\ node'[m].din = node[m].din
                         /\ node'[m].dirty = node[m].dirty
    BY <1>1, <1>5 DEF TypeOK
  <2>2. \A m \in links, u \in Thread : Writing(u, m) => Writing(u, m)'
    BY <1>2, <1>3 DEF Writing
  <2>3. QED
    BY <2>1, <2>2, <1>1, <1>2, MarkedKeptStays
<1>14. QED
  BY <1>6, <1>7, <1>8, <1>9, <1>10, <1>11, <1>12, <1>13 DEF IInv

\* A reclaim of a node that must be written first keeps fs_sem: nobody can look it up.
LEMMA ReclaimDirtyStep ==
    ASSUME IInv, NEW t \in Thread, ReclaimDirty(t)
    PROVE  IInv'
<1>1. TypeOK /\ Standing /\ FsLock /\ Listed /\ NodeLock /\ Counted /\ Fresh /\ MarkedKept
  BY DEF IInv
<1>0. PICK n : n = mine[t]
  OBVIOUS
<1>2. /\ pc[t] = "reclaim" /\ n \in links /\ n \in NodeId /\ ~synced
      /\ fs_sem = NoThread /\ Unused(node[n]) /\ node[n].dirty
      /\ pc' = [pc EXCEPT ![t] = "rsync"] /\ mine' = mine
      /\ links' = links /\ fs_sem' = t /\ disk' = disk /\ want' = want
      /\ latest' = latest /\ synced' = synced
  BY <1>0, <1>1 DEF ReclaimDirty, Dirty, Goto, TypeOK, Standing
<1>3. /\ pc'[t] = "rsync"
      /\ \A u \in Thread \ {t} : pc'[u] = pc[u]
      /\ pc' \in [Thread -> Label]
  BY <1>1, <1>2 DEF TypeOK, Label
<1>4. /\ t \in Reclaimers(n)
      /\ node[n].ref_count = Cardinality(Holders(n))
      /\ node[n].reclaim_count =
            Cardinality(Reclaimers(n)) + (IF node[n].ref_count > 0 THEN 1 ELSE 0)
      /\ Cardinality(Holders(n)) \in Nat /\ Cardinality(Reclaimers(n)) \in Nat
      /\ Cardinality(Reclaimers(n)) # 0
      /\ Cardinality(Reclaimers(n) \ {t}) = Cardinality(Reclaimers(n)) - 1
      /\ \A u \in Thread \ {t} : mine[u] # n
  BY <1>0, <1>2, ReclaimerAlone
<1>5. /\ node' \in [NodeId -> Inode]
      /\ \A m \in NodeId \ {n} : node'[m] = node[m]
      /\ node'[n].sem = node[n].sem /\ node'[n].ino = node[n].ino
      /\ node'[n].din = node[n].din /\ node'[n].dirty = node[n].dirty
      /\ node'[n].ref_count = node[n].ref_count
      /\ node'[n].reclaim_count = node[n].reclaim_count - 1
  <2>1. node' = [node EXCEPT ![n].reclaim_count = @ - 1]
    BY <1>0 DEF ReclaimDirty
  <2>2. node[n] \in Inode /\ node[n].reclaim_count - 1 \in Nat
    BY <1>1, <1>2, <1>4 DEF TypeOK
  <2>3. QED
    BY <2>1, <2>2, <1>1, <1>2 DEF TypeOK, Inode
<1>6. TypeOK'
  BY <1>1, <1>2, <1>3, <1>5 DEF TypeOK
<1>7. Standing'
  BY <1>0, <1>1, <1>2, <1>3, NamesAssumption DEF Standing
<1>8. FsLock'
  <2>1. \A u \in Thread : pc[u] \notin {"create", "rsync", "rsync2"}
    BY <1>1, <1>2, NamesAssumption DEF FsLock
  <2>2. node'[n].dirty
    BY <1>2, <1>5
  <2>3. QED
    BY <2>1, <2>2, <1>0, <1>2, <1>3, <1>4 DEF FsLock
<1>9. Listed'
  <2>1. \A m \in NodeId : node'[m].ino = node[m].ino
    BY <1>5
  <2>2. \A m \in NodeId \ links : node'[m] = Free
    BY <1>1, <1>2, <1>5 DEF Listed
  <2>3. QED
    BY <2>1, <2>2, <1>1, <1>2 DEF Listed, TypeOK
<1>10. Fresh'
  <2>1. \A m \in links, u \in Thread : Writing(u, m)' => Writing(u, m)
    BY <1>2, <1>3 DEF Writing
  <2>2. \A m \in links : /\ node'[m].ino = node[m].ino /\ node'[m].din = node[m].din
                         /\ node'[m].dirty = node[m].dirty
    BY <1>1, <1>5 DEF TypeOK
  <2>3. QED
    BY <2>1, <2>2, <1>1, <1>2, FreshStays DEF Marked
<1>11. NodeLock'
  <2>1. \A m \in NodeId : node'[m].sem = node[m].sem
    BY <1>5
  <2>2. \A m \in links, u \in Thread :
           mine'[u] = m /\ pc'[u] \in {"write", "fsync2", "rsync2"}
           <=> mine[u] = m /\ pc[u] \in {"write", "fsync2", "rsync2"}
    BY <1>2, <1>3
  <2>3. QED
    BY <2>1, <2>2, <1>1, <1>2 DEF NodeLock, TypeOK
<1>12. Counted'
  <2>1. Holders(n)' = Holders(n) /\ Reclaimers(n)' = Reclaimers(n) \ {t}
    BY <1>0, <1>2, <1>3 DEF Holders, Reclaimers
  <2>2. \A m \in links \ {n} : Holders(m)' = Holders(m) /\ Reclaimers(m)' = Reclaimers(m)
    BY <1>0, <1>1, <1>2, <1>3, NamesAssumption DEF Holders, Reclaimers, TypeOK
  <2>3. /\ node'[n].ref_count = Cardinality(Holders(n)')
        /\ node'[n].reclaim_count =
              Cardinality(Reclaimers(n)') + (IF node'[n].ref_count > 0 THEN 1 ELSE 0)
    BY <2>1, <1>4, <1>5
  <2>4. \A m \in links \ {n} : node'[m] = node[m]
    BY <1>1, <1>5 DEF TypeOK
  <2>5. QED
    BY <2>2, <2>3, <2>4, <1>1, <1>2, CountedAt
<1>13. MarkedKept'
  <2>1. \A m \in links : /\ node'[m].ino = node[m].ino /\ node'[m].din = node[m].din
                         /\ node'[m].dirty = node[m].dirty
    BY <1>1, <1>5 DEF TypeOK
  <2>2. \A m \in links, u \in Thread : Writing(u, m) => Writing(u, m)'
    BY <1>2, <1>3 DEF Writing
  <2>3. QED
    BY <2>1, <2>2, <1>1, <1>2, MarkedKeptStays
<1>14. QED
  BY <1>6, <1>7, <1>8, <1>9, <1>10, <1>11, <1>12, <1>13 DEF IInv

\* The lock of the node, which nobody else can hold, and the write begins.
LEMMA ReclaimLockStep ==
    ASSUME IInv, NEW t \in Thread, ReclaimLock(t)
    PROVE  IInv'
<1>1. TypeOK /\ Standing /\ FsLock /\ Listed /\ NodeLock /\ Counted /\ Fresh /\ MarkedKept
  BY DEF IInv
<1>0. PICK n : n = mine[t]
  OBVIOUS
<1>2. /\ pc[t] = "rsync" /\ n \in links /\ n \in NodeId /\ ~synced /\ fs_sem = t
      /\ pc' = [pc EXCEPT ![t] = "rsync2"] /\ mine' = mine
      /\ links' = links /\ fs_sem' = fs_sem /\ disk' = disk /\ want' = want
      /\ latest' = latest /\ synced' = synced
      /\ \A u \in Thread \ {t} : mine[u] # n
      /\ node[n].dirty
  BY <1>0, <1>1 DEF ReclaimLock, Goto, TypeOK, Standing, FsLock
<1>3. /\ pc'[t] = "rsync2"
      /\ \A u \in Thread \ {t} : pc'[u] = pc[u]
      /\ pc' \in [Thread -> Label]
  BY <1>1, <1>2 DEF TypeOK, Label
<1>4. /\ node' \in [NodeId -> Inode]
      /\ \A m \in NodeId \ {n} : node'[m] = node[m]
      /\ node'[n].sem = t /\ node'[n].ino = node[n].ino /\ node'[n].din = node[n].din
      /\ node'[n].ref_count = node[n].ref_count
      /\ node'[n].reclaim_count = node[n].reclaim_count /\ ~node'[n].dirty
  <2>1. node' = [node EXCEPT ![n].sem = t, ![n].dirty = FALSE]
    BY <1>0 DEF ReclaimLock, SyncBegins
  <2>2. PICK x : x = [node[n] EXCEPT !.sem = t, !.dirty = FALSE]
    OBVIOUS
  <2>3. node[n] \in Inode
    BY <1>1, <1>2 DEF TypeOK
  <2>4. /\ x \in Inode /\ x.sem = t /\ x.ino = node[n].ino /\ x.din = node[n].din
        /\ x.ref_count = node[n].ref_count /\ x.reclaim_count = node[n].reclaim_count
        /\ ~x.dirty
    BY <2>2, <2>3 DEF Inode
  <2>5. node' = [node EXCEPT ![n] = x]
    BY <2>1, <2>2
  <2>6. QED
    BY <2>4, <2>5, <1>1, <1>2 DEF TypeOK
<1>5. TypeOK'
  BY <1>1, <1>2, <1>3, <1>4 DEF TypeOK
<1>6. Standing'
  BY <1>1, <1>2, <1>3 DEF Standing
<1>7. FsLock'
  <2>1. \A u \in Thread \ {t} : pc[u] \notin {"create", "rsync", "rsync2"}
    BY <1>1, <1>2 DEF FsLock
  <2>2. QED
    BY <2>1, <1>0, <1>2, <1>3 DEF FsLock
<1>8. Listed'
  <2>1. \A m \in NodeId : node'[m].ino = node[m].ino
    BY <1>4
  <2>2. \A m \in NodeId \ links : node'[m] = Free
    BY <1>1, <1>2, <1>4 DEF Listed
  <2>3. QED
    BY <2>1, <2>2, <1>1, <1>2 DEF Listed, TypeOK
<1>9. Fresh'
  <2>1. \A m \in links, u \in Thread : Writing(u, m)' => Marked(m)
    BY <1>0, <1>2, <1>3 DEF Writing, Marked
  <2>2. \A m \in links : /\ node'[m].ino = node[m].ino /\ node'[m].din = node[m].din
                         /\ node'[m].dirty => node[m].dirty
    BY <1>1, <1>4 DEF TypeOK
  <2>3. QED
    BY <2>1, <2>2, <1>1, <1>2, FreshStays
<1>10. NodeLock'
  BY <1>0, <1>1, <1>2, <1>3, <1>4 DEF NodeLock, TypeOK
<1>11. Counted'
  <2>1. ASSUME NEW m \in links
        PROVE  Holders(m)' = Holders(m) /\ Reclaimers(m)' = Reclaimers(m)
    BY <1>1, <1>2, <1>3 DEF Holders, Reclaimers, TypeOK
  <2>2. ASSUME NEW m \in links
        PROVE  /\ node'[m].ref_count = node[m].ref_count
               /\ node'[m].reclaim_count = node[m].reclaim_count
    BY <1>1, <1>2, <1>4 DEF TypeOK
  <2>3. QED
    BY <2>1, <2>2, <1>1, <1>2, CountsKept
<1>12. MarkedKept'
  <2>1. Writing(t, n)'
    BY <1>0, <1>2, <1>3 DEF Writing
  <2>2. \A m \in links : /\ node'[m].ino = node[m].ino /\ node'[m].din = node[m].din
                         /\ node'[m].dirty = node[m].dirty \/ \E u \in Thread : Writing(u, m)'
    BY <2>1, <1>1, <1>4 DEF TypeOK
  <2>3. \A m \in links, u \in Thread : Writing(u, m) => Writing(u, m)'
    BY <1>2, <1>3 DEF Writing
  <2>4. QED
    BY <2>2, <2>3, <1>1, <1>2, MarkedKeptStays
<1>13. QED
  BY <1>5, <1>6, <1>7, <1>8, <1>9, <1>10, <1>11, <1>12 DEF IInv

\* The end of a reclaim: the node is t's alone and on the disk when it is freed.
LEMMA KilledStep ==
    ASSUME IInv, NEW t \in Thread, NEW n \in links, n = mine[t], Killed(t),
           pc[t] # "run", ~synced,
           \A u \in Thread \ {t} : mine[u] # n /\ fs_sem # u,
           disk' \in [Ino -> Value],
           \A j \in Ino : disk'[j] = IF j = node[n].ino THEN latest[j] ELSE disk[j]
    PROVE  IInv'
<1>1. TypeOK /\ Standing /\ FsLock /\ Listed /\ NodeLock /\ Counted /\ Fresh /\ MarkedKept
  BY DEF IInv
<1>2. /\ n \in NodeId
      /\ pc' = [pc EXCEPT ![t] = "run"] /\ mine' = [mine EXCEPT ![t] = NoInode]
      /\ links' = links \ {n} /\ fs_sem' = NoThread /\ want' = want
      /\ latest' = latest /\ synced' = synced /\ node' = [node EXCEPT ![n] = Free]
  BY <1>1 DEF Killed, Goto, TypeOK
<1>3. /\ pc'[t] = "run" /\ mine'[t] = NoInode
      /\ \A u \in Thread \ {t} : pc'[u] = pc[u] /\ mine'[u] = mine[u]
      /\ pc' \in [Thread -> Label] /\ mine' \in [Thread -> NodeId \cup {NoInode}]
  BY <1>1, <1>2 DEF TypeOK, Label
<1>4. /\ node' \in [NodeId -> Inode]
      /\ node'[n] = Free
      /\ \A m \in NodeId \ {n} : node'[m] = node[m]
  <2>1. Free \in Inode
    BY DEF Free, Inode, Value
  <2>2. QED
    BY <2>1, <1>1, <1>2 DEF TypeOK
<1>5. \A m \in links' : m \in links /\ m \in NodeId /\ m # n /\ node'[m] = node[m]
  BY <1>1, <1>2, <1>4 DEF TypeOK
<1>6. TypeOK'
  BY <1>1, <1>2, <1>3, <1>4 DEF TypeOK
<1>7. Standing'
  BY <1>1, <1>2, <1>3 DEF Standing
<1>8. FsLock'
  <2>1. \A u \in Thread \ {t} : pc[u] \notin {"create", "rsync", "rsync2"}
    BY <1>1 DEF FsLock
  <2>2. QED
    BY <2>1, <1>2, <1>3, NamesAssumption DEF FsLock
<1>9. Listed'
  <2>1. \A m \in NodeId \ links' : node'[m] = Free
    BY <1>1, <1>2, <1>4 DEF Listed
  <2>2. \A m \in links' : \E u \in Thread : mine'[u] = m
    BY <1>1, <1>3, <1>5 DEF Listed
  <2>3. QED
    BY <2>1, <2>2, <1>1, <1>5 DEF Listed
<1>10. Fresh'
  <2>1. \A m \in links', u \in Thread : Writing(u, m)' => Writing(u, m)
    BY <1>3, <1>5 DEF Writing
  <2>2. QED
    BY <2>1, <1>1, <1>2, <1>5, FreshStays DEF Marked
<1>11. NodeLock'
  BY <1>1, <1>3, <1>5, NamesAssumption DEF NodeLock
<1>12. Counted'
  <2>1. \A m \in links' : Holders(m)' = Holders(m) /\ Reclaimers(m)' = Reclaimers(m)
    BY <1>3, <1>5, NamesAssumption DEF Holders, Reclaimers
  <2>2. QED
    BY <2>1, <1>1, <1>2, <1>5, CountsKept
<1>13. MarkedKept'
  <2> SUFFICES ASSUME NEW j \in Ino, disk'[j] # latest[j]
               PROVE  \E m \in links' : /\ node'[m].ino = j /\ node'[m].din = latest[j]
                                        /\ node'[m].dirty \/ \E u \in Thread : Writing(u, m)'
    BY <1>2 DEF MarkedKept, Hashed
  <2>1. j # node[n].ino /\ disk[j] # latest[j]
    OBVIOUS
  <2>2. PICK m \in links : /\ node[m].ino = j /\ node[m].din = latest[j]
                           /\ node[m].dirty \/ \E u \in Thread : Writing(u, m)
    BY <2>1, <1>1 DEF MarkedKept, Hashed
  <2>3. m \in links' /\ node'[m] = node[m] /\ m # n
    BY <2>1, <2>2, <1>2, <1>5
  <2>4. ASSUME NEW u \in Thread, Writing(u, m)
        PROVE  Writing(u, m)'
    BY <2>3, <2>4, <1>3 DEF Writing
  <2>5. QED
    BY <2>2, <2>3, <2>4
<1>14. QED
  BY <1>6, <1>7, <1>8, <1>9, <1>10, <1>11, <1>12, <1>13 DEF IInv

\* The two ways a reclaim ends.
LEMMA ReclaimedSteps ==
    ASSUME IInv, NEW t \in Thread, ReclaimSynced(t) \/ ReclaimClean(t)
    PROVE  IInv'
<1>1. TypeOK /\ Standing /\ FsLock /\ Listed /\ NodeLock /\ Counted /\ Fresh /\ MarkedKept
  BY DEF IInv
<1>2. PICK n : n = mine[t]
  OBVIOUS
<1>3. n \in links /\ n \in NodeId /\ node[n].ino \in Ino
  BY <1>1, <1>2 DEF ReclaimSynced, ReclaimClean, Standing, Listed, TypeOK
<1>4. Killed(t) /\ pc[t] # "run" /\ ~synced
  BY <1>1 DEF ReclaimSynced, ReclaimClean, Standing
<1>5. CASE ReclaimSynced(t)
  <2>1. \A u \in Thread \ {t} : mine[u] # n /\ fs_sem # u
    BY <1>1, <1>2, <1>5 DEF ReclaimSynced, FsLock
  <2>2. disk' = [disk EXCEPT ![node[n].ino] = node[n].din]
    BY <1>2, <1>5 DEF ReclaimSynced, Written
  <2>3. /\ disk' \in [Ino -> Value]
        /\ \A j \in Ino : disk'[j] = IF j = node[n].ino THEN latest[j] ELSE disk[j]
    <3>1. node[n].din = latest[node[n].ino]
      BY <1>1, <1>2, <1>3, <1>5 DEF ReclaimSynced, Fresh, Marked, Writing
    <3>2. QED
      BY <2>2, <3>1, <1>1, <1>3 DEF TypeOK
  <2>4. QED
    BY <2>1, <2>3, <1>2, <1>3, <1>4, KilledStep
<1>6. CASE ReclaimClean(t)
  <2>1. pc[t] = "reclaim" /\ fs_sem = NoThread /\ Unused(node[n]) /\ ~node[n].dirty /\ disk' = disk
    BY <1>2, <1>6 DEF ReclaimClean, Dirty
  <2>2. \A u \in Thread \ {t} : mine[u] # n
    BY <2>1, <1>2, ReclaimerAlone
  <2>3. disk[node[n].ino] = latest[node[n].ino]
    <3>1. \A m \in links : node[m].ino = node[n].ino => m = n
      BY <1>1, <1>3 DEF Listed
    <3>2. \A u \in Thread : ~Writing(u, n)
      BY <2>1, <2>2, <1>2 DEF Writing
    <3>3. QED
      BY <3>1, <3>2, <2>1, <1>1, <1>3 DEF MarkedKept, Hashed
  <2>4. /\ disk' \in [Ino -> Value]
        /\ \A j \in Ino : disk'[j] = IF j = node[n].ino THEN latest[j] ELSE disk[j]
    BY <2>1, <2>3, <1>1 DEF TypeOK
  <2>5. QED
    BY <2>1, <2>2, <2>4, <1>2, <1>3, <1>4, NamesAssumption, KilledStep
<1>7. QED
  BY <1>5, <1>6

\* fs_cleanup finds nobody at work and writes what is dirty.
LEMMA CleanupStep ==
    ASSUME IInv, Cleanup
    PROVE  IInv'
<1>1. TypeOK /\ Standing /\ FsLock /\ Listed /\ NodeLock /\ Counted /\ Fresh /\ MarkedKept
  BY DEF IInv
<1>2. /\ \A t \in Thread : pc[t] = "run"
      /\ links' = links /\ fs_sem' = fs_sem /\ pc' = pc /\ mine' = mine /\ want' = want
      /\ latest' = latest /\ synced' = TRUE
  BY DEF Cleanup
<1>3. /\ node' = [n \in NodeId |->
                    IF n \in links THEN [node[n] EXCEPT !.dirty = FALSE] ELSE node[n]]
      /\ disk' = [i \in Ino |->
                    IF \E n \in Hashed(i) : node[n].dirty
                    THEN node[CHOOSE n \in Hashed(i) : node[n].dirty].din ELSE disk[i]]
  BY DEF Cleanup
<1>4. /\ node' \in [NodeId -> Inode]
      /\ \A n \in NodeId \ links : node'[n] = node[n]
      /\ \A n \in links : /\ node'[n].ino = node[n].ino /\ node'[n].din = node[n].din
                          /\ node'[n].sem = node[n].sem
                          /\ node'[n].ref_count = node[n].ref_count
                          /\ node'[n].reclaim_count = node[n].reclaim_count
                          /\ ~node'[n].dirty
  <2>1. ASSUME NEW n \in NodeId
        PROVE  [node[n] EXCEPT !.dirty = FALSE] \in Inode
    <3>1. node[n] \in Inode
      BY <1>1 DEF TypeOK
    <3>2. QED
      BY <3>1 DEF Inode
  <2>2. node' \in [NodeId -> Inode]
    BY <2>1, <1>1, <1>3 DEF TypeOK
  <2>3. ASSUME NEW n \in links
        PROVE  node'[n] = [node[n] EXCEPT !.dirty = FALSE] /\ node[n] \in Inode
    BY <1>1, <1>3 DEF TypeOK
  <2>4. \A n \in NodeId \ links : node'[n] = node[n]
    BY <1>3
  <2>5. QED
    BY <2>2, <2>3, <2>4 DEF Inode
<1>5. ASSUME NEW i \in Ino
      PROVE  disk'[i] = latest[i]
  <2>1. CASE \E n \in Hashed(i) : node[n].dirty
    <3>1. PICK n : n \in Hashed(i) /\ node[n].dirty /\ disk'[i] = node[n].din
      BY <2>1, <1>3
    <3>2. QED
      BY <3>1, <1>1 DEF Hashed, Fresh, Marked
  <2>2. CASE ~ \E n \in Hashed(i) : node[n].dirty
    <3>1. disk'[i] = disk[i]
      BY <2>2, <1>3
    <3>2. QED
      BY <3>1, <2>2, <1>1, <1>2 DEF MarkedKept, Writing
  <2>3. QED
    BY <2>1, <2>2
<1>6. TypeOK'
  <2>1. disk' \in [Ino -> Value]
    <3>1. disk' = [i \in Ino |-> disk'[i]]
      BY <1>3
    <3>2. QED
      BY <3>1, <1>1, <1>5 DEF TypeOK
  <2>2. QED
    BY <2>1, <1>1, <1>2, <1>4 DEF TypeOK
<1>7. Standing'
  BY <1>1, <1>2 DEF Standing
<1>8. FsLock'
  BY <1>1, <1>2 DEF FsLock
<1>9. Listed'
  BY <1>1, <1>2, <1>4 DEF Listed
<1>10. Fresh'
  BY <1>2, <1>4 DEF Fresh, Marked, Writing
<1>11. NodeLock'
  BY <1>1, <1>2, <1>4 DEF NodeLock
<1>12. Counted'
  <2>1. \A m \in links : Holders(m)' = Holders(m) /\ Reclaimers(m)' = Reclaimers(m)
    BY <1>2 DEF Holders, Reclaimers
  <2>2. QED
    BY <2>1, <1>1, <1>2, <1>4, CountsKept
<1>13. MarkedKept'
  BY <1>2, <1>5 DEF MarkedKept
<1>14. QED
  BY <1>6, <1>7, <1>8, <1>9, <1>10, <1>11, <1>12, <1>13 DEF IInv

\* Every step keeps the invariant.
LEMMA NextIInv == IInv /\ [CacheNext]_cachevars => IInv'
<1> SUFFICES ASSUME IInv, [CacheNext]_cachevars PROVE IInv'
  OBVIOUS
<1>1. CASE UNCHANGED cachevars
  <2>1. /\ node' = node /\ links' = links /\ fs_sem' = fs_sem /\ disk' = disk /\ pc' = pc
        /\ mine' = mine /\ want' = want /\ latest' = latest /\ synced' = synced
    BY <1>1 DEF cachevars
  <2>2. TypeOK' /\ Standing' /\ FsLock' /\ Listed' /\ NodeLock'
    BY <2>1 DEF IInv, TypeOK, Standing, FsLock, Listed, NodeLock
  <2>3. Counted'
    BY <2>1, Zenon DEF IInv, Counted, Holders, Reclaimers
  <2>4. MarkedKept' /\ Fresh'
    BY <2>1, Zenon DEF IInv, MarkedKept, Hashed, Fresh, Marked, Writing
  <2>5. QED
    BY <2>2, <2>3, <2>4 DEF IInv
<1>2. CASE Cleanup
  BY <1>2, CleanupStep
<1>3. ASSUME NEW t \in Thread,
             \/ \E i \in Ino : Load(t, i)
             \/ WriteLock(t) \/ Fsync(t) \/ RefDec(t)
             \/ Take(t) \/ Run(t)
      PROVE  IInv'
  BY <1>3, LoadSteps, FsyncSteps, LockSteps, UnlockSteps, LoadHitStep, CreateStep, RefDecStep,
     ReclaimBusyStep, ReclaimDirtyStep, ReclaimLockStep, ReclaimedSteps DEF Take, Run
<1>4. QED
  BY <1>1, <1>2, <1>3 DEF CacheNext

-----------------------------------------------------------------------------
(* Theorems                                                                *)

\* The invariant holds in every behaviour of the cache.
THEOREM Invariant == CacheSpec => []IInv
<1>1. QED
  BY InitIInv, NextIInv, PTL DEF CacheSpec

\* The variables of the cache keep their types; the counters never fall below 0.
THEOREM TypeCorrect == CacheSpec => []TypeOK
<1>1. IInv => TypeOK
  BY DEF IInv
<1>2. QED
  BY <1>1, Invariant, PTL

\* sfs_reclaim never frees an inode under a thread that uses it, sfs_load_inode never
\* makes a second copy of one, and ref_count is the number of its users, however lookups
\* and reclaims interleave.
THEOREM InodesHeldOnce == CacheSpec => []HeldOnce
<1>1. IInv => HeldOnce
  BY DEF IInv, Standing, Listed, Counted, HeldOnce, Holders
<1>2. QED
  BY <1>1, Invariant, PTL

\* What an inode had when it last was marked dirty is on the disk, or in memory and about
\* to be written: reclaim, fsync and sfs_load_inode lose no update that sets sin->dirty.
THEOREM MarkedUpdatesKept == CacheSpec => []MarkedKept
<1>1. IInv => MarkedKept
  BY DEF IInv
<1>2. QED
  BY <1>1, Invariant, PTL
=============================================================================

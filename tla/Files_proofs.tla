---------------------------- MODULE Files_proofs ----------------------------
(***************************************************************************)
(* For any number of processes, inodes and descriptors, the counts of the  *)
(* VFS inodes are the references there are, and no inode goes away under a *)
(* descriptor or a working directory that leads to it.                     *)
(***************************************************************************)
EXTENDS Files, FiniteSetTheorems, TLAPS

File == [status : {"NONE", "OPENED"}, open_count : Nat, node : Node \cup {NoNode},
         mode : SUBSET {"r", "w"}]
Table == [pwd : Node \cup {NoNode}, fd : [FD -> File]]

TypeOK ==
    /\ files \in [Proc -> Table]
    /\ live \subseteq Proc
    /\ refs \in [Node -> Int] /\ opens \in [Node -> Int]
    /\ asleep \in [Proc -> FD \cup {-1}]
    /\ lost \in [Node -> Nat]

\* An open descriptor leads to an inode, a process that lives has a working
\* directory, and one that sleeps in read lives and has the file open.
Standing ==
    \A p \in Proc :
        /\ \A f \in OpenFds(files[p]) : files[p].fd[f].node \in Node
        /\ p \in live => files[p].pwd \in Node
        /\ asleep[p] # -1 => p \in live /\ asleep[p] \in OpenFds(files[p])

\* The inductive invariant.
IInv == TypeOK /\ Standing /\ CountsExact

-----------------------------------------------------------------------------
(* Counting                                                                *)

\* The descriptors among F that hold n in table t.
Fds(t, F, n) == {f \in F \cap OpenFds(t) : t.fd[f].node = n}

\* What is counted is finite.
LEMMA FdsFinite ==
    ASSUME NEW t, NEW F, NEW n
    PROVE  /\ IsFiniteSet(Fds(t, F, n)) /\ Held(t, F, n) = Cardinality(Fds(t, F, n))
           /\ Held(t, F, n) \in Nat
<1>1. IsFiniteSet(FD)
    BY FS_Interval, ConstantsAssumption DEF FD
<1>2. Fds(t, F, n) \in SUBSET FD
    BY DEF Fds, OpenFds
<1>3. IsFiniteSet(Fds(t, F, n))
    BY <1>1, <1>2, FS_Subset
<1>4. QED
    BY <1>3, FS_CardinalityType DEF Fds, Held

\* The references to n in the tables T, and those that are not in the table of p.
Refs(T, n) ==
    {x \in Proc \X FD : x[2] \in OpenFds(T[x[1]]) /\ T[x[1]].fd[x[2]].node = n}
Elsewhere(T, p, n) == {x \in Refs(T, n) : x[1] # p}

\* The references to n are those in the table of p and those elsewhere.
LEMMA RefsSplit ==
    ASSUME NEW T, NEW p \in Proc, NEW n
    PROVE  /\ Cardinality(Elsewhere(T, p, n)) \in Nat
           /\ Cardinality(Refs(T, n)) = Cardinality(Elsewhere(T, p, n)) + Held(T[p], FD, n)
<1> DEFINE A == Elsewhere(T, p, n)
           D == Fds(T[p], FD, n)
<1>1. IsFiniteSet(FD) /\ IsFiniteSet(Proc)
    BY FS_Interval, ConstantsAssumption DEF FD
<1>2. IsFiniteSet(Proc \X FD) /\ A \in SUBSET (Proc \X FD)
    BY <1>1, FS_Product DEF Elsewhere, Refs
<1>3. IsFiniteSet(A) /\ Cardinality(A) \in Nat
    BY <1>2, FS_Subset, FS_CardinalityType
<1>4. IsFiniteSet(D) /\ Held(T[p], FD, n) = Cardinality(D) /\ Cardinality(D) \in Nat
    BY FdsFinite
<1>5. IsFiniteSet({p} \X D) /\ Cardinality({p} \X D) = Cardinality(D)
  <2>1. IsFiniteSet({p}) /\ Cardinality({p}) = 1
    BY FS_Singleton
  <2>2. QED
    BY <2>1, <1>4, FS_Product
<1>6. Refs(T, n) = A \cup ({p} \X D)
    BY DEF Elsewhere, Refs, Fds, OpenFds
<1>7. A \cap ({p} \X D) = {}
    BY DEF Elsewhere
<1>8. Cardinality(Refs(T, n)) = Cardinality(A) + Cardinality(D)
  <2>1. Cardinality(A \cup ({p} \X D)) =
          Cardinality(A) + Cardinality({p} \X D) - Cardinality(A \cap ({p} \X D))
    BY <1>3, <1>5, FS_Union, Zenon
  <2>2. QED
    BY <2>1, <1>3, <1>4, <1>5, <1>6, <1>7, FS_EmptySet
<1>9. QED
    BY <1>3, <1>4, <1>8

\* The same for working directories.
Users(T, n) == {q \in Proc : T[q].pwd = n}

LEMMA UsersSplit ==
    ASSUME NEW T, NEW p \in Proc, NEW n
    PROVE  /\ Cardinality(Users(T, n) \ {p}) \in Nat
           /\ Cardinality(Users(T, n)) = Cardinality(Users(T, n) \ {p}) + Pwd(T[p], n)
<1>1. IsFiniteSet(Users(T, n))
    BY FS_Subset, ConstantsAssumption DEF Users
<1>2. /\ IsFiniteSet(Users(T, n) \ {p})
      /\ Cardinality(Users(T, n) \ {p}) =
            IF p \in Users(T, n) THEN Cardinality(Users(T, n)) - 1 ELSE Cardinality(Users(T, n))
    BY <1>1, FS_RemoveElement
<1>3. Cardinality(Users(T, n) \ {p}) \in Nat /\ Cardinality(Users(T, n)) \in Nat
    BY <1>1, <1>2, FS_CardinalityType
<1>4. p \in Users(T, n) <=> T[p].pwd = n
    BY DEF Users
<1>5. QED
    BY <1>2, <1>3, <1>4 DEF Pwd

\* A step that replaces the table of p by t changes the numbers of references by
\* what t has more or less than the old table.
LEMMA TableStep ==
    ASSUME TypeOK, NEW p \in Proc, NEW t, files' = [files EXCEPT ![p] = t], NEW n
    PROVE  /\ Holders(n) \in Nat /\ Dirs(n) \in Nat
           /\ Holders(n)' = Holders(n) - Held(files[p], FD, n) + Held(t, FD, n)
           /\ Dirs(n)' = Dirs(n) - Pwd(files[p], n) + Pwd(t, n)
<1>1. /\ files'[p] = t
      /\ \A q \in Proc \ {p} : files'[q] = files[q]
    BY DEF TypeOK
<1>2. Elsewhere(files', p, n) = Elsewhere(files, p, n)
    BY <1>1 DEF Elsewhere, Refs
<1>3. Users(files', n) \ {p} = Users(files, n) \ {p}
    BY <1>1 DEF Users
<1>4. /\ Holders(n) = Cardinality(Refs(files, n))
      /\ Holders(n)' = Cardinality(Refs(files', n))
      /\ Dirs(n) = Cardinality(Users(files, n))
      /\ Dirs(n)' = Cardinality(Users(files', n))
    BY DEF Holders, Refs, Fd2File, Dirs, Users
<1>5. Held(files[p], FD, n) \in Nat /\ Held(t, FD, n) \in Nat
    BY FdsFinite
<1> PICK T : T = files
    OBVIOUS
<1> PICK U : U = files'
    OBVIOUS
<1>6. /\ Cardinality(Elsewhere(files, p, n)) \in Nat
      /\ Holders(n) = Cardinality(Elsewhere(files, p, n)) + Held(files[p], FD, n)
      /\ Holders(n)' = Cardinality(Elsewhere(files, p, n)) + Held(t, FD, n)
  <2>1. Cardinality(Refs(T, n)) = Cardinality(Elsewhere(T, p, n)) + Held(T[p], FD, n)
    BY RefsSplit
  <2>2. Cardinality(Refs(U, n)) = Cardinality(Elsewhere(U, p, n)) + Held(U[p], FD, n)
    BY RefsSplit
  <2>3. Cardinality(Elsewhere(T, p, n)) \in Nat
    BY RefsSplit
  <2>4. QED
    BY <1>1, <1>2, <1>4, <2>1, <2>2, <2>3
<1>7. /\ Cardinality(Users(files, n) \ {p}) \in Nat
      /\ Dirs(n) = Cardinality(Users(files, n) \ {p}) + Pwd(files[p], n)
      /\ Dirs(n)' = Cardinality(Users(files, n) \ {p}) + Pwd(t, n)
  <2>1. Cardinality(Users(T, n)) = Cardinality(Users(T, n) \ {p}) + Pwd(T[p], n)
    BY UsersSplit
  <2>2. Cardinality(Users(U, n)) = Cardinality(Users(U, n) \ {p}) + Pwd(U[p], n)
    BY UsersSplit
  <2>3. Cardinality(Users(T, n) \ {p}) \in Nat
    BY UsersSplit
  <2>4. QED
    BY <1>1, <1>3, <1>4, <2>1, <2>2, <2>3
<1>8. Pwd(files[p], n) \in Nat /\ Pwd(t, n) \in Nat
    BY DEF Pwd
<1>9. QED
    BY <1>5, <1>6, <1>7, <1>8

\* The numbers of references are natural, and at least what one table contributes.
LEMMA CountsNat ==
    ASSUME NEW n
    PROVE  /\ Holders(n) \in Nat /\ Dirs(n) \in Nat
           /\ \A p \in Proc : Holders(n) >= Held(files[p], FD, n) /\ Dirs(n) >= Pwd(files[p], n)
<1>1. PICK T : T = files
    OBVIOUS
<1>2. Holders(n) = Cardinality(Refs(T, n)) /\ Dirs(n) = Cardinality(Users(T, n))
    BY <1>1 DEF Holders, Refs, Fd2File, Dirs, Users
<1>3. ASSUME NEW p \in Proc
      PROVE  /\ Holders(n) \in Nat /\ Dirs(n) \in Nat
             /\ Holders(n) >= Held(T[p], FD, n) /\ Dirs(n) >= Pwd(T[p], n)
  <2>1. Held(T[p], FD, n) \in Nat /\ Pwd(T[p], n) \in Nat
    BY FdsFinite DEF Pwd
  <2>2. /\ Cardinality(Elsewhere(T, p, n)) \in Nat
        /\ Cardinality(Refs(T, n)) = Cardinality(Elsewhere(T, p, n)) + Held(T[p], FD, n)
    BY RefsSplit
  <2>3. /\ Cardinality(Users(T, n) \ {p}) \in Nat
        /\ Cardinality(Users(T, n)) = Cardinality(Users(T, n) \ {p}) + Pwd(T[p], n)
    BY UsersSplit
  <2>4. QED
    BY <1>2, <2>1, <2>2, <2>3
<1>4. Shell \in Proc
    BY ConstantsAssumption
<1>5. QED
    BY <1>1, <1>3, <1>4

-----------------------------------------------------------------------------
(* What the calls make of a table                                          *)

\* fd_array_close of the descriptors F.
LEMMA HeldWithout ==
    ASSUME NEW t \in Table, NEW F
    PROVE  /\ Without(t, F) \in Table /\ Without(t, F).pwd = t.pwd
           /\ OpenFds(Without(t, F)) = OpenFds(t) \ F
           /\ \A f \in FD : Without(t, F).fd[f] = IF f \in F THEN NoFile ELSE t.fd[f]
           /\ \A m : Held(Without(t, F), FD, m) = Held(t, FD, m) - Held(t, F, m)
<1> DEFINE u == Without(t, F)
<1>1. u = [t EXCEPT !.fd = [f \in FD |-> IF f \in F THEN NoFile ELSE t.fd[f]]]
    BY DEF Without
<1>2. NoFile \in File
    BY DEF NoFile, File
<1>3. u \in Table /\ u.pwd = t.pwd /\ u.fd = [f \in FD |-> IF f \in F THEN NoFile ELSE t.fd[f]]
    BY <1>1, <1>2 DEF Table
<1> HIDE DEF u
<1>4. OpenFds(u) = OpenFds(t) \ F
    BY <1>3 DEF OpenFds, NoFile
<1>5. ASSUME NEW m
      PROVE  Held(u, FD, m) = Held(t, FD, m) - Held(t, F, m)
  <2>1. /\ IsFiniteSet(Fds(t, FD, m)) /\ Held(t, FD, m) \in Nat
        /\ Held(t, FD, m) = Cardinality(Fds(t, FD, m)) /\ Held(t, F, m) \in Nat
        /\ Held(t, F, m) = Cardinality(Fds(t, F, m)) /\ Held(u, FD, m) = Cardinality(Fds(u, FD, m))
    BY FdsFinite
  <2>2. Fds(u, FD, m) = Fds(t, FD, m) \ Fds(t, F, m)
    BY <1>3, <1>4 DEF Fds, OpenFds
  <2>3. Fds(t, FD, m) \cap Fds(t, F, m) = Fds(t, F, m)
    BY DEF Fds, OpenFds
  <2>4. Cardinality(Fds(t, FD, m) \ Fds(t, F, m)) =
          Cardinality(Fds(t, FD, m)) - Cardinality(Fds(t, FD, m) \cap Fds(t, F, m))
    BY <2>1, FS_Difference, Zenon
  <2>5. QED
    BY <2>1, <2>2, <2>3, <2>4
<1>6. QED
    BY <1>3, <1>4, <1>5 DEF u

\* An empty table holds nothing.
LEMMA HeldNothing ==
    /\ NoFiles \in Table /\ OpenFds(NoFiles) = {}
    /\ \A n \in Node : Held(NoFiles, FD, n) = 0 /\ Pwd(NoFiles, n) = 0
<1>1. NoFile \in File
    BY DEF NoFile, File
<1>2. NoFiles \in Table /\ OpenFds(NoFiles) = {}
    BY <1>1 DEF NoFiles, NoFile, Table, OpenFds
<1>3. \A n : Held(NoFiles, FD, n) = 0
    BY <1>2, FS_EmptySet DEF Held
<1>4. \A n \in Node : Pwd(NoFiles, n) = 0
    BY ConstantsAssumption DEF Pwd, NoFiles
<1>5. QED
    BY <1>2, <1>3, <1>4

-----------------------------------------------------------------------------
(* Every action that changes anything but a lost reference replaces the    *)
(* table of one process.  It keeps the invariant if the table is sound and *)
(* the counts change by what the table has more or less.                   *)

\* Table t is one that process p may have, with a as what p sleeps on.
Sound(t, a) ==
    /\ \A f \in OpenFds(t) : t.fd[f].node \in Node
    /\ a # -1 => a \in OpenFds(t)
    /\ \A f \in FD :
          t.fd[f].open_count = (IF f \in OpenFds(t) THEN 1 ELSE 0) + (IF a = f THEN 1 ELSE 0)

\* The counts follow the change from the table of p to t.
CountsFollow(p, t) ==
    /\ refs' \in [Node -> Int] /\ opens' \in [Node -> Int] /\ lost' = lost
    /\ \A n \in Node :
          /\ opens'[n] = opens[n] - Held(files[p], FD, n) + Held(t, FD, n)
          /\ refs'[n] = refs[n] - Held(files[p], FD, n) + Held(t, FD, n)
                                - Pwd(files[p], n) + Pwd(t, n)

LEMMA Replace ==
    ASSUME IInv, NEW p \in Proc, NEW t \in Table, files' = [files EXCEPT ![p] = t],
           live' \subseteq Proc, \A q \in Proc \ {p} : q \in live' <=> q \in live,
           p \in live' => t.pwd \in Node,
           asleep' \in [Proc -> FD \cup {-1}], \A q \in Proc \ {p} : asleep'[q] = asleep[q],
           asleep'[p] # -1 => p \in live',
           Sound(t, asleep'[p]), CountsFollow(p, t)
    PROVE  IInv'
<1>1. TypeOK /\ Standing /\ CountsExact
    BY DEF IInv
<1>2. /\ files'[p] = t
      /\ \A q \in Proc \ {p} : files'[q] = files[q]
      /\ files' \in [Proc -> Table]
    BY <1>1 DEF TypeOK
<1>3. TypeOK'
    BY <1>1, <1>2 DEF TypeOK, CountsFollow
<1>4. Standing'
  <2>1. SUFFICES ASSUME NEW q \in Proc
                 PROVE  /\ \A f \in OpenFds(files'[q]) : files'[q].fd[f].node \in Node
                        /\ q \in live' => files'[q].pwd \in Node
                        /\ asleep'[q] # -1 => q \in live' /\ asleep'[q] \in OpenFds(files'[q])
    BY DEF Standing, OpenFds
  <2>2. CASE q = p
    BY <2>2, <1>2 DEF Sound
  <2>3. CASE q # p
    BY <2>3, <1>1, <1>2 DEF Standing
  <2>4. QED
    BY <2>2, <2>3
<1>5. ASSUME NEW n \in Node
      PROVE  /\ opens'[n] = Holders(n)'
             /\ refs'[n] = Holders(n)' + Dirs(n)' + Base(n) + lost'[n]
  <2>1. /\ Holders(n) \in Nat /\ Dirs(n) \in Nat
        /\ Holders(n)' = Holders(n) - Held(files[p], FD, n) + Held(t, FD, n)
        /\ Dirs(n)' = Dirs(n) - Pwd(files[p], n) + Pwd(t, n)
    BY <1>1, TableStep
  <2>2. opens[n] = Holders(n) /\ refs[n] = Holders(n) + Dirs(n) + Base(n) + lost[n]
    BY <1>1 DEF CountsExact
  <2>3. Held(files[p], FD, n) \in Nat /\ Held(t, FD, n) \in Nat
    BY FdsFinite
  <2>4. Pwd(files[p], n) \in Nat /\ Pwd(t, n) \in Nat /\ Base(n) \in Nat /\ lost[n] \in Nat
    BY <1>1 DEF Pwd, Base, TypeOK
  <2>5. /\ lost'[n] = lost[n]
        /\ opens'[n] = opens[n] - Held(files[p], FD, n) + Held(t, FD, n)
        /\ refs'[n] = refs[n] - Held(files[p], FD, n) + Held(t, FD, n)
                              - Pwd(files[p], n) + Pwd(t, n)
    BY DEF CountsFollow
  <2>6. QED
    BY <2>1, <2>2, <2>3, <2>4, <2>5
<1>6. FilesSettled'
  <2>1. SUFFICES ASSUME NEW q \in Proc, NEW f \in FD
                 PROVE  files'[q].fd[f].open_count =
                          (IF f \in OpenFds(files'[q]) THEN 1 ELSE 0)
                            + (IF asleep'[q] = f THEN 1 ELSE 0)
    BY DEF FilesSettled, Fd2File, OpenFds
  <2>2. CASE q = p
    BY <2>2, <1>2 DEF Sound
  <2>3. CASE q # p
    BY <2>3, <1>1, <1>2 DEF CountsExact, FilesSettled, Fd2File
  <2>4. QED
    BY <2>2, <2>3
<1>7. CountsExact'
    BY <1>5, <1>6 DEF CountsExact
<1>8. QED
    BY <1>3, <1>4, <1>7 DEF IInv

\* What the invariant says of one process.
LEMMA Own ==
    ASSUME IInv, NEW p \in Proc
    PROVE  /\ files[p] \in Table /\ Sound(files[p], asleep[p])
           /\ p \in live => files[p].pwd \in Node
           /\ asleep[p] # -1 => p \in live
           /\ live \subseteq Proc /\ asleep \in [Proc -> FD \cup {-1}]
           /\ \A n \in Node : refs[n] \in Int /\ opens[n] \in Int
           /\ refs \in [Node -> Int] /\ opens \in [Node -> Int] /\ lost \in [Node -> Nat]
<1>1. TypeOK /\ Standing /\ CountsExact
    BY DEF IInv
<1>2. Sound(files[p], asleep[p])
    BY <1>1 DEF Sound, Standing, CountsExact, FilesSettled, Fd2File
<1>3. QED
    BY <1>1, <1>2 DEF TypeOK, Standing

\* A panic, or a call that is refused.
LEMMA Stutter ==
    ASSUME IInv, UNCHANGED <<files, live, refs, opens, asleep, lost>>
    PROVE  IInv'
<1>1. TypeOK' /\ Standing'
    BY DEF IInv, TypeOK, Standing, OpenFds
<1>2. \A n : Holders(n)' = Holders(n) /\ Dirs(n)' = Dirs(n)
    BY DEF Holders, Dirs, Fd2File, OpenFds
<1>3. FilesSettled'
    BY DEF IInv, CountsExact, FilesSettled, Fd2File, OpenFds
<1>4. CountsExact'
    BY <1>2, <1>3 DEF IInv, CountsExact
<1>5. QED
    BY <1>1, <1>4 DEF IInv

\* The open file of a mode that vfs_open lets through.
LEMMA OpenedType ==
    ASSUME NEW n \in Node, NEW mode \in SUBSET {"r", "w"}
    PROVE  /\ Opened(n, mode) \in File
           /\ Opened(n, mode).open_count = 1 /\ Opened(n, mode).status = "OPENED"
           /\ Opened(n, mode).node = n
    BY DEF Opened, File

LEMMA ModesType ==
    ASSUME NEW n \in Node, NEW mode \in Modes[n]
    PROVE  mode \in SUBSET {"r", "w"}
<1>1. mode \in {fl.acc : fl \in Accepted[n] \ Untruncated[n]}
    BY DEF Modes
<1>2. PICK fl \in Accepted[n] : mode = fl.acc
    BY <1>1
<1>3. fl \in Flags
    BY <1>2 DEF Accepted, Consistent
<1>4. QED
    BY <1>2, <1>3 DEF Flags

\* Table t with its free descriptor f opened on n.
WithOpen(t, f, n, mode) == [t EXCEPT !.fd = [t.fd EXCEPT ![f] = Opened(n, mode)]]

LEMMA OpenTable ==
    ASSUME NEW t \in Table, Sound(t, -1), NEW f \in FD \ OpenFds(t), NEW n \in Node,
           NEW mode \in SUBSET {"r", "w"}
    PROVE  /\ WithOpen(t, f, n, mode) \in Table /\ WithOpen(t, f, n, mode).pwd = t.pwd
           /\ Sound(WithOpen(t, f, n, mode), -1)
           /\ \A m : Held(WithOpen(t, f, n, mode), FD, m)
                       = Held(t, FD, m) + (IF m = n THEN 1 ELSE 0)
<1> DEFINE u == WithOpen(t, f, n, mode)
<1>1. /\ Opened(n, mode) \in File
      /\ Opened(n, mode).open_count = 1 /\ Opened(n, mode).status = "OPENED"
      /\ Opened(n, mode).node = n
    BY OpenedType
<1>2. /\ u \in Table /\ u.pwd = t.pwd
      /\ u.fd = [t.fd EXCEPT ![f] = Opened(n, mode)]
    BY <1>1 DEF Table, WithOpen
<1> HIDE DEF u
<1>3. u.fd[f] = Opened(n, mode) /\ \A g \in FD \ {f} : u.fd[g] = t.fd[g]
    BY <1>2 DEF Table
<1>4. OpenFds(u) = OpenFds(t) \cup {f}
    BY <1>1, <1>3 DEF OpenFds
<1>5. -1 \notin FD
    BY ConstantsAssumption DEF FD
<1>6. Sound(u, -1)
  <2>1. \A g \in OpenFds(u) : u.fd[g].node \in Node
    BY <1>1, <1>3, <1>4 DEF Sound, OpenFds
  <2>2. \A g \in FD : u.fd[g].open_count = IF g \in OpenFds(u) THEN 1 ELSE 0
    BY <1>1, <1>3, <1>4, <1>5 DEF Sound
  <2>3. QED
    BY <2>1, <2>2, <1>5 DEF Sound
<1>7. \A m : Held(u, FD, m) = Held(t, FD, m) + (IF m = n THEN 1 ELSE 0)
  <2> SUFFICES ASSUME NEW m
               PROVE  Held(u, FD, m) = Held(t, FD, m) + (IF m = n THEN 1 ELSE 0)
    OBVIOUS
  <2>1. f \notin Fds(t, FD, m)
    BY DEF Fds
  <2>2. /\ IsFiniteSet(Fds(t, FD, m)) /\ Held(t, FD, m) \in Nat
        /\ Held(t, FD, m) = Cardinality(Fds(t, FD, m)) /\ Held(u, FD, m) = Cardinality(Fds(u, FD, m))
    BY FdsFinite
  <2>3. CASE m = n
    <3>1. Fds(u, FD, m) = Fds(t, FD, m) \cup {f}
        BY <1>1, <1>3, <1>4, <2>3 DEF Fds, OpenFds
    <3>2. Cardinality(Fds(t, FD, m) \cup {f}) = Cardinality(Fds(t, FD, m)) + 1
        BY <2>1, <2>2, FS_AddElement
    <3>3. QED
        BY <3>1, <3>2, <2>2, <2>3
  <2>4. CASE m # n
    <3>1. Fds(u, FD, m) = Fds(t, FD, m)
        BY <1>1, <1>3, <1>4, <2>1, <2>4 DEF Fds, OpenFds
    <3>2. QED
        BY <3>1, <2>2, <2>4
  <2>5. QED
    BY <2>3, <2>4
<1>8. QED
    BY <1>2, <1>6, <1>7 DEF u

\* What it takes to close the descriptors F.
LEMMA CloseTable ==
    ASSUME NEW t \in Table, Sound(t, -1), NEW F
    PROVE  Sound(Without(t, F), -1)
<1> DEFINE u == Without(t, F)
<1>1. /\ OpenFds(u) = OpenFds(t) \ F
      /\ \A f \in FD : u.fd[f] = IF f \in F THEN NoFile ELSE t.fd[f]
    BY HeldWithout
<1> HIDE DEF u
<1>2. -1 \notin FD
    BY ConstantsAssumption DEF FD
<1>3. \A f \in OpenFds(u) : u.fd[f].node \in Node
    BY <1>1 DEF Sound, OpenFds
<1>4. \A f \in FD : u.fd[f].open_count = IF f \in OpenFds(u) THEN 1 ELSE 0
    BY <1>1, <1>2 DEF Sound, NoFile
<1>5. QED
    BY <1>2, <1>3, <1>4 DEF Sound, u

\* fd_array_alloc finds descriptors that are not open.
LEMMA AllocFree ==
    ASSUME NEW t, NEW f \in Alloc(t)
    PROVE  f \in FD \ OpenFds(t)
    BY DEF Alloc, OpenFds

-----------------------------------------------------------------------------
(* One lemma per action                                                    *)

\* A process that runs, live and not asleep, exchanges its table for t, and may leave.
LEMMA Running ==
    ASSUME IInv, NEW p \in Proc, Runs(p), NEW t \in Table, Sound(t, -1), t.pwd \in Node,
           files' = [files EXCEPT ![p] = t], CountsFollow(p, t),
           live' \in {live, live \ {p}}, UNCHANGED asleep
    PROVE  IInv'
<1>1. asleep[p] = -1 /\ p \in live
    BY DEF Runs
<1>2. live \subseteq Proc /\ asleep \in [Proc -> FD \cup {-1}]
    BY Own
<1>3. live' \subseteq Proc /\ \A q \in Proc \ {p} : q \in live' <=> q \in live
    BY <1>2
<1>4. QED
    BY <1>1, <1>2, <1>3, Replace

\* What such a process starts from.
LEMMA RunsOwn ==
    ASSUME IInv, NEW p \in Proc, Runs(p)
    PROVE  /\ files[p] \in Table /\ Sound(files[p], -1) /\ files[p].pwd \in Node
           /\ refs \in [Node -> Int] /\ opens \in [Node -> Int]
           /\ \A n : Held(files[p], FD, n) \in Nat /\ Pwd(files[p], n) \in Nat
<1>1. asleep[p] = -1 /\ p \in live
    BY DEF Runs
<1>2. \A n : Held(files[p], FD, n) \in Nat /\ Pwd(files[p], n) \in Nat
    BY FdsFinite DEF Pwd
<1>3. QED
    BY <1>1, <1>2, Own

LEMMA OpenExistsKeeps ==
    ASSUME IInv, NEW p \in Proc, NEW n \in Node, OpenExists(p, n)
    PROVE  IInv'
<1>1. TypeOK /\ Standing /\ CountsExact
    BY DEF IInv
<1>2. /\ UNCHANGED <<files, live, opens, asleep>>
      /\ refs' = [refs EXCEPT ![n] = @ + 1] /\ lost' = [lost EXCEPT ![n] = @ + 1]
    BY DEF OpenExists
<1>3. TypeOK' /\ Standing'
    BY <1>1, <1>2 DEF TypeOK, Standing, OpenFds
<1>4. \A m : Holders(m)' = Holders(m) /\ Dirs(m)' = Dirs(m)
    BY <1>2 DEF Holders, Dirs, Fd2File, OpenFds
<1>5. FilesSettled'
    BY <1>1, <1>2 DEF CountsExact, FilesSettled, Fd2File, OpenFds
<1>6. ASSUME NEW m \in Node
      PROVE  /\ opens'[m] = Holders(m)'
             /\ refs'[m] = Holders(m)' + Dirs(m)' + Base(m) + lost'[m]
  <2>1. opens[m] = Holders(m) /\ refs[m] = Holders(m) + Dirs(m) + Base(m) + lost[m]
    BY <1>1 DEF CountsExact
  <2>2. /\ refs'[m] = refs[m] + (IF m = n THEN 1 ELSE 0)
        /\ lost'[m] = lost[m] + (IF m = n THEN 1 ELSE 0)
        /\ refs[m] \in Int /\ lost[m] \in Int
    BY <1>1, <1>2 DEF TypeOK
  <2>3. Base(m) \in Int
    BY DEF Base
  <2>4. PICK h, d : h = Holders(m) /\ d = Dirs(m)
    OBVIOUS
  <2>5. h \in Nat /\ d \in Nat
    BY <2>4, CountsNat
  <2>6. QED
    BY <1>2, <1>4, <2>1, <2>2, <2>3, <2>4, <2>5
<1>7. QED
    BY <1>3, <1>5, <1>6 DEF IInv, CountsExact

\* Open and Dup: f is opened on n, and both counts of n go up.
LEMMA OpenKeeps ==
    ASSUME IInv, NEW p \in Proc, Runs(p), NEW f \in FD \ OpenFds(files[p]), NEW n \in Node,
           NEW mode \in SUBSET {"r", "w"},
           files' = [files EXCEPT ![p].fd[f] = Opened(n, mode)],
           refs' = [refs EXCEPT ![n] = @ + 1], opens' = [opens EXCEPT ![n] = @ + 1],
           UNCHANGED <<live, asleep, lost>>
    PROVE  IInv'
<1>1. /\ files[p] \in Table /\ Sound(files[p], -1) /\ files[p].pwd \in Node
      /\ refs \in [Node -> Int] /\ opens \in [Node -> Int]
      /\ \A m : Held(files[p], FD, m) \in Nat /\ Pwd(files[p], m) \in Nat
    BY RunsOwn
<1>2. PICK t : t = files[p]
    OBVIOUS
<1>3. PICK u : u = WithOpen(t, f, n, mode)
    OBVIOUS
<1>4. /\ u \in Table /\ u.pwd = t.pwd /\ Sound(u, -1)
      /\ \A m : Held(u, FD, m) = Held(t, FD, m) + (IF m = n THEN 1 ELSE 0)
  <2>1. t \in Table /\ Sound(t, -1) /\ f \in FD \ OpenFds(t)
    BY <1>1, <1>2
  <2>2. QED
    BY <2>1, <1>3, OpenTable
<1>5. files' = [files EXCEPT ![p] = u]
    BY <1>2, <1>3 DEF WithOpen
<1>6. CountsFollow(p, u)
  <2>1. \A m \in Node : /\ refs'[m] = refs[m] + (IF m = n THEN 1 ELSE 0)
                        /\ opens'[m] = opens[m] + (IF m = n THEN 1 ELSE 0)
    BY <1>1
  <2>2. refs' \in [Node -> Int] /\ opens' \in [Node -> Int]
    BY <1>1
  <2>3. \A m : Pwd(u, m) = Pwd(files[p], m)
    BY <1>2, <1>4 DEF Pwd
  <2>4. QED
    BY <2>1, <2>2, <2>3, <1>1, <1>2, <1>4 DEF CountsFollow
<1>7. QED
    BY <1>1, <1>2, <1>4, <1>5, <1>6, Running

\* Close, ExecLoads and ExecFailsClosed: the descriptors F are closed.
LEMMA CloseKeeps ==
    ASSUME IInv, NEW p \in Proc, Runs(p), NEW F,
           files' = [files EXCEPT ![p] = Without(files[p], F)],
           refs' = [n \in Node |-> refs[n] - Held(files[p], F, n)],
           opens' = [n \in Node |-> opens[n] - Held(files[p], F, n)],
           live' \in {live, live \ {p}}, UNCHANGED <<asleep, lost>>
    PROVE  IInv'
<1>1. /\ files[p] \in Table /\ Sound(files[p], -1) /\ files[p].pwd \in Node
      /\ refs \in [Node -> Int] /\ opens \in [Node -> Int]
      /\ \A m : Held(files[p], FD, m) \in Nat /\ Pwd(files[p], m) \in Nat
    BY RunsOwn
<1>2. PICK t : t = files[p]
    OBVIOUS
<1>3. PICK u : u = Without(t, F)
    OBVIOUS
<1>4. /\ u \in Table /\ u.pwd = t.pwd /\ Sound(u, -1)
      /\ \A m : Held(u, FD, m) = Held(t, FD, m) - Held(t, F, m)
  <2>1. t \in Table /\ Sound(t, -1)
    BY <1>1, <1>2
  <2>2. QED
    BY <2>1, <1>3, HeldWithout, CloseTable
<1>5. \A m : Held(t, F, m) \in Nat
    BY FdsFinite
<1>6. CountsFollow(p, u)
  <2>1. \A m \in Node : /\ refs'[m] = refs[m] - Held(t, F, m)
                        /\ opens'[m] = opens[m] - Held(t, F, m)
    BY <1>2
  <2>2. refs' \in [Node -> Int] /\ opens' \in [Node -> Int]
    BY <1>1, <1>2, <1>5
  <2>3. \A m : Pwd(u, m) = Pwd(files[p], m)
    BY <1>2, <1>4 DEF Pwd
  <2>4. QED
    BY <2>1, <2>2, <2>3, <1>1, <1>2, <1>4, <1>5 DEF CountsFollow
<1>7. QED
    BY <1>1, <1>2, <1>3, <1>4, <1>6, Running

LEMMA ReadSleepsKeeps ==
    ASSUME IInv, NEW p \in Proc, NEW f \in FD, ReadSleeps(p, f)
    PROVE  IInv'
<1>1. /\ Runs(p) /\ f \in OpenFds(files[p])
      /\ files' = [files EXCEPT ![p].fd[f].open_count = @ + 1]
      /\ asleep' = [asleep EXCEPT ![p] = f]
      /\ UNCHANGED <<live, refs, opens, lost>>
    BY DEF ReadSleeps, Fd2File, counts
<1>2. /\ files[p] \in Table /\ Sound(files[p], -1) /\ files[p].pwd \in Node
      /\ refs \in [Node -> Int] /\ opens \in [Node -> Int]
      /\ \A m : Held(files[p], FD, m) \in Nat /\ Pwd(files[p], m) \in Nat
    BY <1>1, RunsOwn
<1>3. live \subseteq Proc /\ asleep \in [Proc -> FD \cup {-1}] /\ p \in live
    BY <1>1, Own DEF Runs
<1>4. PICK t : t = files[p]
    OBVIOUS
<1> PICK x : x = [t.fd[f] EXCEPT !.open_count = @ + 1]
    OBVIOUS
<1>a. /\ x \in File /\ x.open_count = t.fd[f].open_count + 1
      /\ x.status = t.fd[f].status /\ x.node = t.fd[f].node
  <2>1. t.fd[f] \in File
    BY <1>2, <1>4 DEF Table
  <2>2. QED
    BY <2>1 DEF File
<1>5. PICK u : u = [t EXCEPT !.fd = [t.fd EXCEPT ![f] = x]]
    OBVIOUS
<1>6. /\ u \in Table /\ u.pwd = t.pwd /\ u.fd[f] = x
      /\ \A g \in FD \ {f} : u.fd[g] = t.fd[g]
    BY <1>2, <1>4, <1>5, <1>a DEF Table
<1>7. files' = [files EXCEPT ![p] = u]
    BY <1>1, <1>4, <1>5
<1>8. /\ \A g \in FD : u.fd[g].status = t.fd[g].status /\ u.fd[g].node = t.fd[g].node
      /\ OpenFds(u) = OpenFds(t) /\ -1 \notin FD
  <2>1. \A g \in FD : u.fd[g].status = t.fd[g].status /\ u.fd[g].node = t.fd[g].node
    BY <1>6, <1>a
  <2>2. -1 \notin FD
    BY ConstantsAssumption DEF FD
  <2>3. QED
    BY <2>1, <2>2 DEF OpenFds
<1>9. Sound(u, f)
  <2>1. \A g \in OpenFds(u) : u.fd[g].node \in Node
    BY <1>2, <1>4, <1>8 DEF Sound, OpenFds
  <2>2. \A g \in FD : t.fd[g].open_count = IF g \in OpenFds(t) THEN 1 ELSE 0
    BY <1>2, <1>4, <1>8 DEF Sound
  <2>3. \A g \in FD : u.fd[g].open_count = t.fd[g].open_count + IF f = g THEN 1 ELSE 0
    <3>1. SUFFICES ASSUME NEW g \in FD
                   PROVE  u.fd[g].open_count = t.fd[g].open_count + IF f = g THEN 1 ELSE 0
        OBVIOUS
    <3>2. t.fd[g].open_count \in Int
        BY <2>2
    <3>3. CASE g = f
        BY <3>3, <1>6, <1>a
    <3>4. CASE g # f
        BY <3>2, <3>4, <1>6
    <3>5. QED
        BY <3>3, <3>4
  <2>4. QED
    BY <1>1, <1>4, <1>8, <2>1, <2>2, <2>3 DEF Sound
<1>10. CountsFollow(p, u)
  <2>1. \A m : Held(u, FD, m) = Held(t, FD, m)
    BY <1>8 DEF Held
  <2>2. \A m : Pwd(u, m) = Pwd(t, m)
    BY <1>6 DEF Pwd
  <2>3. QED
    BY <1>1, <1>2, <1>4, <2>1, <2>2 DEF CountsFollow
<1>11. /\ asleep' \in [Proc -> FD \cup {-1}] /\ asleep'[p] = f
       /\ \A q \in Proc \ {p} : asleep'[q] = asleep[q]
    BY <1>1, <1>3
<1>12. QED
    BY <1>1, <1>2, <1>3, <1>4, <1>6, <1>7, <1>9, <1>10, <1>11, Replace

LEMMA ReadEndsKeeps ==
    ASSUME IInv, NEW p \in Proc, ReadEnds(p)
    PROVE  IInv'
<1>1. /\ p \in live /\ asleep[p] # -1
      /\ files' = [files EXCEPT ![p].fd[asleep[p]].open_count = @ - 1]
      /\ asleep' = [asleep EXCEPT ![p] = -1]
      /\ UNCHANGED <<live, refs, opens, lost>>
    BY DEF ReadEnds, counts
<1>2. /\ files[p] \in Table /\ Sound(files[p], asleep[p]) /\ files[p].pwd \in Node
      /\ refs \in [Node -> Int] /\ opens \in [Node -> Int]
      /\ live \subseteq Proc /\ asleep \in [Proc -> FD \cup {-1}]
    BY <1>1, Own
<1>3. \A m : Held(files[p], FD, m) \in Nat /\ Pwd(files[p], m) \in Nat
    BY FdsFinite DEF Pwd
<1>4. PICK t : t = files[p]
    OBVIOUS
<1>5. PICK f \in FD : f = asleep[p] /\ f \in OpenFds(t)
    BY <1>1, <1>2, <1>4 DEF Sound, OpenFds
<1> PICK x : x = [t.fd[f] EXCEPT !.open_count = @ - 1]
    OBVIOUS
<1>6. PICK u : u = [t EXCEPT !.fd = [t.fd EXCEPT ![f] = x]]
    OBVIOUS
<1>7. -1 \notin FD
    BY ConstantsAssumption DEF FD
<1>8. \A g \in FD : t.fd[g].open_count =
                      (IF g \in OpenFds(t) THEN 1 ELSE 0) + (IF f = g THEN 1 ELSE 0)
    BY <1>2, <1>4, <1>5 DEF Sound
<1>9. /\ x \in File /\ x.open_count = 1
      /\ x.status = t.fd[f].status /\ x.node = t.fd[f].node
  <2>1. t.fd[f] \in File
    BY <1>2, <1>4 DEF Table
  <2>2. t.fd[f].open_count = 2
    BY <1>5, <1>8
  <2>3. QED
    BY <2>1, <2>2 DEF File
<1>10. /\ u \in Table /\ u.pwd = t.pwd /\ u.fd[f] = x
       /\ \A g \in FD \ {f} : u.fd[g] = t.fd[g]
    BY <1>2, <1>4, <1>6, <1>9 DEF Table
<1>11. files' = [files EXCEPT ![p] = u]
    BY <1>1, <1>4, <1>5, <1>6
<1>12. /\ \A g \in FD : u.fd[g].status = t.fd[g].status /\ u.fd[g].node = t.fd[g].node
       /\ OpenFds(u) = OpenFds(t)
  <2>1. \A g \in FD : u.fd[g].status = t.fd[g].status /\ u.fd[g].node = t.fd[g].node
    BY <1>9, <1>10
  <2>2. QED
    BY <2>1 DEF OpenFds
<1>13. Sound(u, -1)
  <2>1. \A g \in OpenFds(u) : u.fd[g].node \in Node
    BY <1>2, <1>4, <1>12 DEF Sound, OpenFds
  <2>2. u.fd[f].open_count = 1
    BY <1>9, <1>10
  <2>3. \A g \in FD : u.fd[g].open_count = IF g \in OpenFds(u) THEN 1 ELSE 0
    <3>1. SUFFICES ASSUME NEW g \in FD
                   PROVE  u.fd[g].open_count = IF g \in OpenFds(t) THEN 1 ELSE 0
        BY <1>12
    <3>2. CASE g = f
        BY <3>2, <1>5, <2>2
    <3>3. CASE g # f
        BY <3>3, <1>8, <1>10
    <3>4. QED
        BY <3>2, <3>3
  <2>4. QED
    BY <1>7, <2>1, <2>3 DEF Sound
<1>14. CountsFollow(p, u)
  <2>1. \A m : Held(u, FD, m) = Held(t, FD, m)
    BY <1>12 DEF Held
  <2>2. \A m : Pwd(u, m) = Pwd(t, m)
    BY <1>10 DEF Pwd
  <2>3. QED
    BY <1>1, <1>2, <1>3, <1>4, <2>1, <2>2 DEF CountsFollow
<1>15. /\ asleep' \in [Proc -> FD \cup {-1}] /\ asleep'[p] = -1
       /\ \A q \in Proc \ {p} : asleep'[q] = asleep[q]
    BY <1>1, <1>2
<1>16. QED
    BY <1>1, <1>2, <1>4, <1>10, <1>11, <1>13, <1>14, <1>15, Replace

LEMMA ChdirKeeps ==
    ASSUME IInv, NEW p \in Proc, NEW n \in Node, Chdir(p, n)
    PROVE  IInv'
<1>1. /\ Runs(p) /\ n # files[p].pwd
      /\ files' = [files EXCEPT ![p].pwd = n]
      /\ refs' = [refs EXCEPT ![n] = @ + 1, ![files[p].pwd] = @ - 1]
      /\ UNCHANGED <<live, opens, asleep, lost>>
    BY DEF Chdir
<1>2. /\ files[p] \in Table /\ Sound(files[p], -1) /\ files[p].pwd \in Node
      /\ refs \in [Node -> Int] /\ opens \in [Node -> Int]
      /\ \A m : Held(files[p], FD, m) \in Nat /\ Pwd(files[p], m) \in Nat
    BY <1>1, RunsOwn
<1>3. PICK t : t = files[p]
    OBVIOUS
<1>4. PICK u : u = [t EXCEPT !.pwd = n]
    OBVIOUS
<1>5. u \in Table /\ u.pwd = n /\ u.fd = t.fd
    BY <1>2, <1>3, <1>4 DEF Table
<1>6. files' = [files EXCEPT ![p] = u]
    BY <1>1, <1>3, <1>4
<1>7. OpenFds(u) = OpenFds(t)
    BY <1>5 DEF OpenFds
<1>8. Sound(u, -1)
    BY <1>2, <1>3, <1>5, <1>7 DEF Sound
<1>9. CountsFollow(p, u)
  <2>1. \A m : Held(u, FD, m) = Held(t, FD, m)
    BY <1>5, <1>7 DEF Held
  <2>2. \A m \in Node : refs'[m] = refs[m] - Pwd(t, m) + Pwd(u, m)
    BY <1>1, <1>2, <1>3, <1>5 DEF Pwd
  <2>3. refs' \in [Node -> Int] /\ \A m : Pwd(u, m) \in Nat
    BY <1>1, <1>2 DEF Pwd
  <2>4. QED
    BY <1>1, <1>2, <1>3, <2>1, <2>2, <2>3 DEF CountsFollow
<1>10. QED
    BY <1>1, <1>2, <1>3, <1>5, <1>6, <1>8, <1>9, Running

\* The table a child gets: dup_files.
DupFiles(t) ==
    [pwd |-> t.pwd,
     fd  |-> [f \in FD |-> IF f \in OpenFds(t) THEN Opened(t.fd[f].node, t.fd[f].mode) ELSE NoFile]]

LEMMA DupTable ==
    ASSUME NEW t \in Table, \A f \in OpenFds(t) : t.fd[f].node \in Node
    PROVE  /\ DupFiles(t) \in Table /\ DupFiles(t).pwd = t.pwd /\ Sound(DupFiles(t), -1)
           /\ \A n : Held(DupFiles(t), FD, n) = Held(t, FD, n)
<1> DEFINE u == DupFiles(t)
<1>1. NoFile \in File /\ NoFile.status = "NONE" /\ NoFile.open_count = 0
    BY DEF NoFile, File
<1>2. ASSUME NEW f \in OpenFds(t)
      PROVE  /\ Opened(t.fd[f].node, t.fd[f].mode) \in File
             /\ Opened(t.fd[f].node, t.fd[f].mode).open_count = 1
             /\ Opened(t.fd[f].node, t.fd[f].mode).status = "OPENED"
             /\ Opened(t.fd[f].node, t.fd[f].mode).node = t.fd[f].node
  <2>1. f \in FD /\ t.fd[f] \in File /\ t.fd[f].node \in Node
    BY DEF OpenFds, Table
  <2>2. t.fd[f].mode \in SUBSET {"r", "w"}
    BY <2>1 DEF File
  <2>3. QED
    BY <2>1, <2>2, OpenedType
<1>3. /\ u.pwd = t.pwd
      /\ u.fd = [f \in FD |-> IF f \in OpenFds(t) THEN Opened(t.fd[f].node, t.fd[f].mode) ELSE NoFile]
      /\ u = [pwd |-> u.pwd, fd |-> u.fd]
    BY DEF DupFiles
<1> HIDE DEF u
<1>4. /\ \A f \in FD : u.fd[f] \in File
      /\ OpenFds(u) = OpenFds(t)
      /\ \A f \in OpenFds(t) : u.fd[f].node = t.fd[f].node /\ u.fd[f].open_count = 1
      /\ \A f \in FD \ OpenFds(t) : u.fd[f].open_count = 0
    BY <1>1, <1>2, <1>3 DEF OpenFds
<1>5. u.fd \in [FD -> File] /\ u.pwd \in Node \cup {NoNode}
    BY <1>3, <1>4 DEF Table
<1>6. u \in Table
    BY <1>3, <1>5 DEF Table
<1>7. Sound(u, -1)
  <2>1. -1 \notin FD
    BY ConstantsAssumption DEF FD
  <2>2. QED
    BY <1>4, <2>1 DEF Sound
<1>8. ASSUME NEW n
      PROVE  Held(u, FD, n) = Held(t, FD, n)
  <2>1. Fds(u, FD, n) = Fds(t, FD, n)
    BY <1>4 DEF Fds
  <2>2. QED
    BY <2>1, FdsFinite
<1>9. QED
    BY <1>3, <1>6, <1>7, <1>8 DEF u

LEMMA ForkKeeps ==
    ASSUME IInv, NEW p \in Proc, NEW q \in Proc, Fork(p, q)
    PROVE  IInv'
<1>1. /\ Runs(p) /\ q \notin live /\ files[q] = NoFiles
      /\ files' = [files EXCEPT ![q] = DupFiles(files[p])]
      /\ refs' = [n \in Node |-> refs[n] + Copied(files[p], n)]
      /\ opens' = [n \in Node |-> opens[n] + Held(files[p], FD, n)]
      /\ live' = live \cup {q} /\ UNCHANGED <<asleep, lost>>
    BY DEF Fork, DupFiles, Fd2File
<1>2. /\ files[p] \in Table /\ Sound(files[p], -1) /\ files[p].pwd \in Node
      /\ refs \in [Node -> Int] /\ opens \in [Node -> Int]
      /\ \A m : Held(files[p], FD, m) \in Nat /\ Pwd(files[p], m) \in Nat
    BY <1>1, RunsOwn
<1>3. asleep[q] = -1 /\ live \subseteq Proc /\ asleep \in [Proc -> FD \cup {-1}]
    BY <1>1, Own
<1>4. PICK t : t = files[p]
    OBVIOUS
<1>5. PICK u : u = DupFiles(t)
    OBVIOUS
<1>6. /\ u \in Table /\ u.pwd = t.pwd /\ Sound(u, -1)
      /\ \A n : Held(u, FD, n) = Held(t, FD, n)
  <2>1. t \in Table /\ \A f \in OpenFds(t) : t.fd[f].node \in Node
    BY <1>2, <1>4 DEF Sound
  <2>2. QED
    BY <2>1, <1>5, DupTable
<1>7. CountsFollow(q, u)
  <2>1. \A m \in Node : Held(files[q], FD, m) = 0 /\ Pwd(files[q], m) = 0
    BY <1>1, HeldNothing
  <2>2. \A m \in Node : /\ refs'[m] = refs[m] + (Held(t, FD, m) + Pwd(t, m))
                        /\ opens'[m] = opens[m] + Held(t, FD, m)
    BY <1>1, <1>4 DEF Copied
  <2>3. \A m \in Node : refs[m] \in Int /\ opens[m] \in Int /\ Held(t, FD, m) \in Int /\ Pwd(t, m) \in Int
    BY <1>2, <1>4
  <2>4. refs' \in [Node -> Int] /\ opens' \in [Node -> Int]
    BY <1>1, <1>4, <2>3 DEF Copied
  <2>5. \A m : Pwd(u, m) = Pwd(t, m)
    BY <1>6 DEF Pwd
  <2>6. lost' = lost
    BY <1>1
  <2>7. ASSUME NEW m \in Node
        PROVE  /\ opens'[m] = opens[m] - Held(files[q], FD, m) + Held(u, FD, m)
               /\ refs'[m] = refs[m] - Held(files[q], FD, m) + Held(u, FD, m)
                                     - Pwd(files[q], m) + Pwd(u, m)
    BY <2>1, <2>2, <2>3, <2>5, <1>6
  <2>8. QED
    BY <2>4, <2>6, <2>7 DEF CountsFollow
<1>8. live' \subseteq Proc /\ \A r \in Proc \ {q} : r \in live' <=> r \in live
    BY <1>1, <1>3
<1>9. u.pwd \in Node /\ files' = [files EXCEPT ![q] = u] /\ asleep' = asleep
    BY <1>1, <1>2, <1>4, <1>5, <1>6
<1>10. QED
    BY <1>3, <1>6, <1>7, <1>8, <1>9, Replace

LEMMA ExitKeeps ==
    ASSUME IInv, NEW p \in Proc, Runs(p), DoExit(p)
    PROVE  IInv'
<1>1. /\ live' = live \ {p} /\ files' = [files EXCEPT ![p] = NoFiles]
      /\ refs' = [n \in Node |-> refs[n] - Copied(files[p], n)]
      /\ opens' = [n \in Node |-> opens[n] - Held(files[p], FD, n)]
      /\ UNCHANGED <<asleep, lost>>
    BY DEF DoExit
<1>2. /\ files[p] \in Table
      /\ refs \in [Node -> Int] /\ opens \in [Node -> Int]
      /\ \A m : Held(files[p], FD, m) \in Nat /\ Pwd(files[p], m) \in Nat
    BY RunsOwn
<1>3. asleep[p] = -1 /\ live \subseteq Proc /\ asleep \in [Proc -> FD \cup {-1}]
    BY Own DEF Runs
<1>4. /\ NoFiles \in Table /\ OpenFds(NoFiles) = {}
      /\ \A n \in Node : Held(NoFiles, FD, n) = 0 /\ Pwd(NoFiles, n) = 0
    BY HeldNothing
<1>5. Sound(NoFiles, -1)
  <2>1. -1 \notin FD
    BY ConstantsAssumption DEF FD
  <2>2. \A f \in FD : NoFiles.fd[f].open_count = 0
    BY DEF NoFiles, NoFile
  <2>3. QED
    BY <1>4, <2>1, <2>2 DEF Sound
<1>6. CountsFollow(p, NoFiles)
  <2>1. \A m \in Node : /\ refs'[m] = refs[m] - (Held(files[p], FD, m) + Pwd(files[p], m))
                        /\ opens'[m] = opens[m] - Held(files[p], FD, m)
    BY <1>1 DEF Copied
  <2>2. refs' \in [Node -> Int] /\ opens' \in [Node -> Int]
    BY <1>1, <1>2 DEF Copied
  <2>3. ASSUME NEW m \in Node
        PROVE  /\ opens'[m] = opens[m] - Held(files[p], FD, m) + Held(NoFiles, FD, m)
               /\ refs'[m] = refs[m] - Held(files[p], FD, m) + Held(NoFiles, FD, m)
                                     - Pwd(files[p], m) + Pwd(NoFiles, m)
    BY <2>1, <1>2, <1>4
  <2>4. QED
    BY <2>2, <2>3, <1>1 DEF CountsFollow
<1>7. live' \subseteq Proc /\ p \notin live' /\ \A r \in Proc \ {p} : r \in live' <=> r \in live
    BY <1>1, <1>3
<1>8. QED
    BY <1>1, <1>3, <1>4, <1>5, <1>6, <1>7, Replace

LEMMA ExecFailsKeeps ==
    ASSUME IInv, NEW p \in Proc, NEW n, ExecFails(p, n)
    PROVE  IInv'
<1>1. Runs(p) /\ n \in Node /\ {"r"} \in SUBSET {"r", "w"}
    BY DEF ExecFails, Node, Dev
<1>2. PICK f \in Alloc(Closed(p)) :
          files' = [files EXCEPT ![p] = [Closed(p) EXCEPT !.fd[f] = Opened(n, {"r"})]]
    BY DEF ExecFails
<1>3. /\ refs' = [m \in Node |-> refs[m] - Less(p, m) + (IF m = n THEN 1 ELSE 0)]
      /\ opens' = [m \in Node |-> opens[m] - Less(p, m) + (IF m = n THEN 1 ELSE 0)]
      /\ live' = live \ {p} /\ UNCHANGED <<asleep, lost>>
    BY DEF ExecFails
<1>4. /\ files[p] \in Table /\ Sound(files[p], -1)
      /\ refs \in [Node -> Int] /\ opens \in [Node -> Int]
      /\ \A m : Held(files[p], FD, m) \in Nat /\ Pwd(files[p], m) \in Nat
    BY <1>1, RunsOwn
<1>5. asleep[p] = -1 /\ live \subseteq Proc /\ asleep \in [Proc -> FD \cup {-1}]
    BY <1>1, Own DEF Runs
<1>6. PICK t : t = files[p]
    OBVIOUS
<1>7. PICK c : c = Without(t, Closeall)
    OBVIOUS
<1>8. /\ c \in Table /\ c.pwd = t.pwd /\ Sound(c, -1)
      /\ \A m : Held(c, FD, m) = Held(t, FD, m) - Held(t, Closeall, m)
  <2>1. t \in Table /\ Sound(t, -1)
    BY <1>4, <1>6
  <2>2. QED
    BY <2>1, <1>7, HeldWithout, CloseTable
<1>9. c = Closed(p) /\ f \in FD \ OpenFds(c)
    BY <1>2, <1>6, <1>7, AllocFree DEF Closed
<1>10. PICK u : u = WithOpen(c, f, n, {"r"})
    OBVIOUS
<1>11. /\ u \in Table /\ u.pwd = c.pwd /\ Sound(u, -1)
       /\ \A m : Held(u, FD, m) = Held(c, FD, m) + (IF m = n THEN 1 ELSE 0)
    BY <1>1, <1>8, <1>9, <1>10, OpenTable
<1>12. files' = [files EXCEPT ![p] = u]
    BY <1>2, <1>9, <1>10 DEF WithOpen
<1>13. CountsFollow(p, u)
  <2>1. \A m : Held(t, Closeall, m) \in Nat
    BY FdsFinite
  <2>2. \A m \in Node :
            /\ refs'[m] = refs[m] - Held(t, Closeall, m) + (IF m = n THEN 1 ELSE 0)
            /\ opens'[m] = opens[m] - Held(t, Closeall, m) + (IF m = n THEN 1 ELSE 0)
    BY <1>3, <1>6 DEF Less
  <2>3. \A m \in Node : Less(p, m) \in Nat
    BY <2>1, <1>6 DEF Less
  <2>4. refs' \in [Node -> Int] /\ opens' \in [Node -> Int]
    BY <2>3, <1>3, <1>4
  <2>5. \A m : Pwd(u, m) = Pwd(t, m)
    BY <1>8, <1>11 DEF Pwd
  <2>6. ASSUME NEW m \in Node
        PROVE  /\ opens'[m] = opens[m] - Held(files[p], FD, m) + Held(u, FD, m)
               /\ refs'[m] = refs[m] - Held(files[p], FD, m) + Held(u, FD, m)
                                     - Pwd(files[p], m) + Pwd(u, m)
    BY <2>1, <2>2, <2>5, <1>4, <1>6, <1>8, <1>11
  <2>7. QED
    BY <2>4, <2>6, <1>3 DEF CountsFollow
<1>14. live' \subseteq Proc /\ p \notin live' /\ \A r \in Proc \ {p} : r \in live' <=> r \in live
    BY <1>3, <1>5
<1>15. QED
    BY <1>3, <1>5, <1>11, <1>12, <1>13, <1>14, Replace

LEMMA DupKeeps ==
    ASSUME IInv, NEW p \in Proc, NEW f1 \in FD, NEW f2 \in FD, Dup(p, f1, f2)
    PROVE  IInv'
<1>1. Runs(p) /\ f1 \in OpenFds(files[p]) /\ f2 \in FD \ OpenFds(files[p])
    BY DEF Dup, Fd2File, OpenFds
<1>2. files[p] \in Table /\ Sound(files[p], -1)
    BY <1>1, RunsOwn
<1>3. files[p].fd[f1].node \in Node /\ files[p].fd[f1] \in File
    BY <1>1, <1>2 DEF Sound, Table
<1>4. files[p].fd[f1].mode \in SUBSET {"r", "w"}
    BY <1>3 DEF File
<1>5. PICK n \in Node : n = files[p].fd[f1].node
    BY <1>3
<1>6. PICK mode \in SUBSET {"r", "w"} : mode = files[p].fd[f1].mode
    BY <1>4
<1>7. /\ files' = [files EXCEPT ![p].fd[f2] = Opened(n, mode)]
      /\ refs' = [refs EXCEPT ![n] = @ + 1] /\ opens' = [opens EXCEPT ![n] = @ + 1]
      /\ UNCHANGED <<live, asleep, lost>>
    BY <1>5, <1>6 DEF Dup
<1>8. QED
    BY <1>1, <1>7, OpenKeeps

\* The invariant holds at the start: the shell works in the root directory.
LEMMA InitHolds ==
    ASSUME FilesInit
    PROVE  IInv
<1>1. /\ files = [q \in Proc |-> IF q = Shell THEN [NoFiles EXCEPT !.pwd = Root] ELSE NoFiles]
      /\ live = {Shell} /\ asleep = [q \in Proc |-> -1]
      /\ refs = [n \in Node |-> Base(n) + (IF n = Root THEN 1 ELSE 0)]
      /\ opens = [n \in Node |-> 0] /\ lost = [n \in Node |-> 0]
    BY DEF FilesInit
<1>2. Shell \in Proc /\ Root \in Node /\ NoNode \notin Node
    BY ConstantsAssumption DEF Node
<1>3. PICK s : s = [NoFiles EXCEPT !.pwd = Root]
    OBVIOUS
<1>4. NoFiles \in Table /\ NoFiles.pwd = NoNode /\ OpenFds(NoFiles) = {}
      /\ \A f \in FD : NoFiles.fd[f].open_count = 0
    BY HeldNothing DEF NoFiles, NoFile
<1>5. s \in Table /\ s.pwd = Root /\ s.fd = NoFiles.fd /\ OpenFds(s) = {}
    BY <1>2, <1>3, <1>4 DEF Table, OpenFds
<1>6. \A q \in Proc : files[q] = IF q = Shell THEN s ELSE NoFiles
    BY <1>1, <1>3
<1>7. \A q \in Proc : files[q] \in Table /\ OpenFds(files[q]) = {}
    BY <1>4, <1>5, <1>6
<1>8. TypeOK
  <2>1. \A n \in Node : Base(n) \in Int
    BY DEF Base
  <2>2. files \in [Proc -> Table]
    BY <1>1, <1>7
  <2>3. QED
    BY <1>1, <1>2, <2>1, <2>2 DEF TypeOK
<1>9. Standing
    BY <1>1, <1>2, <1>5, <1>6, <1>7 DEF Standing
<1>10. FilesSettled
  <2>1. -1 \notin FD
    BY ConstantsAssumption DEF FD
  <2>2. QED
    BY <2>1, <1>1, <1>4, <1>5, <1>6, <1>7 DEF FilesSettled, Fd2File
<1>11. ASSUME NEW n \in Node
       PROVE  opens[n] = Holders(n) /\ refs[n] = Holders(n) + Dirs(n) + Base(n) + lost[n]
  <2>1. Holders(n) = 0
    <3>1. {x \in Proc \X FD : Fd2File(x[1], x[2]) /\ files[x[1]].fd[x[2]].node = n} = {}
        BY <1>7 DEF Fd2File
    <3>2. QED
        BY <3>1, FS_EmptySet DEF Holders
  <2>2. Dirs(n) = IF n = Root THEN 1 ELSE 0
    <3>1. {q \in Proc : files[q].pwd = n} = IF n = Root THEN {Shell} ELSE {}
        BY <1>2, <1>4, <1>5, <1>6
    <3>2. QED
        BY <3>1, FS_EmptySet, FS_Singleton DEF Dirs
  <2>3. Base(n) \in Int
    BY DEF Base
  <2>4. QED
    BY <1>1, <2>1, <2>2, <2>3
<1>12. QED
    BY <1>8, <1>9, <1>10, <1>11 DEF IInv, CountsExact

\* Every step keeps the invariant.
LEMMA StepKeeps ==
    ASSUME IInv, [Next]_vars
    PROVE  IInv'
<1>1. CASE UNCHANGED vars
    BY <1>1, Stutter DEF vars
<1>2. CASE Next
  <2>1. PICK p \in Proc :
            \/ \E n \in Node : \/ OpenExists(p, n)
                               \/ \E mode \in Modes[n] : Open(p, n, mode)
                               \/ Chdir(p, n)
            \/ \E n \in Node \cup {NoNode} :
                  \/ OpenPanics(p, n) \/ ExecNotOpened(p, n) \/ ExecLoads(p, n)
                  \/ ExecFails(p, n) \/ ExecFailsClosed(p, n) \/ ExecPanics(p, n)
            \/ \E f \in FD : \/ Close(p, f) \/ ReadSleeps(p, f)
                             \/ \E g \in FD : Dup(p, f, g)
                             \/ \E op \in Calls : Call(p, f, op)
            \/ OpenRefused(p)
            \/ ReadEnds(p)
            \/ \E q \in Proc : Fork(p, q)
            \/ Exit(p)
    BY <1>2 DEF Next
  <2>2. ASSUME NEW n \in Node, OpenExists(p, n) PROVE IInv'
    BY <2>2, OpenExistsKeeps
  <2>3. ASSUME NEW n \in Node, NEW mode \in Modes[n], Open(p, n, mode) PROVE IInv'
    <3>1. PICK f \in Alloc(files[p]) : files' = [files EXCEPT ![p].fd[f] = Opened(n, mode)]
        BY <2>3 DEF Open
    <3>2. PICK t : t = files[p]
        OBVIOUS
    <3>3. f \in FD \ OpenFds(files[p])
        BY <3>1, <3>2, AllocFree
    <3>4. mode \in SUBSET {"r", "w"}
        BY ModesType
    <3>5. /\ Runs(p) /\ refs' = [refs EXCEPT ![n] = @ + 1] /\ opens' = [opens EXCEPT ![n] = @ + 1]
          /\ UNCHANGED <<live, asleep, lost>>
        BY <2>3 DEF Open, Opening
    <3>6. QED
        BY <3>1, <3>3, <3>4, <3>5, OpenKeeps
  <2>4. ASSUME NEW n \in Node, Chdir(p, n) PROVE IInv'
    BY <2>4, ChdirKeeps
  <2>5. ASSUME NEW n, OpenPanics(p, n) \/ ExecPanics(p, n) PROVE IInv'
    BY <2>5, Stutter DEF OpenPanics, ExecPanics, Panic
  <2>6. ASSUME NEW n, ExecNotOpened(p, n) PROVE IInv'
    BY <2>6, ExitKeeps DEF ExecNotOpened
  <2>7. ASSUME NEW n, ExecLoads(p, n) \/ ExecFailsClosed(p, n) PROVE IInv'
    <3>1. /\ Runs(p) /\ files' = [files EXCEPT ![p] = Without(files[p], Closeall)]
          /\ refs' = [m \in Node |-> refs[m] - Held(files[p], Closeall, m)]
          /\ opens' = [m \in Node |-> opens[m] - Held(files[p], Closeall, m)]
          /\ live' \in {live, live \ {p}} /\ UNCHANGED <<asleep, lost>>
        BY <2>7 DEF ExecLoads, ExecFailsClosed, ProgramRead, Closed, Less
    <3>2. QED
        BY <3>1, CloseKeeps
  <2>8. ASSUME NEW n, ExecFails(p, n) PROVE IInv'
    BY <2>8, ExecFailsKeeps
  <2>9. ASSUME NEW f \in FD, Close(p, f) PROVE IInv'
    <3>1. PICK F : F = {f}
        OBVIOUS
    <3>2. /\ Runs(p) /\ files' = [files EXCEPT ![p] = Without(files[p], F)]
          /\ refs' = [m \in Node |-> refs[m] - Held(files[p], F, m)]
          /\ opens' = [m \in Node |-> opens[m] - Held(files[p], F, m)]
          /\ UNCHANGED <<live, asleep, lost>>
        BY <2>9, <3>1 DEF Close, VfsClose
    <3>3. QED
        BY <3>2, CloseKeeps
  <2>10. ASSUME NEW f \in FD, ReadSleeps(p, f) PROVE IInv'
    BY <2>10, ReadSleepsKeeps
  <2>11. ASSUME NEW f \in FD, NEW g \in FD, Dup(p, f, g) PROVE IInv'
    BY <2>11, DupKeeps
  <2>12. ASSUME NEW f \in FD, NEW op \in Calls, Call(p, f, op) PROVE IInv'
    BY <2>12, Stutter DEF Call, Panic, vars
  <2>13. CASE OpenRefused(p)
    BY <2>13, Stutter DEF OpenRefused, vars
  <2>14. CASE ReadEnds(p)
    BY <2>14, ReadEndsKeeps
  <2>15. ASSUME NEW q \in Proc, Fork(p, q) PROVE IInv'
    BY <2>15, ForkKeeps
  <2>16. CASE Exit(p)
    BY <2>16, ExitKeeps DEF Exit
  <2>17. QED
    BY <2>1, <2>2, <2>3, <2>4, <2>5, <2>6, <2>7, <2>8, <2>9, <2>10, <2>11, <2>12, <2>13,
       <2>14, <2>15, <2>16
<1>3. QED
    BY <1>1, <1>2

-----------------------------------------------------------------------------
(* Theorems                                                                *)

\* The inductive invariant holds throughout.
THEOREM Invariant == Spec => []IInv
<1>1. FilesInit => IInv
    BY InitHolds
<1>2. IInv /\ [Next]_vars => IInv'
    BY StepKeeps
<1>3. QED
    BY <1>1, <1>2, PTL DEF Spec

\* The counts that vfs_open, vfs_close, dup_files, files_destroy and files_closeall
\* keep in every inode are the references there are, in every history of open,
\* close, dup, fork, exec and exit, with every failure of exec.
THEOREM ReferencesCounted == Spec => []CountsExact
<1>1. IInv => CountsExact
    BY DEF IInv
<1>2. QED
    BY <1>1, Invariant, PTL

\* The inode behind an open descriptor, and the working directory of a process that
\* lives, is in memory: inode_ref_dec has not let vop_reclaim free it, nor has
\* inode_open_dec called vop_close on the inode of the descriptor.
InodesStay ==
    \A p \in Proc :
        /\ \A f \in OpenFds(files[p]) :
              refs[files[p].fd[f].node] > 0 /\ opens[files[p].fd[f].node] > 0
        /\ p \in live => refs[files[p].pwd] > 0

\* No inode is reclaimed or closed under its users.
THEOREM InUseStays == Spec => []InodesStay
<1>1. ASSUME IInv PROVE InodesStay
  <2>1. TypeOK /\ Standing /\ CountsExact
    BY <1>1 DEF IInv
  <2>2. ASSUME NEW n \in Node
        PROVE  /\ Holders(n) \in Nat /\ Dirs(n) \in Nat /\ Base(n) \in Nat /\ lost[n] \in Nat
               /\ opens[n] = Holders(n) /\ refs[n] = Holders(n) + Dirs(n) + Base(n) + lost[n]
    <3>1. Holders(n) \in Nat /\ Dirs(n) \in Nat
        BY CountsNat
    <3>2. QED
        BY <2>1, <3>1 DEF CountsExact, Base, TypeOK
  <2>3. ASSUME NEW p \in Proc, NEW f \in OpenFds(files[p])
        PROVE  refs[files[p].fd[f].node] > 0 /\ opens[files[p].fd[f].node] > 0
    <3>1. PICK n \in Node : n = files[p].fd[f].node
        BY <2>1 DEF Standing
    <3>2. f \in Fds(files[p], FD, n)
        BY <3>1 DEF Fds, OpenFds
    <3>3. Held(files[p], FD, n) > 0
        BY <3>2, FdsFinite, FS_EmptySet
    <3>4. Holders(n) >= Held(files[p], FD, n)
        BY <3>1, CountsNat
    <3>5. QED
        BY <2>2, <3>1, <3>3, <3>4, FdsFinite
  <2>4. ASSUME NEW p \in Proc, p \in live
        PROVE  refs[files[p].pwd] > 0
    <3>1. PICK n \in Node : n = files[p].pwd
        BY <2>1, <2>4 DEF Standing
    <3>2. Dirs(n) > 0
        BY <3>1, CountsNat DEF Pwd
    <3>3. QED
        BY <2>2, <3>1, <3>2
  <2>5. QED
    BY <2>3, <2>4 DEF InodesStay
<1>2. QED
    BY <1>1, Invariant, PTL

=============================================================================

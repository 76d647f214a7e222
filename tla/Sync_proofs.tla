---------------------------- MODULE Sync_proofs -----------------------------
(***************************************************************************)
(* The users of kern/sync, for any number of threads, philosophers,        *)
(* readers and keys.  The semaphore of sem.c neither loses nor makes a     *)
(* unit, keeps its queue exact and implements Permits; the buffer of stdin *)
(* hands out every key once and in order; and the proofs about the two     *)
(* tables of philosophers hold in the composition of all of them.          *)
(***************************************************************************)
EXTENDS MCSync, SeqLemmas, FiniteSetTheorems

-----------------------------------------------------------------------------
(* The lock.  One with a single unit lets at most one thread inside.       *)

\* The inductive invariant: units are conserved because a unit goes to the
\* counter only if the queue is empty, and to a sleeper, who holds none,
\* otherwise.
IInv == TypeOK /\ QueueExact /\ UnitsConserved

\* There is one semaphore.
LEMMA SemIn == sem \in Sem
BY LockAssumption DEF sem

\* What the invariant says of the holders.
LEMMA HoldersFinite ==
    ASSUME TypeOK
    PROVE  /\ IsFiniteSet(Holders) /\ Cardinality(Holders) \in Nat
           /\ \A t \in Thread : t \notin Holders =>
                 Cardinality(Holders \cup {t}) = Cardinality(Holders) + 1
           /\ \A t \in Holders : Cardinality(Holders \ {t}) = Cardinality(Holders) - 1
           /\ \A t \in Holders : \A u \in Thread \ Holders :
                 Cardinality((Holders \ {t}) \cup {u}) = Cardinality(Holders)
<1>1. Holders \subseteq Thread
  BY DEF Holders
<1>2. IsFiniteSet(Holders)
  BY <1>1, LockAssumption, FS_Subset
<1>3. Cardinality(Holders) \in Nat
  BY <1>2, FS_CardinalityType
<1>4. ASSUME NEW t, t \notin Holders
      PROVE  Cardinality(Holders \cup {t}) = Cardinality(Holders) + 1
  BY <1>2, <1>4, FS_AddElement
<1>5. ASSUME NEW t \in Holders
      PROVE  /\ IsFiniteSet(Holders \ {t})
             /\ Cardinality(Holders \ {t}) = Cardinality(Holders) - 1
  BY <1>2, FS_RemoveElement
<1>6. ASSUME NEW t \in Holders, NEW u \in Thread \ Holders
      PROVE  Cardinality((Holders \ {t}) \cup {u}) = Cardinality(Holders)
  <2>1. Cardinality((Holders \ {t}) \cup {u}) = Cardinality(Holders \ {t}) + 1
    BY <1>5, FS_AddElement
  <2>2. QED
    BY <2>1, <1>3, <1>5
<1>7. QED
  BY <1>2, <1>3, <1>4, <1>5, <1>6

\* At first every unit is free and nobody waits.
LEMMA InitIInv == LockInit => IInv
<1> SUFFICES ASSUME LockInit PROVE IInv
  OBVIOUS
<1>1. queue[sem] = <<>> /\ value[sem] = PermitCount /\ asleep = {}
  BY SemIn DEF LockInit, SemInit
<1>2. Holders = {}
  BY DEF LockInit, Holders
<1>3. Cardinality(Holders) = 0
  BY <1>2, FS_EmptySet
<1>4. TypeOK
  BY LockAssumption DEF LockInit, SemInit, TypeOK
<1>5. Range(queue[sem]) = {} /\ IsInjective(queue[sem])
  BY <1>1 DEF Range, IsInjective
<1>6. QED
  BY <1>1, <1>3, <1>4, <1>5, LockAssumption DEF IInv, QueueExact, UnitsConserved

\* A unit taken from the counter: the caller of down or try_down holds it.
LEMMA TakeUnit ==
    ASSUME IInv, NEW t \in Thread, pc[t] = "out", TryDown(sem),
           pc' = [pc EXCEPT ![t] = "in"], UNCHANGED exiting
    PROVE  IInv' /\ Holders' = Holders \cup {t} /\ t \notin Holders
<1>1. TypeOK /\ QueueExact /\ UnitsConserved /\ sem \in Sem
  BY SemIn DEF IInv
<1>2. /\ value[sem] \in Nat /\ value[sem] > 0 /\ value'[sem] = value[sem] - 1
      /\ queue' = queue /\ asleep' = asleep
  BY <1>1 DEF TypeOK, TryDown
<1>3. t \notin asleep
  BY <1>1 DEF QueueExact
<1>4. Holders' = Holders \cup {t} /\ t \notin Holders
  BY <1>1, <1>2, <1>3 DEF Holders, TypeOK
<1>5. TypeOK'
  <2>1. value' \in [Sem -> Nat]
    BY <1>1, <1>2 DEF TypeOK, TryDown
  <2>2. QED
    BY <1>1, <1>2, <2>1 DEF TypeOK
<1>6. QueueExact'
  BY <1>1, <1>2 DEF QueueExact, TypeOK
<1>7. UnitsConserved'
  <2>1. Cardinality(Holders') = Cardinality(Holders) + 1 /\ Cardinality(Holders) \in Nat
    BY <1>1, <1>4, HoldersFinite
  <2>2. value[sem] + Cardinality(Holders) = PermitCount
    BY <1>1 DEF UnitsConserved
  <2>3. value'[sem] + Cardinality(Holders') = PermitCount
    BY <2>1, <2>2, <1>2
  <2>4. QED
    BY <2>3 DEF UnitsConserved
<1>8. QED
  BY <1>4, <1>5, <1>6, <1>7 DEF IInv

\* No unit is free: the caller of down joins the queue and holds nothing.
LEMMA JoinQueue ==
    ASSUME IInv, NEW t \in Thread, pc[t] = "out", ~(value[sem] > 0), Lock(t)
    PROVE  IInv' /\ Holders' = Holders
<1>1. TypeOK /\ QueueExact /\ UnitsConserved /\ sem \in Sem
  BY SemIn DEF IInv
<1>2. /\ queue' = [queue EXCEPT ![sem] = Append(@, t)]
      /\ asleep' = asleep \cup {t}
      /\ value' = value
      /\ pc' = [pc EXCEPT ![t] = "in"]
      /\ exiting' = exiting
  BY DEF Lock, Down
<1>3. queue'[sem] = Append(queue[sem], t) /\ queue[sem] \in Seq(Thread)
  BY <1>1, <1>2 DEF TypeOK
<1>4. t \notin asleep
  BY <1>1 DEF QueueExact
<1>5. /\ queue'[sem] \in Seq(Thread) /\ IsInjective(queue'[sem])
      /\ Range(queue'[sem]) = asleep'
  BY <1>1, <1>2, <1>3, <1>4, AppendRange DEF QueueExact
<1>6. TypeOK'
  BY <1>1, <1>2, <1>5 DEF TypeOK
<1>7. QueueExact'
  BY <1>1, <1>2, <1>5 DEF QueueExact, TypeOK
<1>8. Holders' = Holders
  BY <1>1, <1>2 DEF Holders, TypeOK
<1>9. UnitsConserved'
  BY <1>1, <1>2, <1>8 DEF UnitsConserved
<1>10. QED
  BY <1>6, <1>7, <1>8, <1>9 DEF IInv

\* up with nobody waiting: the unit is free again.
LEMMA FreeUnit ==
    ASSUME IInv, NEW t \in Thread, Unlock(t), queue[sem] = <<>>
    PROVE  IInv' /\ t \in Holders /\ Holders' = Holders \ {t}
<1>1. TypeOK /\ QueueExact /\ UnitsConserved /\ sem \in Sem
  BY SemIn DEF IInv
<1>2. /\ value' = [value EXCEPT ![sem] = @ + 1]
      /\ queue' = queue /\ asleep' = asleep
      /\ pc' = [pc EXCEPT ![t] = "out"]
      /\ exiting' = exiting
      /\ t \in Holders
  BY DEF Unlock, Up
<1>3. value[sem] \in Nat /\ value'[sem] = value[sem] + 1 /\ value' \in [Sem -> Nat]
  BY <1>1, <1>2 DEF TypeOK
<1>4. Holders' = Holders \ {t}
  BY <1>1, <1>2 DEF Holders, TypeOK
<1>5. TypeOK'
  BY <1>1, <1>2, <1>3 DEF TypeOK
<1>6. QueueExact'
  BY <1>1, <1>2 DEF QueueExact, TypeOK, Holders
<1>7. UnitsConserved'
  <2>1. Cardinality(Holders') = Cardinality(Holders) - 1 /\ Cardinality(Holders) \in Nat
    BY <1>1, <1>2, <1>4, HoldersFinite
  <2>2. value[sem] + Cardinality(Holders) = PermitCount
    BY <1>1 DEF UnitsConserved
  <2>3. value'[sem] + Cardinality(Holders') = PermitCount
    BY <2>1, <2>2, <1>3
  <2>4. QED
    BY <2>3 DEF UnitsConserved
<1>8. QED
  BY <1>2, <1>4, <1>5, <1>6, <1>7 DEF IInv

\* up with a waiter: the first one holds the unit when the caller lets it go.
LEMMA HandOver ==
    ASSUME IInv, NEW t \in Thread, Unlock(t), queue[sem] # <<>>
    PROVE  /\ IInv' /\ t \in Holders
           /\ \E u \in Thread \ Holders : Holders' = (Holders \ {t}) \cup {u}
<1> DEFINE u == Head(queue[sem])
<1>1. TypeOK /\ QueueExact /\ UnitsConserved /\ sem \in Sem
  BY SemIn DEF IInv
<1>2. /\ queue' = [queue EXCEPT ![sem] = Tail(@)]
      /\ asleep' = asleep \ {u}
      /\ value' = value
      /\ pc' = [pc EXCEPT ![t] = "out"]
      /\ exiting' = exiting
      /\ t \in Holders
  BY DEF Unlock, Up
<1>3. /\ queue[sem] \in Seq(Thread) /\ queue'[sem] = Tail(queue[sem])
      /\ IsInjective(queue[sem]) /\ Range(queue[sem]) = asleep
  BY <1>1, <1>2 DEF TypeOK, QueueExact
<1>4. /\ queue'[sem] \in Seq(Thread) /\ IsInjective(queue'[sem])
      /\ u \in asleep /\ Range(queue'[sem]) = asleep'
  BY <1>2, <1>3, TailRange
<1>5. u \in Thread /\ pc[u] = "in" /\ u \notin Holders /\ u # t
  BY <1>1, <1>2, <1>4 DEF TypeOK, QueueExact, Holders
<1>6. ~(value[sem] > 0)
  BY <1>1 DEF QueueExact
<1> HIDE DEF u
<1>7. Holders' = (Holders \ {t}) \cup {u}
  BY <1>1, <1>2, <1>5 DEF Holders, TypeOK
<1>8. TypeOK'
  BY <1>1, <1>2, <1>4 DEF TypeOK
<1>9. QueueExact'
  BY <1>1, <1>2, <1>4, <1>6 DEF QueueExact, TypeOK, Holders
<1>10. UnitsConserved'
  <2>1. Cardinality(Holders') = Cardinality(Holders)
    BY <1>1, <1>2, <1>5, <1>7, HoldersFinite
  <2>2. QED
    BY <2>1, <1>1, <1>2 DEF UnitsConserved
<1>11. QED
  BY <1>2, <1>5, <1>7, <1>8, <1>9, <1>10 DEF IInv

\* A kill leaves the semaphore alone: WT_KSEM cannot be interrupted.
LEMMA KillLeaves ==
    ASSUME IInv, NEW t \in Thread, KillThread(t)
    PROVE  IInv' /\ Holders' = Holders
BY DEF IInv, KillThread, Kill, semvars, TypeOK, QueueExact, UnitsConserved, Holders

\* Every step keeps the invariant, and is a step of Permits or changes no holder.
LEMMA NextIInv ==
    IInv /\ [Next]_vars => IInv' /\ [Abstract!PermitsNext]_Holders
<1> SUFFICES ASSUME IInv, [Next]_vars
             PROVE  IInv' /\ [Abstract!PermitsNext]_Holders
  OBVIOUS
<1>1. CASE UNCHANGED vars
  BY <1>1 DEF vars, semvars, IInv, TypeOK, QueueExact, UnitsConserved, Holders
<1>2. ASSUME NEW t \in Thread, pc[t] = "out", TryDown(sem),
             pc' = [pc EXCEPT ![t] = "in"], UNCHANGED exiting
      PROVE  IInv' /\ Abstract!PermitsNext
  <2>1. IInv' /\ Holders' = Holders \cup {t} /\ t \notin Holders
    BY <1>2, TakeUnit
  <2>2. Cardinality(Holders) < PermitCount
    <3>1. value[sem] \in Nat /\ value[sem] > 0 /\ Cardinality(Holders) \in Nat
      BY <1>2, SemIn, HoldersFinite DEF IInv, TypeOK, TryDown
    <3>2. value[sem] + Cardinality(Holders) = PermitCount
      BY DEF IInv, UnitsConserved
    <3>3. QED
      BY <3>1, <3>2, LockAssumption
  <2>3. Cardinality(Holders) = Abstract!Cardinality(Holders)
    BY Zenon DEF Cardinality, Abstract!Cardinality
  <2>4. QED
    BY <2>1, <2>2, <2>3 DEF Abstract!PermitsNext, Abstract!Acquire
<1>3. ASSUME NEW t \in Thread, Lock(t)
      PROVE  IInv' /\ [Abstract!PermitsNext]_Holders
  <2>1. CASE value[sem] > 0
    <3>1. /\ TryDown(sem)
          /\ pc[t] = "out"
          /\ pc' = [pc EXCEPT ![t] = "in"]
          /\ UNCHANGED exiting
      BY <1>3, <2>1 DEF Lock, Down, TryDown
    <3>2. QED
      BY <3>1, <1>2
  <2>2. CASE ~(value[sem] > 0)
    BY <1>3, <2>2, JoinQueue DEF Lock
  <2>3. QED
    BY <2>1, <2>2
<1>4. ASSUME NEW t \in Thread, TryLock(t)
      PROVE  IInv' /\ [Abstract!PermitsNext]_Holders
  BY <1>4, <1>2 DEF TryLock
<1>5. ASSUME NEW t \in Thread, Unlock(t)
      PROVE  IInv' /\ [Abstract!PermitsNext]_Holders
  <2>1. CASE queue[sem] = <<>>
    BY <1>5, <2>1, FreeUnit DEF Abstract!PermitsNext, Abstract!Release
  <2>2. CASE queue[sem] # <<>>
    BY <1>5, <2>2, HandOver DEF Abstract!PermitsNext, Abstract!PassOn
  <2>3. QED
    BY <2>1, <2>2
<1>6. ASSUME NEW t \in Thread, KillThread(t)
      PROVE  IInv' /\ [Abstract!PermitsNext]_Holders
  BY <1>6, KillLeaves
<1>7. QED
  BY <1>1, <1>3, <1>4, <1>5, <1>6 DEF Next

\* The invariant holds throughout.
THEOREM Invariant == Spec => []IInv
BY InitIInv, NextIInv, PTL DEF Spec

\* Type correctness, for any number of threads and of units.
THEOREM TypeCorrect == Spec => []TypeOK
<1>1. IInv => TypeOK
  BY DEF IInv
<1>2. QED
  BY <1>1, Invariant, PTL

\* No unit is lost or made by any order of down, try_down, up and do_kill; with
\* one unit, no two threads are inside a section locked by lock_sfs_fs or the
\* like.
THEOREM NoUnitLost == Spec => []UnitsConserved
<1>1. IInv => UnitsConserved
  BY DEF IInv
<1>2. QED
  BY <1>1, Invariant, PTL

\* The wait queue holds exactly the sleepers, and nobody sleeps next to a free
\* unit.
THEOREM QueueIsExact == Spec => []QueueExact
<1>1. IInv => QueueExact
  BY DEF IInv
<1>2. QED
  BY <1>1, Invariant, PTL

\* down and up implement the permits.
THEOREM RefinesPermits == Spec => ImplementsPermits
<1>1. LockInit => Abstract!PermitsInit
  BY DEF LockInit, Holders, Abstract!PermitsInit
<1>2. QED
  BY <1>1, Invariant, NextIInv, PTL
     DEF Spec, ImplementsPermits, Abstract!PermitsSpec

\* Who leaves the queue in a step was the first on it.
InOrder ==
    \A i, j \in DOMAIN queue[sem] :
        i < j /\ queue[sem][j] \notin asleep' => queue[sem][i] \notin asleep'

\* Every step of the lock keeps the order.
LEMMA StepInOrder ==
    ASSUME IInv, Next
    PROVE  InOrder
<1>1. sem \in Sem /\ queue[sem] \in Seq(Thread) /\ IsInjective(queue[sem])
      /\ Range(queue[sem]) = asleep
  BY SemIn DEF IInv, TypeOK, QueueExact
<1>2. PICK t \in Thread : Lock(t) \/ TryLock(t) \/ Unlock(t) \/ KillThread(t)
  BY DEF Next
<1>3. CASE asleep \subseteq asleep'
  <2>1. \A j \in DOMAIN queue[sem] : queue[sem][j] \in asleep
    BY <1>1 DEF Range
  <2>2. QED
    BY <2>1, <1>3 DEF InOrder
<1>4. CASE Unlock(t) /\ queue[sem] # <<>>
  <2>1. asleep' = asleep \ {Head(queue[sem])}
    BY <1>4 DEF Unlock, Up
  <2>2. Head(queue[sem]) = queue[sem][1] /\ 1 \in DOMAIN queue[sem]
        /\ DOMAIN queue[sem] \subseteq Nat \ {0}
    BY <1>1, <1>4
  <2>3. ASSUME NEW j \in DOMAIN queue[sem], queue[sem][j] \notin asleep'
        PROVE  j = 1
    <3>1. queue[sem][j] \in asleep
      BY <1>1 DEF Range
    <3>2. queue[sem][j] = queue[sem][1]
      BY <2>1, <2>2, <2>3, <3>1
    <3>3. QED
      BY <1>1, <2>2, <3>2 DEF IsInjective
  <2>4. QED
    BY <2>2, <2>3 DEF InOrder
<1>5. QED
  <2>1. CASE Lock(t)
    BY <2>1, <1>3 DEF Lock, Down
  <2>2. CASE TryLock(t)
    BY <2>2, <1>3 DEF TryLock, TryDown
  <2>3. CASE KillThread(t)
    BY <2>3, <1>3 DEF KillThread, Kill, semvars
  <2>4. CASE Unlock(t) /\ queue[sem] = <<>>
    BY <2>4, <1>3 DEF Unlock, Up
  <2>5. QED
    BY <1>2, <1>4, <2>1, <2>2, <2>3, <2>4

\* The wait queue is served first come, first served: up never lets a thread in
\* while one that came before it sleeps, and nothing else wakes a sleeper.
THEOREM ServedInOrder == Spec => FirstComeFirstServed
<1>1. IInv /\ [Next]_vars => [InOrder]_vars
  BY StepInOrder
<1>2. QED
  BY <1>1, Invariant, PTL DEF Spec, FirstComeFirstServed, InOrder

-----------------------------------------------------------------------------
(* Stdin.  What the readers got, followed by what lies unread in the       *)
(* buffer, is one stream of keys: a read moves the boundary, and a key is  *)
(* appended to the stream or, the buffer being full, takes the place of    *)
(* its first unread element.                                               *)

\* The inductive invariant.
KeysInv == K!TypeOK /\ K!WaitersExact /\ K!KeysAccounted /\ lost \subseteq 1..typed

\* The operators on sequences that Stdin uses are those of the lemmas.
LEMMA SameRange ==
    \A f : K!Range(f) = Range(f) /\ (K!IsInjective(f) <=> IsInjective(f))
BY DEF K!Range, Range, K!IsInjective, IsInjective

\* The same of RemoveAt.
LEMMA SameRemove ==
    \A s, i : K!RemoveAt(s, i) = RemoveAt(s, i)
BY DEF K!RemoveAt, RemoveAt

\* The same of Min.
LEMMA SameMin ==
    \A e : K!Min(e) = Min(e)
BY DEF K!Min, Min

\* What the invariant says of the keys.
LEMMA KeyFacts ==
    ASSUME K!StdinAssumption, KeysInv
    PROVE  /\ STDIN_BUFSIZE \in Nat \ {0} /\ KEYS \in Nat
           /\ stdin_buffer \in [0..STDIN_BUFSIZE-1 -> Nat] /\ got \in Seq(Nat)
           /\ p_rpos \in Nat /\ p_wpos \in Nat /\ typed \in Nat /\ typed <= KEYS
           /\ p_wpos - p_rpos \in 0..STDIN_BUFSIZE
           /\ got \o K!Unread =
                Stream(STDIN_BUFSIZE, got, stdin_buffer, p_rpos, p_wpos - p_rpos)
           /\ IsStream(STDIN_BUFSIZE, got \o K!Unread, got, stdin_buffer, p_rpos,
                       p_wpos - p_rpos)
           /\ IsInjective(got \o K!Unread) /\ Range(got \o K!Unread) = 1..typed \ lost
           /\ lost = {} => got \o K!Unread = [i \in 1..typed |-> i]
           /\ lost \subseteq 1..typed
<1>1. K!TypeOK /\ K!KeysAccounted /\ lost \subseteq 1..typed
  BY DEF KeysInv
<1>2. /\ STDIN_BUFSIZE \in Nat \ {0} /\ KEYS \in Nat
      /\ p_rpos \in Nat /\ p_wpos \in Nat /\ typed \in Nat /\ typed <= KEYS
      /\ p_wpos - p_rpos \in 0..STDIN_BUFSIZE
  BY <1>1 DEF K!TypeOK, K!StdinAssumption
<1>3. stdin_buffer \in [0..STDIN_BUFSIZE-1 -> Nat]
  BY <1>1, <1>2 DEF K!TypeOK
<1>4. got \in Seq(Nat)
  BY <1>1, <1>2, SeqMonotonic DEF K!TypeOK
<1>5. got \o K!Unread = Stream(STDIN_BUFSIZE, got, stdin_buffer, p_rpos, p_wpos - p_rpos)
  BY DEF K!Unread, K!Slot, Stream
<1>6. PICK g, b, r, n : g = got /\ b = stdin_buffer /\ r = p_rpos /\ n = p_wpos - p_rpos
  OBVIOUS
<1>7. g \in Seq(Nat) /\ b \in [0..STDIN_BUFSIZE-1 -> Nat] /\ r \in Nat /\ n \in Nat
  BY <1>2, <1>3, <1>4, <1>6
<1>8. IsStream(STDIN_BUFSIZE, Stream(STDIN_BUFSIZE, g, b, r, n), g, b, r, n)
  BY <1>2, <1>7, StreamElements
<1>9. QED
  BY <1>1, <1>2, <1>3, <1>4, <1>5, <1>6, <1>8, SameRange DEF K!KeysAccounted

\* A key is accounted for when it is typed, and the one it overwrites, too.
LEMMA WriteKeepsKeys ==
    ASSUME K!StdinAssumption, KeysInv, K!DevStdinWrite
    PROVE  K!KeysAccounted' /\ lost' \subseteq 1..typed'
<1> DEFINE n == p_wpos - p_rpos
<1>1. /\ STDIN_BUFSIZE \in Nat \ {0} /\ KEYS \in Nat
      /\ stdin_buffer \in [0..STDIN_BUFSIZE-1 -> Nat] /\ got \in Seq(Nat)
      /\ p_rpos \in Nat /\ p_wpos \in Nat /\ typed \in Nat /\ typed <= KEYS
      /\ n \in 0..STDIN_BUFSIZE
      /\ got \o K!Unread = Stream(STDIN_BUFSIZE, got, stdin_buffer, p_rpos, n)
      /\ IsStream(STDIN_BUFSIZE, got \o K!Unread, got, stdin_buffer, p_rpos, n)
      /\ IsInjective(got \o K!Unread) /\ Range(got \o K!Unread) = 1..typed \ lost
      /\ lost = {} => got \o K!Unread = [i \in 1..typed |-> i]
      /\ lost \subseteq 1..typed
  BY KeyFacts
<1>2. /\ typed' = typed + 1 /\ p_rpos' = p_rpos /\ got' = got
      /\ stdin_buffer' = [stdin_buffer EXCEPT ![p_wpos % STDIN_BUFSIZE] = typed']
      /\ p_wpos' = IF K!Room THEN p_wpos + 1 ELSE p_wpos
      /\ lost' = IF p_wpos - p_rpos = STDIN_BUFSIZE THEN lost \cup {K!Slot(p_wpos)} ELSE lost
  BY DEF K!DevStdinWrite
<1>d. PICK x \in Nat : x = typed + 1
  BY <1>1
<1>3. PICK s : s = got \o K!Unread /\ x = typed + 1
  BY <1>d
<1>4. /\ s \in Seq(Nat) /\ x \in Nat /\ x \notin Range(s)
      /\ IsInjective(s) /\ Range(s) = 1..typed \ lost /\ x \notin lost
      /\ lost = {} => s = [i \in 1..typed |-> i]
  <2>1. s \in Seq(Nat)
    BY <1>1, <1>3 DEF IsStream
  <2>2. x \notin 1..typed
    BY <1>1, <1>3
  <2>3. QED
    BY <1>1, <1>3, <2>1, <2>2
<1>5. (got \o K!Unread)' =
          Stream(STDIN_BUFSIZE, got', stdin_buffer', p_rpos', p_wpos' - p_rpos')
  BY DEF K!Unread, K!Slot, Stream
<1>a. n \in Nat /\ n + 1 \in Nat
  BY <1>1
<1>6. PICK g \in Seq(Nat), b \in [0..STDIN_BUFSIZE-1 -> Nat], r \in Nat, m \in Nat, w \in Nat :
        g = got /\ b = stdin_buffer /\ r = p_rpos /\ m = n /\ w = p_wpos
  BY <1>1, <1>a, Zenon
<1>b. PICK m1 \in Nat : m1 = m + 1
  OBVIOUS
<1>c. s = Stream(STDIN_BUFSIZE, g, b, r, m)
  BY <1>1, <1>3, <1>6, Zenon
<1>7. w = r + m /\ stdin_buffer' = Put(STDIN_BUFSIZE, b, w, x)
  BY <1>1, <1>2, <1>3, <1>6 DEF Put
<1> HIDE DEF n
<1>8. CASE K!Room
  <2>1. m < STDIN_BUFSIZE /\ p_wpos' - p_rpos' = m1 /\ lost' = lost
    <3>1. p_wpos - p_rpos < STDIN_BUFSIZE
      BY <1>8 DEF K!Room
    <3>2. QED
      BY <3>1, <1>b, <1>1, <1>2, <1>6, <1>8 DEF n
  <2>2. Stream(STDIN_BUFSIZE, g, Put(STDIN_BUFSIZE, b, w, x), r, m1) = Append(s, x)
    <3>1. Stream(STDIN_BUFSIZE, g, Put(STDIN_BUFSIZE, b, w, x), r, m1) =
            Append(Stream(STDIN_BUFSIZE, g, b, r, m), x)
      <4>1. m < STDIN_BUFSIZE /\ w = r + m /\ m1 = m + 1 /\ STDIN_BUFSIZE \in Nat \ {0}
        BY <1>1, <1>b, <1>7, <2>1
      <4>2. ComesLast(STDIN_BUFSIZE, g, b, r, m, x, w, m1)
        BY <4>1, KeyIsLast, Zenon
      <4>3. QED
        BY <4>2 DEF ComesLast
    <3>2. QED
      BY <3>1, <1>c, Zenon
  <2>3. (got \o K!Unread)' = Append(s, x)
    BY <1>2, <1>5, <1>6, <1>7, <2>1, <2>2
  <2>4. PICK t : t = Append(s, x)
    OBVIOUS
  <2>5. IsInjective(t) /\ Range(t) = Range(s) \cup {x}
    BY <1>4, <2>4, AppendRange
  <2>6. Range(t) = 1..(typed + 1) \ lost
    <3>1. 1..(typed + 1) = 1..typed \cup {x}
      <4>1. typed \in Nat /\ x = typed + 1
        BY <1>1, <1>3
      <4>2. QED
        BY <4>1
    <3>2. QED
      BY <3>1, <1>4, <2>5
  <2>7. ASSUME lost = {}
        PROVE  t = [i \in 1..(typed + 1) |-> i]
    <3>1. s = [i \in 1..typed |-> i] /\ Len(s) = typed
      BY <1>1, <1>4, <2>7
    <3>2. /\ t \in Seq(Nat) /\ Len(t) = typed + 1
          /\ \A i \in 1..typed : t[i] = s[i]
          /\ t[typed + 1] = x
      <4>1. /\ t \in Seq(Nat) /\ Len(t) = Len(s) + 1
            /\ \A i \in 1..Len(s) : t[i] = s[i]
            /\ t[Len(s) + 1] = x
        BY <1>4, <2>4, AppendProperties
      <4>2. Len(s) = typed
        BY <3>1
      <4>3. QED
        BY <4>1, <4>2
    <3>3. PICK u : u = [i \in 1..(typed + 1) |-> i]
      OBVIOUS
    <3>4. u \in Seq(Nat) /\ Len(u) = typed + 1 /\ \A i \in 1..(typed + 1) : u[i] = i
      <4>1. u \in [1..(typed + 1) -> Nat] /\ typed + 1 \in Nat
        BY <3>3, <1>1
      <4>2. QED
        BY <4>1, <3>3
    <3>5. ASSUME NEW i \in 1..(typed + 1)
          PROVE  t[i] = u[i]
      <4>1. CASE i \in 1..typed
        BY <4>1, <3>1, <3>2, <3>4
      <4>2. CASE i = typed + 1
        BY <4>2, <3>2, <3>4, <1>3
      <4>3. QED
        BY <4>1, <4>2, <1>1
    <3>6. t = u
      BY <3>2, <3>4, <3>5, SeqEqual
    <3>7. QED
      BY <3>3, <3>6
  <2>8. lost' \subseteq 1..typed'
    <3>1. 1..typed \subseteq 1..(typed + 1) /\ lost \subseteq 1..typed
      BY <1>1
    <3>2. QED
      BY <3>1, <1>2, <2>1
  <2>9. K!KeysAccounted'
    BY <1>2, <2>1, <2>3, <2>4, <2>5, <2>6, <2>7, SameRange DEF K!KeysAccounted
  <2>10. QED
    BY <2>8, <2>9
<1>9. CASE ~K!Room
  <2>1. m = STDIN_BUFSIZE /\ p_wpos' - p_rpos' = m /\ lost' = lost \cup {K!Slot(p_wpos)}
    <3>1. ~(p_wpos - p_rpos < STDIN_BUFSIZE)
      BY <1>9 DEF K!Room
    <3>2. QED
      BY <3>1, <1>1, <1>2, <1>6, <1>9 DEF n
  <2>2. PICK t : t = Stream(STDIN_BUFSIZE, g, Put(STDIN_BUFSIZE, b, w, x), r, m)
    OBVIOUS
  <2>3. s = Stream(STDIN_BUFSIZE, g, b, r, m) /\ (got \o K!Unread)' = t
    BY <1>1, <1>2, <1>3, <1>5, <1>6, <1>7, <2>1, <2>2
  <2>4. /\ t \in Seq(Nat) /\ IsReplaced(t, s, Len(g) + 1, x)
        /\ s[Len(g) + 1] = b[w % STDIN_BUFSIZE]
    <3>1. m = STDIN_BUFSIZE /\ w = r + m /\ STDIN_BUFSIZE \in Nat \ {0}
      BY <1>1, <1>7, <2>1
    <3>2. TakesOldest(STDIN_BUFSIZE, Stream(STDIN_BUFSIZE, g, b, r, m),
                      Stream(STDIN_BUFSIZE, g, Put(STDIN_BUFSIZE, b, w, x), r, m), g, b, w, x)
      BY <3>1, KeyTakesOldest, Zenon
    <3>3. TakesOldest(STDIN_BUFSIZE, s, t, g, b, w, x)
      BY <3>2, <1>c, <2>2, Zenon
    <3>4. QED
      BY <3>3 DEF TakesOldest
  <2>5. PICK k : k = Len(g) + 1
    OBVIOUS
  <2>6. /\ IsInjective(t)
        /\ Range(t) = (Range(s) \ {s[k]}) \cup {x}
    <3>1. IsReplaced(t, s, k, x)
      BY <2>4, <2>5, Zenon
    <3>2. s \in Seq(Nat) /\ t \in Seq(Nat) /\ IsInjective(s) /\ x \notin Range(s)
      BY <1>4, <2>4, Zenon
    <3>3. QED
      BY <3>1, <3>2, ReplaceRange
  <2>7. s[k] = K!Slot(p_wpos)
    BY <1>6, <1>7, <2>4, <2>5 DEF K!Slot
  <2>8. s[k] \in Range(s)
    BY <1>4, <2>4, <2>5 DEF Range, IsReplaced
  <2>9. s[k] \in 1..typed /\ lost' = lost \cup {s[k]}
    BY <1>4, <2>1, <2>7, <2>8
  <2>10. 1..(typed + 1) = 1..typed \cup {x} /\ x \notin 1..typed
    <3>1. typed \in Nat /\ x = typed + 1
      BY <1>1, <1>3
    <3>2. QED
      BY <3>1
  <2>11. Range(t) = 1..(typed + 1) \ lost'
    BY <1>4, <2>6, <2>9, <2>10
  <2>12. lost' \subseteq 1..typed'
    BY <1>1, <1>2, <2>9, <2>10
  <2>13. K!KeysAccounted'
    BY <1>2, <2>3, <2>6, <2>9, <2>11, SameRange DEF K!KeysAccounted
  <2>14. QED
    BY <2>12, <2>13
<1>10. QED
  BY <1>8, <1>9

\* A reader takes what it asked for, or all there is.
LEMMA TakenLeast ==
    ASSUME NEW n \in Nat, NEW m \in Nat
    PROVE  LET k == Min({n, m})
           IN k \in 0..m /\ k \in 0..n /\ (k = n \/ k = m)
<1>1. PICK k \in {n, m} : \A y \in {n, m} : k <= y
  OBVIOUS
<1>2. Min({n, m}) \in {n, m} /\ \A y \in {n, m} : Min({n, m}) <= y
  BY <1>1 DEF Min
<1>3. QED
  BY <1>2

\* A key is accounted for when a reader takes it.
LEMMA ReadKeepsKeys ==
    ASSUME K!StdinAssumption, KeysInv, NEW y \in Reader, NEW a \in Nat, NEW q,
           K!ReadLoop(y, a, q)
    PROVE  /\ K!KeysAccounted' /\ lost' \subseteq 1..typed'
           /\ got' \in Seq(1..KEYS) /\ p_rpos' \in Nat
           /\ p_wpos' \in p_rpos' .. p_rpos' + STDIN_BUFSIZE
           /\ K!Taken(a) \in 0..a
           /\ K!Taken(a) # a => p_rpos' = p_wpos'
           /\ p_rpos = p_wpos => p_rpos' = p_wpos'
<1> DEFINE n == p_wpos - p_rpos
<1>1. /\ STDIN_BUFSIZE \in Nat \ {0} /\ KEYS \in Nat
      /\ stdin_buffer \in [0..STDIN_BUFSIZE-1 -> Nat] /\ got \in Seq(Nat)
      /\ p_rpos \in Nat /\ p_wpos \in Nat /\ typed \in Nat /\ typed <= KEYS
      /\ n \in 0..STDIN_BUFSIZE
      /\ got \o K!Unread = Stream(STDIN_BUFSIZE, got, stdin_buffer, p_rpos, n)
      /\ IsInjective(got \o K!Unread) /\ Range(got \o K!Unread) = 1..typed \ lost
      /\ lost = {} => got \o K!Unread = [i \in 1..typed |-> i]
      /\ lost \subseteq 1..typed
  BY KeyFacts
<1>2. /\ got' = got \o [i \in 1..K!Taken(a) |-> K!Slot(p_rpos + i - 1)]
      /\ p_rpos' = p_rpos + K!Taken(a) /\ p_wpos' = p_wpos
      /\ stdin_buffer' = stdin_buffer /\ typed' = typed /\ lost' = lost
  BY DEF K!ReadLoop
<1>3. n \in Nat
  BY <1>1
<1>4. PICK g \in Seq(Nat), b \in [0..STDIN_BUFSIZE-1 -> Nat], r \in Nat, m \in Nat :
        g = got /\ b = stdin_buffer /\ r = p_rpos /\ m = n
  BY <1>1, <1>3, Zenon
<1>5. K!Taken(a) = Min({a, m})
  BY <1>4, SameMin DEF K!Taken
<1>6. PICK k \in 0..m : k = K!Taken(a) /\ k \in 0..a /\ (k = a \/ k = m)
  BY <1>5, TakenLeast
<1>7. PICK r1 \in Nat, m1 \in Nat : r1 = r + k /\ m1 = m - k
  OBVIOUS
<1>8. got' = Stream(STDIN_BUFSIZE, g, b, r, k) /\ p_rpos' = r1
  BY <1>2, <1>4, <1>6, <1>7 DEF Stream, K!Slot
<1>w. PICK w \in Nat : w = p_wpos
  BY <1>1
<1>9. p_wpos' - p_rpos' = m1 /\ m1 <= STDIN_BUFSIZE /\ p_wpos' = r1 + m1
  <2>1. w - r = m /\ m <= STDIN_BUFSIZE
    BY <1>1, <1>4, <1>w
  <2>2. w - r1 = m1 /\ m1 <= STDIN_BUFSIZE /\ w = r1 + m1
    BY <2>1, <1>1, <1>7
  <2>3. QED
    BY <2>2, <1>2, <1>8, <1>w
<1>10. (got \o K!Unread)' =
          Stream(STDIN_BUFSIZE, got', stdin_buffer', p_rpos', p_wpos' - p_rpos')
  BY DEF K!Unread, K!Slot, Stream
<1>11. (got \o K!Unread)' = Stream(STDIN_BUFSIZE, Stream(STDIN_BUFSIZE, g, b, r, k), b, r1, m1)
  BY <1>2, <1>4, <1>8, <1>9, <1>10, Zenon
<1>12. Stream(STDIN_BUFSIZE, Stream(STDIN_BUFSIZE, g, b, r, k), b, r1, m1) =
          Stream(STDIN_BUFSIZE, g, b, r, m)
  <2>1. Moved(STDIN_BUFSIZE, g, b, r, m, k, r1, m1)
    BY <1>1, <1>7, ReadMoves, Zenon
  <2>2. QED
    BY <2>1 DEF Moved
<1>13. (got \o K!Unread)' = got \o K!Unread
  BY <1>1, <1>4, <1>11, <1>12, Zenon
<1>14. K!KeysAccounted' /\ lost' \subseteq 1..typed'
  BY <1>1, <1>2, <1>13, SameRange DEF K!KeysAccounted
<1>15. got' \in Seq(1..KEYS)
  <2>1. PICK h : h = Stream(STDIN_BUFSIZE, g, b, r, k)
    OBVIOUS
  <2>2. h \in Seq(Nat)
    <3>0. k \in Nat
      OBVIOUS
    <3>1. IsStream(STDIN_BUFSIZE, h, g, b, r, k)
      BY <3>0, <1>1, <2>1, StreamElements, Zenon
    <3>2. QED
      BY <3>1 DEF IsStream
  <2>3. PICK s : s = Stream(STDIN_BUFSIZE, h, b, r1, m1)
    OBVIOUS
  <2>4. IsStream(STDIN_BUFSIZE, s, h, b, r1, m1)
    BY <1>1, <2>2, <2>3, StreamElements
  <2>5. Range(s) = 1..typed \ lost
    BY <1>1, <1>4, <1>12, <2>1, <2>3, Zenon
  <2>6. s \in Seq(Nat) /\ Len(h) \in Nat /\ Len(s) = Len(h) + m1
        /\ \A i \in 1..Len(h) : s[i] = h[i]
    BY <2>4 DEF IsStream
  <2>7. ASSUME NEW i \in 1..Len(h)
        PROVE  h[i] \in 1..KEYS
    <3>1. i \in DOMAIN s
      BY <2>6
    <3>2. s[i] \in Range(s)
      BY <3>1 DEF Range
    <3>3. s[i] \in 1..typed
      BY <3>2, <2>5
    <3>4. s[i] = h[i] /\ typed \in Nat /\ KEYS \in Nat /\ typed <= KEYS
      BY <2>6, <1>1
    <3>5. QED
      BY <3>3, <3>4
  <2>8. h \in Seq(1..KEYS)
    <3>1. PICK j \in Nat : j = Len(h) /\ h \in [1..j -> Nat]
      BY <2>2
    <3>2. \A i \in 1..j : h[i] \in 1..KEYS
      BY <2>7, <3>1
    <3>3. PICK Elem : Elem = 1..KEYS
      OBVIOUS
    <3>4. h \in [1..j -> Elem]
      BY <3>1, <3>2, <3>3
    <3>5. h \in Seq(Elem)
      BY <3>4
    <3>6. QED
      BY <3>3, <3>5
  <2>9. QED
    BY <2>8, <2>1, <1>8
<1>16. K!Taken(a) # a => p_rpos' = p_wpos'
  <2>1. K!Taken(a) # a => m1 = 0
    BY <1>6, <1>7
  <2>2. QED
    BY <2>1, <1>8, <1>9
<1>17. p_rpos = p_wpos => p_rpos' = p_wpos'
  <2>1. SUFFICES ASSUME p_rpos = p_wpos PROVE p_rpos' = p_wpos'
    OBVIOUS
  <2>2. m = 0
    BY <2>1, <1>1, <1>4
  <2>a. m1 <= m
    BY <1>7
  <2>3. m1 = 0 /\ r1 + 0 = r1
    BY <2>2, <2>a
  <2>4. p_wpos' = r1 + 0
    BY <2>3, <1>9, Zenon
  <2>5. QED
    BY <2>3, <2>4, <1>8, Zenon
<1>18. p_rpos' \in Nat /\ p_wpos' \in p_rpos' .. p_rpos' + STDIN_BUFSIZE
  <2>1. PICK B \in Nat : B = STDIN_BUFSIZE
    BY <1>1
  <2>2. m1 <= B
    BY <2>1, <1>9
  <2>3. r1 + m1 \in r1 .. r1 + B
    BY <2>2
  <2>4. QED
    BY <2>1, <2>3, <1>8, <1>9
<1>19. K!Taken(a) \in 0..a
  BY <1>6, Zenon
<1>20. QED
  BY <1>14, <1>15, <1>16, <1>17, <1>18, <1>19, Zenon

\* wait_current_del takes the wait of y off the queue, and no other.
LEMMA DelFacts ==
    ASSUME KeysInv, NEW y \in Reader
    PROVE  /\ K!WaitCurrentDel(y) \in Seq(Reader) /\ IsInjective(K!WaitCurrentDel(y))
           /\ Range(K!WaitCurrentDel(y)) = Range(wait_queue) \ {y}
<1>1. wait_queue \in Seq(Reader) /\ IsInjective(wait_queue)
  BY SameRange DEF KeysInv, K!TypeOK, K!WaitersExact
<1>2. PICK s : s = wait_queue
  OBVIOUS
<1>3. CASE y \in Range(s)
  <2>1. \E i \in DOMAIN s : s[i] = y
    BY <1>3 DEF Range
  <2>2. PICK k : k = CHOOSE i \in DOMAIN s : s[i] = y
    OBVIOUS
  <2>3. k \in DOMAIN s /\ s[k] = y
    BY <2>1, <2>2
  <2>4. k \in 1..Len(s) /\ s \in Seq(Reader) /\ IsInjective(s)
    BY <1>1, <1>2, <2>3
  <2>5. RemoveAt(s, k) \in Seq(Reader)
    BY <2>4, RemoveAtElements
  <2>6. IsInjective(RemoveAt(s, k)) /\ Range(RemoveAt(s, k)) = Range(s) \ {y}
    BY <2>3, <2>4, RemoveAtRange
  <2>7. K!WaitCurrentDel(y) = RemoveAt(s, k)
    BY <1>2, <1>3, <2>2, SameRange, SameRemove DEF K!WaitCurrentDel
  <2>8. QED
    BY <2>5, <2>6, <2>7, <1>2
<1>4. CASE y \notin Range(s)
  BY <1>1, <1>2, <1>4, SameRange, SameRemove DEF K!WaitCurrentDel
<1>5. QED
  BY <1>3, <1>4

\* The loop of dev_stdin_read, entered with the wait of y off the queue.
LEMMA ReadStep ==
    ASSUME K!StdinAssumption, KeysInv, NEW y \in Reader, NEW a \in 0..LEN_MAX,
           NEW q \in Seq(Reader),
           IsInjective(q), Range(q) = Range(wait_queue) \ {y}, K!ReadLoop(y, a, q)
    PROVE  KeysInv'
<1>1. K!TypeOK /\ K!WaitersExact
  BY DEF KeysInv
<1>2. a \in Nat /\ LEN_MAX \in Nat
  BY DEF K!StdinAssumption
<1>3. /\ K!KeysAccounted' /\ lost' \subseteq 1..typed'
      /\ got' \in Seq(1..KEYS) /\ p_rpos' \in Nat
      /\ p_wpos' \in p_rpos' .. p_rpos' + STDIN_BUFSIZE
      /\ K!Taken(a) \in 0..a
      /\ K!Taken(a) # a => p_rpos' = p_wpos'
      /\ p_rpos = p_wpos => p_rpos' = p_wpos'
  BY <1>2, ReadKeepsKeys
<1>4. PICK k \in 0..a : k = K!Taken(a)
  BY <1>3
<1>5. /\ want' = [want EXCEPT ![y] = a - k]
      /\ UNCHANGED <<stdin_buffer, p_wpos, r_exiting, typed, lost>>
  BY <1>4 DEF K!ReadLoop
<1>6. a - k \in 0..LEN_MAX
  BY <1>2
<1>7. want' \in [Reader -> 0..LEN_MAX]
  BY <1>1, <1>5, <1>6 DEF K!TypeOK
<1>8. CASE k = a
  <2>1. /\ r_pc' = [r_pc EXCEPT ![y] = K!Returned(y)]
        /\ wait_queue' = q /\ wakeup_flags' = wakeup_flags
    BY <1>4, <1>8 DEF K!ReadLoop
  <2>2. K!Returned(y) \in {"user", "dead"}
    BY DEF K!Returned
  <2>3. r_pc' \in [Reader -> {"user", "asleep", "awake", "dead"}]
        /\ r_pc'[y] = K!Returned(y) /\ \A r \in Reader \ {y} : r_pc'[r] = r_pc[r]
    BY <2>1, <2>2, <1>1 DEF K!TypeOK
  <2>4. K!TypeOK'
    BY <2>1, <2>3, <1>1, <1>3, <1>5, <1>7 DEF K!TypeOK
  <2>5. K!WaitersExact'
    <3>1. ASSUME NEW r \in Reader, r_pc'[r] = "asleep"
          PROVE  p_rpos' = p_wpos' /\ r \in Range(wait_queue')
      BY <3>1, <2>1, <2>2, <2>3, <1>1, <1>3, SameRange DEF K!WaitersExact
    <3>2. ASSUME NEW r \in Range(wait_queue')
          PROVE  r_pc'[r] \in {"asleep", "awake"}
      <4>1. r \in Range(wait_queue) /\ r # y
        BY <3>2, <2>1
      <4>2. r \in Reader
        BY <4>1, <1>1 DEF K!TypeOK, Range
      <4>3. QED
        BY <4>1, <4>2, <2>3, <1>1, SameRange DEF K!WaitersExact
    <3>3. IsInjective(wait_queue')
      BY <2>1
    <3>4. QED
      BY <3>1, <3>2, <3>3, SameRange DEF K!WaitersExact
  <2>6. QED
    BY <2>4, <2>5, <1>3 DEF KeysInv
<1>9. CASE k # a
  <2>1. /\ r_pc' = [r_pc EXCEPT ![y] = "asleep"] /\ wait_queue' = Append(q, y)
        /\ wakeup_flags' = [wakeup_flags EXCEPT ![y] = "INTERRUPTED"]
    BY <1>4, <1>9 DEF K!ReadLoop
  <2>2. /\ wait_queue' \in Seq(Reader) /\ IsInjective(wait_queue')
        /\ Range(wait_queue') = Range(wait_queue) \cup {y}
    <3>1. y \notin Range(q)
      OBVIOUS
    <3>2. /\ Append(q, y) \in Seq(Reader) /\ Range(Append(q, y)) = Range(q) \cup {y}
          /\ IsInjective(Append(q, y))
      BY <3>1, AppendRange
    <3>3. QED
      BY <3>2, <2>1
  <2>3. /\ r_pc' \in [Reader -> {"user", "asleep", "awake", "dead"}]
        /\ wakeup_flags' \in [Reader -> {"INTERRUPTED", "KBD"}]
        /\ r_pc'[y] = "asleep" /\ \A r \in Reader \ {y} : r_pc'[r] = r_pc[r]
    BY <2>1, <1>1 DEF K!TypeOK
  <2>4. K!TypeOK'
    BY <2>2, <2>3, <1>1, <1>3, <1>5, <1>7 DEF K!TypeOK
  <2>5. K!WaitersExact'
    <3>1. p_rpos' = p_wpos'
      BY <1>3, <1>4, <1>9
    <3>2. ASSUME NEW r \in Reader, r_pc'[r] = "asleep"
          PROVE  r \in Range(wait_queue')
      BY <3>2, <2>2, <2>3, <1>1, SameRange DEF K!WaitersExact
    <3>3. ASSUME NEW r \in Range(wait_queue')
          PROVE  r_pc'[r] \in {"asleep", "awake"}
      <4>1. r \in Reader
        BY <3>3, <2>2, <1>1 DEF K!TypeOK, Range
      <4>2. QED
        BY <4>1, <3>3, <2>2, <2>3, <1>1, SameRange DEF K!WaitersExact
    <3>4. QED
      BY <3>1, <3>2, <3>3, <2>2, SameRange DEF K!WaitersExact
  <2>6. QED
    BY <2>4, <2>5, <1>3 DEF KeysInv
<1>10. QED
  BY <1>8, <1>9

\* dev_stdin_write wakes all that sleep.
LEMMA WriteStep ==
    ASSUME K!StdinAssumption, KeysInv, K!DevStdinWrite
    PROVE  KeysInv'
<1>1. K!TypeOK /\ K!WaitersExact
  BY DEF KeysInv
<1>2. K!KeysAccounted' /\ lost' \subseteq 1..typed'
  BY WriteKeepsKeys
<1>3. /\ STDIN_BUFSIZE \in Nat \ {0} /\ KEYS \in Nat /\ p_rpos \in Nat /\ p_wpos \in Nat
      /\ typed \in Nat /\ p_wpos - p_rpos \in 0..STDIN_BUFSIZE
  BY KeyFacts
<1>4. /\ typed < KEYS /\ typed' = typed + 1 /\ wait_queue' = <<>>
      /\ stdin_buffer' = [stdin_buffer EXCEPT ![p_wpos % STDIN_BUFSIZE] = typed']
      /\ p_wpos' = IF K!Room THEN p_wpos + 1 ELSE p_wpos
      /\ wakeup_flags' = [r \in Reader |-> IF r \in K!Woken THEN "KBD" ELSE wakeup_flags[r]]
      /\ r_pc' = [r \in Reader |-> IF r \in K!Woken THEN "awake" ELSE r_pc[r]]
      /\ UNCHANGED <<p_rpos, want, r_exiting, got>>
  BY DEF K!DevStdinWrite
<1>5. typed' \in 0..KEYS
  BY <1>3, <1>4
<1>6. stdin_buffer' \in [0..STDIN_BUFSIZE-1 -> 0..KEYS]
  BY <1>1, <1>4, <1>5 DEF K!TypeOK
<1>7. p_wpos' \in p_rpos .. p_rpos + STDIN_BUFSIZE
  <2>1. CASE K!Room
    <3>1. p_wpos - p_rpos < STDIN_BUFSIZE /\ p_wpos' = p_wpos + 1
      BY <2>1, <1>4 DEF K!Room
    <3>2. QED
      BY <3>1, <1>3
  <2>2. CASE ~K!Room
    <3>1. p_wpos' = p_wpos
      BY <2>2, <1>4
    <3>2. QED
      BY <3>1, <1>3
  <2>3. QED
    BY <2>1, <2>2
<1>8. lost' \subseteq 1..KEYS
  <2>1. 1..typed' \subseteq 1..KEYS
    BY <1>3, <1>5
  <2>2. QED
    BY <2>1, <1>2
<1>9. /\ r_pc' \in [Reader -> {"user", "asleep", "awake", "dead"}]
      /\ wakeup_flags' \in [Reader -> {"INTERRUPTED", "KBD"}]
  BY <1>1, <1>4 DEF K!TypeOK
<1>10. wait_queue' \in Seq(Reader) /\ Range(wait_queue') = {} /\ IsInjective(wait_queue')
  BY <1>4 DEF Range, IsInjective
<1>11. K!TypeOK'
  BY <1>1, <1>4, <1>5, <1>6, <1>7, <1>8, <1>9, <1>10 DEF K!TypeOK
<1>12. \A r \in Reader : r_pc'[r] # "asleep"
  BY <1>1, <1>4, SameRange DEF K!WaitersExact, K!Woken
<1>13. K!WaitersExact'
  BY <1>10, <1>12, SameRange DEF K!WaitersExact
<1>14. QED
  BY <1>2, <1>11, <1>13 DEF KeysInv

\* The keys do not change.
LEMMA SameKeys ==
    ASSUME KeysInv, UNCHANGED <<stdin_buffer, p_rpos, p_wpos, typed, got, lost>>
    PROVE  K!KeysAccounted' /\ lost' \subseteq 1..typed'
BY SameRange DEF KeysInv, K!KeysAccounted, K!Unread, K!Slot

\* A reader woken by a kill leaves and takes its wait along.
LEMMA LeaveStep ==
    ASSUME K!StdinAssumption, KeysInv, NEW y \in Reader, K!Interrupted(y)
    PROVE  KeysInv'
<1>1. K!TypeOK /\ K!WaitersExact
  BY DEF KeysInv
<1>2. /\ wait_queue' \in Seq(Reader) /\ IsInjective(wait_queue')
      /\ Range(wait_queue') = Range(wait_queue) \ {y}
  BY DelFacts DEF K!Interrupted
<1>3. /\ want' = [want EXCEPT ![y] = 0] /\ r_pc' = [r_pc EXCEPT ![y] = K!Returned(y)]
      /\ UNCHANGED <<stdin_buffer, p_rpos, p_wpos, wakeup_flags, r_exiting, typed, got, lost>>
  BY DEF K!Interrupted
<1>4. K!Returned(y) \in {"user", "dead"}
  BY DEF K!Returned
<1>5. /\ r_pc' \in [Reader -> {"user", "asleep", "awake", "dead"}]
      /\ r_pc'[y] \in {"user", "dead"} /\ \A r \in Reader \ {y} : r_pc'[r] = r_pc[r]
  BY <1>1, <1>3, <1>4 DEF K!TypeOK
<1>6. want' \in [Reader -> 0..LEN_MAX]
  <2>1. LEN_MAX \in Nat
    BY DEF K!StdinAssumption
  <2>2. 0 \in 0..LEN_MAX
    BY <2>1
  <2>3. QED
    BY <2>2, <1>1, <1>3 DEF K!TypeOK
<1>7. K!TypeOK'
  BY <1>1, <1>2, <1>3, <1>5, <1>6 DEF K!TypeOK
<1>8. K!WaitersExact'
  <2>1. ASSUME NEW r \in Reader, r_pc'[r] = "asleep"
        PROVE  p_rpos' = p_wpos' /\ r \in Range(wait_queue')
    BY <2>1, <1>1, <1>2, <1>3, <1>5, SameRange DEF K!WaitersExact
  <2>2. ASSUME NEW r \in Range(wait_queue')
        PROVE  r_pc'[r] \in {"asleep", "awake"}
    <3>1. r \in Reader
      BY <2>2, <1>1, <1>2 DEF K!TypeOK, Range
    <3>2. QED
      BY <2>2, <3>1, <1>1, <1>2, <1>5, SameRange DEF K!WaitersExact
  <2>3. QED
    BY <2>1, <2>2, <1>2, SameRange DEF K!WaitersExact
<1>9. QED
  BY <1>3, <1>7, <1>8, SameKeys DEF KeysInv

\* A reader that is killed is woken, and its wait stays on the queue until it runs.
LEMMA KillStep ==
    ASSUME KeysInv, NEW y \in Reader, K!Kill(y)
    PROVE  KeysInv'
<1>1. K!TypeOK /\ K!WaitersExact
  BY DEF KeysInv
<1>2. /\ r_exiting' = [r_exiting EXCEPT ![y] = TRUE] /\ r_pc' = [r_pc EXCEPT ![y] = "awake"]
      /\ UNCHANGED <<stdin_buffer, p_rpos, p_wpos, wait_queue, wakeup_flags, want, typed,
                     got, lost>>
  BY DEF K!Kill
<1>3. /\ r_pc' \in [Reader -> {"user", "asleep", "awake", "dead"}]
      /\ r_exiting' \in [Reader -> BOOLEAN]
      /\ r_pc'[y] = "awake" /\ \A r \in Reader \ {y} : r_pc'[r] = r_pc[r]
  BY <1>1, <1>2 DEF K!TypeOK
<1>4. K!TypeOK'
  BY <1>1, <1>2, <1>3 DEF K!TypeOK
<1>5. K!WaitersExact'
  <2>1. \A r \in Range(wait_queue) : r \in Reader
    BY <1>1 DEF K!TypeOK, Range
  <2>2. QED
    BY <2>1, <1>1, <1>2, <1>3, SameRange DEF K!WaitersExact
<1>6. QED
  BY <1>2, <1>4, <1>5, SameKeys DEF KeysInv

\* At first the buffer is empty, and nobody reads.
LEMMA KeysInvInit ==
    ASSUME K!StdinAssumption, K!StdinInit
    PROVE  KeysInv
<1>1. STDIN_BUFSIZE \in Nat \ {0} /\ LEN_MAX \in Nat /\ KEYS \in Nat
  BY DEF K!StdinAssumption
<1>2. K!TypeOK
  BY <1>1 DEF K!StdinInit, K!TypeOK
<1>3. K!WaitersExact
  BY SameRange DEF K!StdinInit, K!WaitersExact, Range, IsInjective
<1>4. K!KeysAccounted
  <2>1. 1..(p_wpos - p_rpos) = {} /\ 1..typed = {}
    BY DEF K!StdinInit
  <2>2. K!Unread = <<>> /\ got = <<>>
    BY <2>1 DEF K!StdinInit, K!Unread
  <2>3. got \o K!Unread = <<>>
    BY <2>2
  <2>4. Range(got \o K!Unread) = {} /\ IsInjective(got \o K!Unread)
    BY <2>3 DEF Range, IsInjective
  <2>5. [i \in 1..typed |-> i] = <<>>
    BY <2>1
  <2>6. QED
    BY <2>1, <2>3, <2>4, <2>5, SameRange DEF K!KeysAccounted
<1>5. lost \subseteq 1..typed
  BY DEF K!StdinInit
<1>6. QED
  BY <1>2, <1>3, <1>4, <1>5 DEF KeysInv

\* Every step of stdin preserves the invariant.
LEMMA KeysInvNext ==
    ASSUME K!StdinAssumption, KeysInv, [K!Next]_stdinvars
    PROVE  KeysInv'
<1>1. ASSUME NEW r \in Reader, NEW n \in 1..LEN_MAX, K!DevStdinRead(r, n)
      PROVE  KeysInv'
  <2>1. r_pc[r] = "user" /\ K!ReadLoop(r, n, wait_queue)
    BY <1>1 DEF K!DevStdinRead
  <2>2. /\ wait_queue \in Seq(Reader) /\ IsInjective(wait_queue)
        /\ Range(wait_queue) = Range(wait_queue) \ {r}
    BY <2>1, SameRange DEF KeysInv, K!TypeOK, K!WaitersExact
  <2>3. n \in 0..LEN_MAX
    BY DEF K!StdinAssumption
  <2>4. QED
    BY <2>1, <2>2, <2>3, ReadStep
<1>2. ASSUME NEW r \in Reader, K!TryAgain(r)
      PROVE  KeysInv'
  <2>1. K!ReadLoop(r, want[r], K!WaitCurrentDel(r)) /\ want[r] \in 0..LEN_MAX
    BY <1>2 DEF K!TryAgain, KeysInv, K!TypeOK
  <2>2. QED
    BY <2>1, DelFacts, ReadStep
<1>3. CASE UNCHANGED stdinvars
  <2>1. K!KeysAccounted' /\ lost' \subseteq 1..typed'
    BY <1>3, SameKeys DEF stdinvars
  <2>2. QED
    BY <1>3, <2>1, SameRange DEF stdinvars, KeysInv, K!TypeOK, K!WaitersExact
<1>4. QED
  BY <1>1, <1>2, <1>3, WriteStep, LeaveStep, KillStep DEF K!Next

-----------------------------------------------------------------------------
(* The philosophers with semaphores.                                       *)

SemaLabel == {"think", "hungry", "take_up", "take_down", "eat",
    "put_left", "put_right", "put_up"}

SemaTypes ==
    /\ s_value \in [S!SemId -> Nat]
    /\ s_queue \in [S!SemId -> Seq(S!Phil)]
    /\ s_asleep \subseteq S!Phil
    /\ state_sema \in [S!Phil -> {"THINKING", "HUNGRY", "EATING"}]
    /\ s_iter \in [S!Phil -> Nat]
    /\ s_pc \in [S!Phil -> SemaLabel]

\* Who waits for mutex is asleep before its critical section; nobody else but i waits
\* for s[i].
SemaQueues ==
    /\ IsInjective(s_queue[S!mutex])
    /\ \A i \in Range(s_queue[S!mutex]) : i \in s_asleep /\ s_pc[i] \in {"hungry", "put_left"}
    /\ \A i \in S!Phil : s_queue[i] = IF i \in s_asleep /\ s_pc[i] = "eat" THEN <<i>> ELSE <<>>
    /\ \A i \in s_asleep : s_pc[i] \in {"hungry", "put_left", "eat"}

\* The unit of s[i] is there when i has been let eat and has not taken it; i gets past
\* its down only when it has been let eat.
SemaForks ==
    \A i \in S!Phil :
        /\ s_pc[i] \in {"think", "hungry", "put_right", "put_up"} =>
              state_sema[i] = "THINKING" /\ s_value[i] = 0
        /\ s_pc[i] \in {"take_up", "take_down"} =>
              \/ state_sema[i] = "HUNGRY" /\ s_value[i] = 0
              \/ state_sema[i] = "EATING" /\ s_value[i] = 1
        /\ s_pc[i] = "eat" =>
              /\ s_value[i] = 0
              /\ state_sema[i] = IF i \in s_asleep THEN "HUNGRY" ELSE "EATING"
        /\ s_pc[i] = "put_left" => state_sema[i] = "EATING" /\ s_value[i] = 0

\* No two neighbours are let eat.
SemaApart == \A i \in S!Phil : state_sema[i] = "EATING" => state_sema[S!LEFT(i)] # "EATING"

\* The inductive invariant.
SemaInv == SemaTypes /\ SemaQueues /\ SemaForks /\ SemaApart

-----------------------------------------------------------------------------
\* Left and right neighbours are inverse to each other, and nobody is its own.
LEMMA Sides ==
    ASSUME S!TableAssumption, NEW i \in S!Phil
    PROVE  /\ S!LEFT(i) \in S!Phil /\ S!RIGHT(i) \in S!Phil
           /\ S!LEFT(S!RIGHT(i)) = i /\ S!RIGHT(S!LEFT(i)) = i
           /\ S!LEFT(i) # i /\ S!RIGHT(i) # i
<1>1. ASSUME NEW j \in S!Phil
      PROVE  S!LEFT(j) = IF j = 0 THEN SEATS - 1 ELSE j - 1
  BY DEF S!TableAssumption, S!Phil, S!LEFT
<1>2. ASSUME NEW j \in S!Phil
      PROVE  S!RIGHT(j) = IF j = SEATS - 1 THEN 0 ELSE j + 1
  BY DEF S!TableAssumption, S!Phil, S!RIGHT
<1>3. QED
  BY <1>1, <1>2 DEF S!TableAssumption, S!Phil

\* The semaphores are mutex and one for each philosopher.
LEMMA SemaIds ==
    ASSUME S!TableAssumption
    PROVE  S!mutex \in S!SemId /\ S!mutex \notin S!Phil /\ S!Phil \subseteq S!SemId
BY DEF S!TableAssumption, S!mutex, S!Phil, S!SemId

\* One element in a queue, and its tail.
LEMMA SingleWait ==
    ASSUME NEW i
    PROVE  /\ <<i>> # <<>> /\ Tail(<<i>>) = <<>> /\ Head(<<i>>) = i
           /\ Append(<<>>, i) = <<i>>
OBVIOUS

\* At first everybody thinks.
LEMMA SemaInit ==
    ASSUME S!TableAssumption, S!PhilInit
    PROVE  SemaInv
<1>1. /\ s_value = [s \in S!SemId |-> IF s = S!mutex THEN 1 ELSE 0]
      /\ s_queue = [s \in S!SemId |-> <<>>] /\ s_asleep = {}
  BY DEF S!PhilInit, S!SemInit
<1>2. SemaTypes
  BY <1>1 DEF S!PhilInit, SemaTypes, SemaLabel
<1>3. SemaQueues
  <2>1. /\ s_queue[S!mutex] = <<>>
        /\ Range(s_queue[S!mutex]) = {}
        /\ IsInjective(s_queue[S!mutex])
    BY <1>1, SemaIds DEF Range, IsInjective
  <2>2. QED
    BY <2>1, <1>1, SemaIds DEF S!PhilInit, SemaQueues
<1>4. SemaForks /\ SemaApart
  BY <1>1, SemaIds, Sides DEF S!PhilInit, SemaForks, SemaApart
<1>5. QED
  BY <1>2, <1>3, <1>4 DEF SemaInv

\* Entering a critical section: i takes mutex, or sleeps for it at l.
LEMMA SemaEnters ==
    ASSUME S!TableAssumption, SemaInv, NEW i \in S!Phil, NEW l,
           \/ s_pc[i] = "think" /\ l = "hungry"
           \/ s_pc[i] = "eat" /\ l = "put_left",
           i \notin s_asleep, S!Down(i, S!mutex), s_pc' = [s_pc EXCEPT ![i] = l],
           state_sema' = state_sema, s_iter' \in [S!Phil -> Nat]
    PROVE  SemaInv'
<1>1. SemaTypes /\ SemaQueues /\ SemaForks /\ SemaApart
  BY DEF SemaInv
<1>2. /\ s_pc'[i] = l
      /\ (\A j \in S!Phil \ {i} : s_pc'[j] = s_pc[j])
      /\ s_pc' \in [S!Phil -> SemaLabel]
  BY <1>1 DEF SemaTypes, SemaLabel
<1>3. /\ s_value' \in [S!SemId -> Nat] /\ \A j \in S!Phil : s_value'[j] = s_value[j]
      /\ s_queue' \in [S!SemId -> Seq(S!Phil)] /\ \A j \in S!Phil : s_queue'[j] = s_queue[j]
      /\ \A j \in S!Phil \ {i} : j \in s_asleep' <=> j \in s_asleep
      /\ s_asleep' \subseteq S!Phil
      /\ IsInjective(s_queue'[S!mutex])
      /\ \/ i \notin s_asleep' /\ s_queue'[S!mutex] = s_queue[S!mutex]
         \/ i \in s_asleep' /\ Range(s_queue'[S!mutex]) = Range(s_queue[S!mutex]) \cup {i}
  <2>1. CASE s_value[S!mutex] > 0
    <3>1. /\ s_value' = [s_value EXCEPT ![S!mutex] = @ - 1]
          /\ s_queue' = s_queue
          /\ s_asleep' = s_asleep
      BY <2>1 DEF S!Down
    <3>2. s_value[S!mutex] \in Nat /\ s_value[S!mutex] - 1 \in Nat
      BY <2>1, <1>1, SemaIds DEF SemaTypes
    <3>3. s_value' \in [S!SemId -> Nat] /\ \A j \in S!Phil : s_value'[j] = s_value[j]
      BY <3>1, <3>2, <1>1, SemaIds DEF SemaTypes
    <3>4. QED
      BY <3>1, <3>3, <1>1 DEF SemaTypes, SemaQueues
  <2>2. CASE ~(s_value[S!mutex] > 0)
    <3>1. /\ s_queue' = [s_queue EXCEPT ![S!mutex] = Append(@, i)]
          /\ s_asleep' = s_asleep \cup {i} /\ s_value' = s_value
      BY <2>2 DEF S!Down
    <3>2. /\ s_queue[S!mutex] \in Seq(S!Phil)
          /\ i \notin Range(s_queue[S!mutex])
          /\ IsInjective(s_queue[S!mutex])
      BY <1>1, SemaIds DEF SemaTypes, SemaQueues
    <3>3. /\ Append(s_queue[S!mutex], i) \in Seq(S!Phil)
          /\ Range(Append(s_queue[S!mutex], i)) = Range(s_queue[S!mutex]) \cup {i}
          /\ IsInjective(Append(s_queue[S!mutex], i))
      BY <3>2, AppendRange
    <3>4. QED
      BY <3>1, <3>3, <1>1, SemaIds DEF SemaTypes
  <2>3. QED
    BY <2>1, <2>2
<1>4. SemaTypes'
  BY <1>1, <1>2, <1>3 DEF SemaTypes
<1>5. SemaQueues'
  <2>1. \A j \in Range(s_queue'[S!mutex]) :
           j \in s_asleep' /\ s_pc'[j] \in {"hungry", "put_left"}
    <3>1. \A j \in Range(s_queue[S!mutex]) : j \in S!Phil /\ j # i
      BY <1>1 DEF SemaQueues, SemaTypes
    <3>2. QED
      BY <3>1, <1>1, <1>2, <1>3 DEF SemaQueues
  <2>2. \A j \in S!Phil :
           s_queue'[j] = IF j \in s_asleep' /\ s_pc'[j] = "eat" THEN <<j>> ELSE <<>>
    BY <1>1, <1>2, <1>3 DEF SemaQueues
  <2>3. \A j \in s_asleep' : s_pc'[j] \in {"hungry", "put_left", "eat"}
    BY <1>1, <1>2, <1>3 DEF SemaQueues
  <2>4. QED
    BY <2>1, <2>2, <2>3, <1>3 DEF SemaQueues
<1>6. SemaForks'
  BY <1>1, <1>2, <1>3 DEF SemaForks
<1>7. SemaApart'
  BY <1>1 DEF SemaApart
<1>8. QED
  BY <1>4, <1>5, <1>6, <1>7 DEF SemaInv

\* Leaving a critical section: the first waiter for mutex is in its own.
LEMMA SemaLeaves ==
    ASSUME S!TableAssumption, SemaInv, NEW i \in S!Phil, NEW l,
           \/ s_pc[i] = "take_up" /\ l = "take_down"
           \/ s_pc[i] = "put_up" /\ l = "think",
           i \notin s_asleep, S!Up(S!mutex), s_pc' = [s_pc EXCEPT ![i] = l],
           state_sema' = state_sema, s_iter' = s_iter
    PROVE  SemaInv'
<1>1. SemaTypes /\ SemaQueues /\ SemaForks /\ SemaApart
  BY DEF SemaInv
<1>2. /\ s_pc'[i] = l
      /\ (\A j \in S!Phil \ {i} : s_pc'[j] = s_pc[j])
      /\ s_pc' \in [S!Phil -> SemaLabel]
  BY <1>1 DEF SemaTypes, SemaLabel
<1>3. /\ s_value' \in [S!SemId -> Nat] /\ \A j \in S!Phil : s_value'[j] = s_value[j]
      /\ s_queue' \in [S!SemId -> Seq(S!Phil)] /\ \A j \in S!Phil : s_queue'[j] = s_queue[j]
      /\ s_asleep' \subseteq s_asleep
      /\ IsInjective(s_queue'[S!mutex])
      /\ \A j \in Range(s_queue'[S!mutex]) : j \in Range(s_queue[S!mutex]) /\ j \in s_asleep'
      /\ \A j \in S!Phil : s_pc[j] = "eat" => (j \in s_asleep' <=> j \in s_asleep)
  <2>1. CASE s_queue[S!mutex] = <<>>
    <3>1. /\ s_value' = [s_value EXCEPT ![S!mutex] = @ + 1]
          /\ s_queue' = s_queue
          /\ s_asleep' = s_asleep
      BY <2>1 DEF S!Up
    <3>2. s_value' \in [S!SemId -> Nat] /\ \A j \in S!Phil : s_value'[j] = s_value[j]
      BY <3>1, <1>1, SemaIds DEF SemaTypes
    <3>3. QED
      BY <3>1, <3>2, <1>1 DEF SemaTypes, SemaQueues
  <2>2. CASE s_queue[S!mutex] # <<>>
    <3>1. /\ s_queue' = [s_queue EXCEPT ![S!mutex] = Tail(@)]
          /\ s_asleep' = s_asleep \ {Head(s_queue[S!mutex])} /\ s_value' = s_value
      BY <2>2 DEF S!Up
    <3>2. s_queue[S!mutex] \in Seq(S!Phil) /\ IsInjective(s_queue[S!mutex])
      BY <1>1, SemaIds DEF SemaTypes, SemaQueues
    <3>3. /\ Tail(s_queue[S!mutex]) \in Seq(S!Phil) /\ IsInjective(Tail(s_queue[S!mutex]))
          /\ Head(s_queue[S!mutex]) \in Range(s_queue[S!mutex])
          /\ Range(Tail(s_queue[S!mutex])) = Range(s_queue[S!mutex]) \ {Head(s_queue[S!mutex])}
      BY <2>2, <3>2, TailRange
    <3>4. s_pc[Head(s_queue[S!mutex])] # "eat"
      BY <3>3, <1>1 DEF SemaQueues
    <3>5. s_queue'[S!mutex] = Tail(s_queue[S!mutex])
      BY <3>1, <1>1, SemaIds DEF SemaTypes
    <3>6. \A j \in Range(s_queue'[S!mutex]) :
             j \in Range(s_queue[S!mutex]) /\ j \in s_asleep'
      BY <3>1, <3>3, <3>5, <1>1 DEF SemaQueues
    <3>7. /\ s_queue' \in [S!SemId -> Seq(S!Phil)]
          /\ \A j \in S!Phil : s_queue'[j] = s_queue[j]
      BY <3>1, <3>3, <1>1, SemaIds DEF SemaTypes
    <3>8. QED
      BY <3>1, <3>3, <3>4, <3>5, <3>6, <3>7, <1>1 DEF SemaTypes
  <2>3. QED
    BY <2>1, <2>2
<1>4. SemaTypes'
  BY <1>1, <1>2, <1>3 DEF SemaTypes
<1>5. SemaQueues'
  <2>1. \A j \in Range(s_queue'[S!mutex]) :
           j \in s_asleep' /\ s_pc'[j] \in {"hungry", "put_left"}
    BY <1>1, <1>2, <1>3 DEF SemaQueues, SemaTypes
  <2>2. \A j \in S!Phil :
           s_queue'[j] = IF j \in s_asleep' /\ s_pc'[j] = "eat" THEN <<j>> ELSE <<>>
    BY <1>1, <1>2, <1>3 DEF SemaQueues
  <2>3. \A j \in s_asleep' : s_pc'[j] \in {"hungry", "put_left", "eat"}
    BY <1>1, <1>2, <1>3 DEF SemaQueues, SemaTypes
  <2>4. QED
    BY <2>1, <2>2, <2>3, <1>3 DEF SemaQueues
<1>6. SemaForks'
  BY <1>1, <1>2, <1>3 DEF SemaForks
<1>7. SemaApart'
  BY <1>1 DEF SemaApart
<1>8. QED
  BY <1>4, <1>5, <1>6, <1>7 DEF SemaInv

\* down(&s[i]): i has been let eat and takes the unit, or it sleeps until it is.
LEMMA SemaTakes ==
    ASSUME S!TableAssumption, SemaInv, NEW i \in S!Phil, S!TakeForks(i)
    PROVE  SemaInv'
<1>1. SemaTypes /\ SemaQueues /\ SemaForks /\ SemaApart
  BY DEF SemaInv
<1>2. /\ s_pc[i] = "take_down" /\ i \notin s_asleep /\ S!Down(i, i)
      /\ state_sema' = state_sema /\ s_iter' = s_iter
  BY DEF S!TakeForks, S!At
<1>3. /\ s_pc'[i] = "eat"
      /\ (\A j \in S!Phil \ {i} : s_pc'[j] = s_pc[j])
      /\ s_pc' \in [S!Phil -> SemaLabel]
  BY <1>1 DEF SemaTypes, SemaLabel, S!TakeForks, S!Goto
<1>4. /\ s_value' \in [S!SemId -> Nat] /\ \A j \in S!Phil \ {i} : s_value'[j] = s_value[j]
      /\ s_queue' \in [S!SemId -> Seq(S!Phil)]
      /\ \A j \in S!SemId \ {i} : s_queue'[j] = s_queue[j]
      /\ s_asleep' \subseteq S!Phil
      /\ \A j \in S!Phil \ {i} : j \in s_asleep' <=> j \in s_asleep
      /\ s_value'[i] = 0
      /\ \/ state_sema[i] = "EATING" /\ i \notin s_asleep' /\ s_queue'[i] = <<>>
         \/ state_sema[i] = "HUNGRY" /\ i \in s_asleep' /\ s_queue'[i] = <<i>>
  <2>1. s_queue[i] = <<>> /\ i \in S!SemId
    BY <1>1, <1>2, SemaIds DEF SemaQueues
  <2>2. CASE s_value[i] > 0
    <3>1. s_value[i] = 1 /\ state_sema[i] = "EATING"
      BY <1>1, <1>2, <2>2 DEF SemaForks
    <3>2. /\ s_value' = [s_value EXCEPT ![i] = @ - 1]
          /\ s_queue' = s_queue
          /\ s_asleep' = s_asleep
      BY <1>2, <2>2 DEF S!Down
    <3>3. QED
      BY <3>1, <3>2, <2>1, <1>1, <1>2, SemaIds DEF SemaTypes
  <2>3. CASE ~(s_value[i] > 0)
    <3>1. s_value[i] = 0 /\ state_sema[i] = "HUNGRY"
      BY <1>1, <1>2, <2>3 DEF SemaForks
    <3>2. /\ s_queue' = [s_queue EXCEPT ![i] = Append(@, i)]
          /\ s_asleep' = s_asleep \cup {i} /\ s_value' = s_value
      BY <1>2, <2>3 DEF S!Down
    <3>3. Append(s_queue[i], i) = <<i>> /\ <<i>> \in Seq(S!Phil)
      BY <2>1
    <3>4. QED
      BY <3>1, <3>2, <3>3, <2>1, <1>1, SemaIds DEF SemaTypes
  <2>4. QED
    BY <2>2, <2>3
<1>5. SemaTypes'
  BY <1>1, <1>2, <1>3, <1>4 DEF SemaTypes
<1>6. SemaQueues'
  <2>1. s_queue'[S!mutex] = s_queue[S!mutex]
    BY <1>4, SemaIds
  <2>2. \A j \in Range(s_queue[S!mutex]) : j \in S!Phil /\ j # i
    BY <1>1, <1>2 DEF SemaQueues, SemaTypes
  <2>3. \A j \in S!Phil :
           s_queue'[j] = IF j \in s_asleep' /\ s_pc'[j] = "eat" THEN <<j>> ELSE <<>>
    BY <1>1, <1>3, <1>4, SemaIds DEF SemaQueues
  <2>4. QED
    BY <2>1, <2>2, <2>3, <1>1, <1>3, <1>4 DEF SemaQueues
<1>7. SemaForks'
  BY <1>1, <1>2, <1>3, <1>4 DEF SemaForks
<1>8. SemaApart'
  BY <1>1, <1>2 DEF SemaApart
<1>9. QED
  BY <1>5, <1>6, <1>7, <1>8 DEF SemaInv

\* What phi_test_sema(j) does when the states are st, after i has set its own: j is
\* let eat, and woken if it waits for it, or nothing happens.
LEMMA SemaTestEffect ==
    ASSUME S!TableAssumption, SemaTypes, SemaQueues, NEW j \in S!Phil,
           NEW st \in [S!Phil -> {"THINKING", "HUNGRY", "EATING"}], S!Test(st, j),
           \A k \in S!Phil : st[k] = "EATING" => st[S!LEFT(k)] # "EATING"
    PROVE  /\ s_value' \in [S!SemId -> Nat] /\ \A k \in S!Phil \ {j} : s_value'[k] = s_value[k]
           /\ s_queue' \in [S!SemId -> Seq(S!Phil)]
           /\ \A k \in S!SemId \ {j} : s_queue'[k] = s_queue[k]
           /\ s_asleep' \subseteq s_asleep
           /\ \A k \in S!Phil \ {j} : k \in s_asleep' <=> k \in s_asleep
           /\ state_sema' \in [S!Phil -> {"THINKING", "HUNGRY", "EATING"}]
           /\ \A k \in S!Phil \ {j} : state_sema'[k] = st[k]
           /\ \/ /\ state_sema'[j] = st[j] /\ s_value'[j] = s_value[j]
                 /\ s_queue'[j] = s_queue[j] /\ (j \in s_asleep' <=> j \in s_asleep)
              \/ /\ st[j] = "HUNGRY" /\ state_sema'[j] = "EATING"
                 /\ \/ /\ s_queue[j] = <<>> /\ s_queue'[j] = <<>> /\ s_value'[j] = s_value[j] + 1
                       /\ (j \in s_asleep' <=> j \in s_asleep)
                    \/ /\ j \in s_asleep /\ s_pc[j] = "eat" /\ j \notin s_asleep'
                       /\ s_queue'[j] = <<>> /\ s_value'[j] = s_value[j]
           /\ SemaApart'
<1>1. j \in S!SemId /\ S!Phil \subseteq S!SemId
  BY SemaIds
<1>2. CASE ~S!CanEat(st, j)
  <2>1. state_sema' = st /\ s_value' = s_value /\ s_queue' = s_queue /\ s_asleep' = s_asleep
    BY <1>2 DEF S!Test
  <2>2. QED
    BY <2>1, <1>1 DEF SemaTypes, SemaApart
<1>3. CASE S!CanEat(st, j)
  <2>1. state_sema' = [st EXCEPT ![j] = "EATING"] /\ S!Up(j)
    BY <1>3 DEF S!Test
  <2>2. /\ state_sema' \in [S!Phil -> {"THINKING", "HUNGRY", "EATING"}]
        /\ state_sema'[j] = "EATING" /\ \A k \in S!Phil \ {j} : state_sema'[k] = st[k]
    BY <2>1
  <2>3. st[j] = "HUNGRY" /\ st[S!LEFT(j)] # "EATING" /\ st[S!RIGHT(j)] # "EATING"
    BY <1>3 DEF S!CanEat
  <2>4. SemaApart'
    <3>1. SUFFICES ASSUME NEW k \in S!Phil, state_sema'[k] = "EATING"
                   PROVE  state_sema'[S!LEFT(k)] # "EATING"
      BY DEF SemaApart
    <3>2. S!LEFT(k) \in S!Phil /\ S!LEFT(k) # k /\ S!RIGHT(S!LEFT(k)) = k
      BY Sides
    <3>3. CASE k = j
      BY <3>2, <3>3, <2>2, <2>3
    <3>4. CASE k # j /\ S!LEFT(k) = j
      BY <3>1, <3>2, <3>4, <2>2, <2>3
    <3>5. CASE k # j /\ S!LEFT(k) # j
      BY <3>1, <3>2, <3>5, <2>2
    <3>6. QED
      BY <3>3, <3>4, <3>5
  <2>5. CASE s_queue[j] = <<>>
    <3>1. /\ s_value' = [s_value EXCEPT ![j] = @ + 1]
          /\ s_queue' = s_queue
          /\ s_asleep' = s_asleep
      BY <2>1, <2>5 DEF S!Up
    <3>2. QED
      BY <3>1, <2>2, <2>3, <2>4, <2>5, <1>1 DEF SemaTypes
  <2>6. CASE s_queue[j] # <<>>
    <3>1. s_queue[j] = <<j>> /\ j \in s_asleep /\ s_pc[j] = "eat"
      BY <2>6 DEF SemaQueues
    <3>2. Tail(s_queue[j]) = <<>> /\ Head(s_queue[j]) = j /\ <<>> \in Seq(S!Phil)
      BY <3>1
    <3>3. /\ s_queue' = [s_queue EXCEPT ![j] = <<>>] /\ s_asleep' = s_asleep \ {j}
          /\ s_value' = s_value
      BY <2>1, <2>6, <3>2 DEF S!Up
    <3>4. QED
      BY <3>1, <3>2, <3>3, <2>2, <2>3, <2>4, <1>1 DEF SemaTypes
  <2>7. QED
    BY <2>5, <2>6
<1>4. QED
  BY <1>2, <1>3

\* The steps that test: i, in its critical section, becomes hungry and tests itself,
\* or puts down its forks and tests its neighbours.
LEMMA SemaTests ==
    ASSUME S!TableAssumption, SemaInv, NEW i \in S!Phil, NEW j \in S!Phil, NEW new, NEW l,
           \/ s_pc[i] = "hungry" /\ new = "HUNGRY" /\ l = "take_up" /\ j = i
           \/ s_pc[i] = "put_left" /\ new = "THINKING" /\ l = "put_right" /\ j # i
           \/ s_pc[i] = "put_right" /\ new = "THINKING" /\ l = "put_up" /\ j # i,
           i \notin s_asleep, S!Test([state_sema EXCEPT ![i] = new], j),
           s_pc' = [s_pc EXCEPT ![i] = l], s_iter' = s_iter
    PROVE  SemaInv'
<1>1. SemaTypes /\ SemaQueues /\ SemaForks /\ SemaApart
  BY DEF SemaInv
<1>2. /\ s_pc'[i] = l
      /\ (\A k \in S!Phil \ {i} : s_pc'[k] = s_pc[k])
      /\ s_pc' \in [S!Phil -> SemaLabel]
  BY <1>1 DEF SemaTypes, SemaLabel
<1>3. PICK st : st = [state_sema EXCEPT ![i] = new]
  OBVIOUS
<1>4. /\ st \in [S!Phil -> {"THINKING", "HUNGRY", "EATING"}]
      /\ st[i] = new /\ new # "EATING" /\ \A k \in S!Phil \ {i} : st[k] = state_sema[k]
  BY <1>1, <1>3 DEF SemaTypes
<1>5. ASSUME NEW k \in S!Phil, st[k] = "EATING" PROVE st[S!LEFT(k)] # "EATING"
  <2>1. S!LEFT(k) \in S!Phil
    BY Sides
  <2>2. QED
    BY <2>1, <1>1, <1>4, <1>5 DEF SemaApart
<1>6. /\ s_value' \in [S!SemId -> Nat] /\ \A k \in S!Phil \ {j} : s_value'[k] = s_value[k]
      /\ s_queue' \in [S!SemId -> Seq(S!Phil)]
      /\ \A k \in S!SemId \ {j} : s_queue'[k] = s_queue[k]
      /\ s_asleep' \subseteq s_asleep
      /\ \A k \in S!Phil \ {j} : k \in s_asleep' <=> k \in s_asleep
      /\ state_sema' \in [S!Phil -> {"THINKING", "HUNGRY", "EATING"}]
      /\ \A k \in S!Phil \ {j} : state_sema'[k] = st[k]
      /\ \/ /\ state_sema'[j] = st[j] /\ s_value'[j] = s_value[j]
            /\ s_queue'[j] = s_queue[j] /\ (j \in s_asleep' <=> j \in s_asleep)
         \/ /\ st[j] = "HUNGRY" /\ state_sema'[j] = "EATING"
            /\ \/ /\ s_queue[j] = <<>> /\ s_queue'[j] = <<>> /\ s_value'[j] = s_value[j] + 1
                  /\ (j \in s_asleep' <=> j \in s_asleep)
               \/ /\ j \in s_asleep /\ s_pc[j] = "eat" /\ j \notin s_asleep'
                  /\ s_queue'[j] = <<>> /\ s_value'[j] = s_value[j]
      /\ SemaApart'
  BY <1>1, <1>3, <1>4, <1>5, SemaTestEffect
<1>7. SemaTypes'
  BY <1>1, <1>2, <1>6 DEF SemaTypes
<1>8. l # "eat" /\ s_pc[i] # "eat"
  OBVIOUS
<1>9. st[j] = "HUNGRY" /\ j # i =>
           s_pc[j] \in {"take_up", "take_down"} \/ (s_pc[j] = "eat" /\ j \in s_asleep)
  BY <1>1, <1>4 DEF SemaForks, SemaTypes, SemaLabel
<1>10. s_queue'[S!mutex] = s_queue[S!mutex]
  BY <1>6, SemaIds
<1>11. SemaQueues'
  <2>1. \A k \in Range(s_queue[S!mutex]) : k \in S!Phil /\ k # i /\ k \in s_asleep'
    <3>1. \A k \in Range(s_queue[S!mutex]) :
             k \in S!Phil /\ k \in s_asleep /\ k # i /\ s_pc[k] # "eat"
      BY <1>1 DEF SemaQueues, SemaTypes
    <3>2. \A k \in S!Phil : k \in s_asleep /\ s_pc[k] # "eat" => k \in s_asleep'
      BY <1>6
    <3>3. QED
      BY <3>1, <3>2
  <2>2. \A k \in S!Phil :
           s_queue'[k] = IF k \in s_asleep' /\ s_pc'[k] = "eat" THEN <<k>> ELSE <<>>
    <3>1. ASSUME NEW k \in S!Phil, k # j
          PROVE  s_queue'[k] = IF k \in s_asleep' /\ s_pc'[k] = "eat" THEN <<k>> ELSE <<>>
      BY <3>1, <1>1, <1>2, <1>6, <1>8, SemaIds DEF SemaQueues
    <3>2. s_queue'[j] = IF j \in s_asleep' /\ s_pc'[j] = "eat" THEN <<j>> ELSE <<>>
      <4>1. /\ s_queue[j] = IF j \in s_asleep /\ s_pc[j] = "eat" THEN <<j>> ELSE <<>>
            /\ s_pc'[j] = "eat" <=> s_pc[j] = "eat"
            /\ <<j>> # <<>>
        BY <1>1, <1>2, <1>8, SingleWait DEF SemaQueues
      <4>2. QED
        BY <4>1, <1>6
    <3>3. QED
      BY <3>1, <3>2
  <2>3. \A k \in s_asleep' : s_pc'[k] \in {"hungry", "put_left", "eat"}
    BY <1>1, <1>2, <1>6 DEF SemaQueues, SemaTypes
  <2>4. \A k \in Range(s_queue[S!mutex]) : s_pc'[k] \in {"hungry", "put_left"}
    BY <2>1, <1>1, <1>2 DEF SemaQueues
  <2>5. QED
    BY <2>1, <2>2, <2>3, <2>4, <1>1, <1>10 DEF SemaQueues
<1>12. SemaForks'
  <2>1. s_queue[j] = IF j \in s_asleep /\ s_pc[j] = "eat" THEN <<j>> ELSE <<>>
    BY <1>1 DEF SemaQueues
  <2>2. <<j>> # <<>>
    BY SingleWait
  <2>3. CASE j = i
    BY <2>1, <2>3, <1>1, <1>2, <1>4, <1>6 DEF SemaForks
  <2>4. CASE j # i
    <3>1. ASSUME NEW k \in S!Phil \ {j}
          PROVE  /\ s_value'[k] = s_value[k] /\ (k \in s_asleep' <=> k \in s_asleep)
                 /\ k # i => s_pc'[k] = s_pc[k] /\ state_sema'[k] = state_sema[k]
                 /\ k = i => s_pc'[k] = l /\ state_sema'[k] = new
      BY <1>2, <1>4, <1>6
    <3>2. ASSUME NEW k \in S!Phil \ {j}
          PROVE  /\ s_pc'[k] \in {"think", "hungry", "put_right", "put_up"} =>
                       state_sema'[k] = "THINKING" /\ s_value'[k] = 0
                 /\ s_pc'[k] \in {"take_up", "take_down"} =>
                       \/ state_sema'[k] = "HUNGRY" /\ s_value'[k] = 0
                       \/ state_sema'[k] = "EATING" /\ s_value'[k] = 1
                 /\ s_pc'[k] = "eat" =>
                       /\ s_value'[k] = 0
                       /\ state_sema'[k] = IF k \in s_asleep' THEN "HUNGRY" ELSE "EATING"
                 /\ s_pc'[k] = "put_left" => state_sema'[k] = "EATING" /\ s_value'[k] = 0
      BY <3>1, <2>4, <1>1 DEF SemaForks
    <3>3. /\ s_pc'[j] \in {"think", "hungry", "put_right", "put_up"} =>
                state_sema'[j] = "THINKING" /\ s_value'[j] = 0
          /\ s_pc'[j] \in {"take_up", "take_down"} =>
                \/ state_sema'[j] = "HUNGRY" /\ s_value'[j] = 0
                \/ state_sema'[j] = "EATING" /\ s_value'[j] = 1
          /\ s_pc'[j] = "eat" =>
                /\ s_value'[j] = 0
                /\ state_sema'[j] = IF j \in s_asleep' THEN "HUNGRY" ELSE "EATING"
          /\ s_pc'[j] = "put_left" => state_sema'[j] = "EATING" /\ s_value'[j] = 0
      BY <2>1, <2>2, <2>4, <1>1, <1>2, <1>4, <1>6, <1>9 DEF SemaForks
    <3>4. QED
      BY <3>2, <3>3 DEF SemaForks
  <2>5. QED
    BY <2>3, <2>4
<1>13. QED
  BY <1>6, <1>7, <1>11, <1>12 DEF SemaInv

\* Every step preserves the invariant.
LEMMA SemaNext ==
    ASSUME S!TableAssumption, SemaInv, [S!Next]_semavars
    PROVE  SemaInv'
<1>1. SemaTypes
  BY DEF SemaInv
<1>2. ASSUME NEW i \in S!Phil, S!Step(i) PROVE SemaInv'
  <2>1. CASE S!TakeEnter(i)
    <3>1. s_iter' \in [S!Phil -> Nat]
      BY <2>1, <1>1 DEF S!TakeEnter, SemaTypes
    <3>2. QED
      BY <2>1, <3>1, SemaEnters DEF S!TakeEnter, S!At, S!Goto
  <2>2. CASE S!Hungry(i)
    BY <2>2, SemaTests DEF S!Hungry, S!At, S!Goto
  <2>3. CASE S!TakeLeave(i)
    BY <2>3, SemaLeaves DEF S!TakeLeave, S!At, S!Goto
  <2>4. CASE S!TakeForks(i)
    BY <2>4, SemaTakes
  <2>5. CASE S!PutEnter(i)
    BY <2>5, <1>1, SemaEnters DEF S!PutEnter, S!At, S!Goto, SemaTypes
  <2>6. CASE S!PutLeft(i)
    BY <2>6, Sides, SemaTests DEF S!PutLeft, S!At, S!Goto
  <2>7. CASE S!PutRight(i)
    <3>1. s_pc[i] = "put_right" /\ i \notin s_asleep /\ state_sema[i] = "THINKING"
      BY <2>7 DEF S!PutRight, S!At, SemaInv, SemaForks
    <3>2. state_sema = [state_sema EXCEPT ![i] = "THINKING"]
      BY <3>1, <1>1 DEF SemaTypes
    <3>3. QED
      BY <2>7, <3>1, <3>2, Sides, SemaTests DEF S!PutRight, S!Goto
  <2>8. CASE S!PutLeave(i)
    BY <2>8, SemaLeaves DEF S!PutLeave, S!At, S!Goto
  <2>9. QED
    BY <1>2, <2>1, <2>2, <2>3, <2>4, <2>5, <2>6, <2>7, <2>8 DEF S!Step
<1>3. CASE UNCHANGED semavars
  BY <1>3 DEF semavars, SemaInv, SemaTypes, SemaQueues, SemaForks, SemaApart
<1>4. QED
  BY <1>2, <1>3 DEF S!Next

\* Who eats is recorded as EATING, and no two neighbours are.
LEMMA SemaExcludes ==
    ASSUME SemaInv
    PROVE  S!NeighboursExclude
<1>1. SUFFICES ASSUME NEW i \in S!Eating
               PROVE  state_sema[i] = "EATING" /\ S!LEFT(i) \notin S!Eating
  BY DEF S!NeighboursExclude
<1>2. \A k \in S!Eating : k \in S!Phil /\ state_sema[k] = "EATING"
  BY <1>1 DEF SemaInv, SemaForks, S!Eating, S!At
<1>3. QED
  BY <1>1, <1>2 DEF SemaInv, SemaApart

-----------------------------------------------------------------------------
(* The composition.  The proofs about each table are instantiated with the *)
(* table's variables; a step of SyncNext is a step of that table, or       *)
(* leaves it alone.                                                        *)

MP == INSTANCE PhilosophersCV_proofs WITH
        N <- CV_SEATS, TIMES <- CV_MEALS, value <- m_value, queue <- m_queue,
        asleep <- m_asleep, iter <- m_iter, pc <- m_pc

\* What the numbers of philosophers, readers and keys are assumed to be.
LEMMA Assumptions ==
    S!TableAssumption /\ MP!TableAssumption /\ K!StdinAssumption
BY PartsAssumption DEF M!TableAssumption, MP!TableAssumption

\* The table with the monitor begins as its proofs have it begin.
LEMMA MonInits ==
    ASSUME M!PhilInit
    PROVE  MP!PhilInit
BY DEF M!PhilInit, MP!PhilInit, M!MonInit, MP!MonInit, M!SemInit, MP!SemInit, M!MonSem,
    MP!MonSem, M!Phil, MP!Phil, M!mutex, MP!mutex, M!next, MP!next, M!cvsem, MP!cvsem

\* A step at the table with the monitor is one its proofs speak of.
LEMMA MonSteps ==
    ASSUME NEW i, M!Step(i)
    PROVE  MP!Step(i)
<1>1. \A t, s : (M!Down(t, s) <=> MP!Down(t, s)) /\ (M!Up(s) <=> MP!Up(s))
  BY DEF M!Down, MP!Down, M!Up, MP!Up
<1>2. \A t, l : (M!At(t, l) <=> MP!At(t, l)) /\ (M!Goto(t, l) <=> MP!Goto(t, l))
  BY DEF M!At, MP!At, M!Goto, MP!Goto
<1>3. /\ M!mutex = MP!mutex /\ M!next = MP!next /\ \A c : M!cvsem(c) = MP!cvsem(c)
      /\ M!Successor = MP!Successor
  BY DEF M!mutex, MP!mutex, M!next, MP!next, M!cvsem, MP!cvsem, M!Successor,
      MP!Successor
<1>4. \A t, c, l : M!CondSignal(t, c, l) <=> MP!CondSignal(t, c, l)
  BY <1>1, <1>2, <1>3 DEF M!CondSignal, MP!CondSignal
<1>5. \A st, t, j, l : M!Test(st, t, j, l) <=> MP!Test(st, t, j, l)
  BY <1>2, <1>4 DEF M!Test, MP!Test, M!CanEat, MP!CanEat, M!LEFT, MP!LEFT, M!RIGHT,
      MP!RIGHT
<1>6. CASE M!Hungry(i) \/ M!PutLeft(i) \/ M!PutRight(i)
  BY <1>2, <1>5, <1>6 DEF M!Hungry, MP!Hungry, M!PutLeft, MP!PutLeft, M!PutRight,
      MP!PutRight, MP!Step, M!LEFT, MP!LEFT, M!RIGHT, MP!RIGHT
<1>7. CASE M!TakeEnter(i) \/ M!TakeLeave(i) \/ M!PutEnter(i) \/ M!PutLeave(i)
  BY <1>1, <1>2, <1>3, <1>7 DEF M!TakeEnter, MP!TakeEnter, M!TakeLeave, MP!TakeLeave,
      M!PutEnter, MP!PutEnter, M!PutLeave, MP!PutLeave, M!Enter, MP!Enter, M!Leave,
      MP!Leave, M!table, MP!table, MP!Step
<1>8. CASE M!WaitIfHungry(i)
  BY <1>1, <1>2, <1>3, <1>8 DEF M!WaitIfHungry, MP!WaitIfHungry, M!CondWait,
      MP!CondWait, M!table, MP!table, MP!Step
<1>9. CASE M!MonStep(i)
  BY <1>1, <1>2, <1>3, <1>9 DEF M!MonStep, MP!MonStep, M!CondWaitDown, MP!CondWaitDown,
      M!CondWaitEnd, MP!CondWaitEnd, M!CondSignalDown, MP!CondSignalDown,
      M!CondSignalEnd, MP!CondSignalEnd, M!table, MP!table, MP!Step
<1>10. QED
  BY <1>6, <1>7, <1>8, <1>9 DEF M!Step

\* What holds of every part of the composition.
SyncInv == SemaInv /\ MP!IInv /\ KeysInv

\* A step of one part leaves the others alone.
LEMMA SyncStep ==
    ASSUME SyncInv, [SyncNext]_syncvars
    PROVE  SyncInv'
<1>1. [S!Next]_semavars
  BY DEF SyncNext, Only, SemaStep, MonStep, syncvars, S!Next
<1>2. [MP!Next]_(MP!vars)
  <2>1. CASE \E i \in M!Phil : MonStep(i)
    <3>1. PICK i \in M!Phil : M!Step(i)
      BY <2>1 DEF MonStep
    <3>2. MP!Step(i)
      BY <3>1, MonSteps
    <3>3. QED
      BY <3>1, <3>2 DEF MP!Next, M!Phil, MP!Phil
  <2>2. CASE UNCHANGED monvars
    BY <2>2 DEF monvars, MP!vars
  <2>3. QED
    BY <2>1, <2>2 DEF SyncNext, Only, SemaStep, syncvars
<1>3. [K!Next]_stdinvars
  BY DEF SyncNext, Only, SemaStep, MonStep, syncvars
<1>4. SemaInv'
  BY <1>1, Assumptions, SemaNext DEF SyncInv
<1>5. MP!IInv'
  BY <1>2, Assumptions, MP!NextIInv DEF SyncInv
<1>6. KeysInv'
  BY <1>3, Assumptions, KeysInvNext DEF SyncInv
<1>7. QED
  BY <1>4, <1>5, <1>6 DEF SyncInv

\* The invariants of the parts hold together in every reachable state.
THEOREM PartsHold == SyncSpec => []SyncInv
<1>1. SyncInit => SyncInv
  <2>1. SUFFICES ASSUME SyncInit PROVE SemaInv /\ MP!IInv /\ KeysInv
    BY DEF SyncInv
  <2>2. S!PhilInit /\ M!PhilInit /\ K!StdinInit
    BY <2>1 DEF SyncInit
  <2>3. SemaInv
    BY <2>2, Assumptions, SemaInit
  <2>4. MP!IInv
    BY <2>2, MonInits, Assumptions, MP!InitIInv
  <2>5. KeysInv
    BY <2>2, Assumptions, KeysInvInit
  <2>6. QED
    BY <2>3, <2>4, <2>5
<1>2. SyncInv /\ [SyncNext]_syncvars => SyncInv'
  BY SyncStep
<1>3. QED
  BY <1>1, <1>2, PTL DEF SyncSpec

\* At neither table, of any size, do two neighbours eat at once, and who eats has it
\* recorded: the tests of phi_test_sema and phi_test_condvar see the states they need.
THEOREM TablesExclude == SyncSpec => []NeighboursExclude
<1>1. SyncInv => NeighboursExclude
  <2>1. SUFFICES ASSUME SyncInv PROVE S!NeighboursExclude /\ M!NeighboursExclude
    BY DEF NeighboursExclude
  <2>2. S!NeighboursExclude
    BY <2>1, SemaExcludes DEF SyncInv
  <2>3. MP!NeighboursExclude
    BY <2>1, MP!IInvExcludes DEF SyncInv
  <2>4. M!NeighboursExclude
    BY <2>3 DEF M!NeighboursExclude, MP!NeighboursExclude, M!Eating, MP!Eating, M!At,
        MP!At, M!Phil, MP!Phil, M!LEFT, MP!LEFT
  <2>5. QED
    BY <2>2, <2>4
<1>2. QED
  BY <1>1, PartsHold, PTL

\* "Only one process at a time may be be active in a monitor" (monitor.h), however
\* many use it: who signals gives the monitor away before the thread it wakes runs.
THEOREM MonitorExcludes == SyncSpec => []OneActive
<1>1. SyncInv => OneActive
  <2>1. SUFFICES ASSUME SyncInv PROVE M!OneActive
    BY DEF OneActive
  <2>2. MP!OneActive
    BY <2>1, MP!IInvOneActive DEF SyncInv
  <2>3. M!Cardinality(M!Active) = MP!Cardinality(MP!Active)
    BY Zenon DEF M!Active, MP!Active, M!Phil, MP!Phil, M!Cardinality, MP!Cardinality
  <2>4. QED
    BY <2>2, <2>3 DEF M!OneActive, MP!OneActive
<1>2. QED
  BY <1>1, PartsHold, PTL

\* No cond_signal is lost between the up and the down of the cond_wait it is for.
THEOREM NoSignalLost == SyncSpec => []SignalReaches
<1>1. SyncInv => SignalReaches
  <2>1. SUFFICES ASSUME SyncInv PROVE M!SignalReaches
    BY DEF SignalReaches
  <2>2. MP!SignalReaches
    BY <2>1, Assumptions, MP!IInvSignals DEF SyncInv
  <2>3. QED
    BY <2>2 DEF M!SignalReaches, MP!SignalReaches, M!Phil, MP!Phil, M!cvsem, MP!cvsem
<1>2. QED
  BY <1>1, PartsHold, PTL

\* dev_stdin_write and dev_stdin_read hand every key out once, and in the order typed
\* as long as none is overwritten, for any size of the buffer, length of the reads and
\* number of readers, also when readers are killed.
THEOREM KeysInOrder == SyncSpec => []KeysAccounted
<1>1. SyncInv => KeysAccounted
  BY DEF SyncInv, KeysInv, KeysAccounted
<1>2. QED
  BY <1>1, PartsHold, PTL

\* dev_stdin_read leaves nobody asleep beside a key, and no wait_t on the queue of a
\* call that has returned.
THEOREM NobodySleepsBesideKey == SyncSpec => []WaitersExact
<1>1. SyncInv => WaitersExact
  BY DEF SyncInv, KeysInv, WaitersExact
<1>2. QED
  BY <1>1, PartsHold, PTL
=============================================================================

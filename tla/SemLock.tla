------------------------------- MODULE SemLock ------------------------------
(***************************************************************************)
(* One semaphore in use, the way lock_mm, lock_files, lock_sfs_fs and      *)
(* lock_sin use theirs: down, a critical section, up.  While a thread waits *)
(* it may be killed.  Steps of threads interleave freely, which includes   *)
(* every schedule of the kernel, where a thread runs on until it sleeps.   *)
(***************************************************************************)
EXTENDS Semaphore, FiniteSets

CONSTANT PermitCount     \* sem_init(sem, PermitCount); 1 for the locks

ASSUME LockAssumption ==
    /\ IsFiniteSet(Thread)
    /\ PermitCount \in Nat \ {0}
    /\ \E s \in Sem : Sem = {s}

VARIABLES
    pc,        \* "out", or "in": past the call of down
    exiting    \* PF_EXITING

vars == <<semvars, pc, exiting>>

sem == CHOOSE s \in Sem : TRUE

LockInit ==
    /\ SemInit([s \in Sem |-> PermitCount])
    /\ pc = [t \in Thread |-> "out"]
    /\ exiting = [t \in Thread |-> FALSE]

\* The threads for which down has returned.
Holders == {t \in Thread : pc[t] = "in" /\ t \notin asleep}

Lock(t) ==
    /\ pc[t] = "out"
    /\ Down(t, sem)
    /\ pc' = [pc EXCEPT ![t] = "in"]
    /\ UNCHANGED exiting

TryLock(t) ==
    /\ pc[t] = "out"
    /\ TryDown(sem)
    /\ pc' = [pc EXCEPT ![t] = "in"]
    /\ UNCHANGED exiting

Unlock(t) ==
    /\ t \in Holders
    /\ Up(sem)
    /\ pc' = [pc EXCEPT ![t] = "out"]
    /\ UNCHANGED exiting

KillThread(t) ==
    /\ ~exiting[t]
    /\ exiting' = [exiting EXCEPT ![t] = TRUE]
    /\ Kill(t)
    /\ UNCHANGED pc

Next == \E t \in Thread : Lock(t) \/ TryLock(t) \/ Unlock(t) \/ KillThread(t)

Spec == LockInit /\ [][Next]_vars

\* Whoever holds the lock leaves its critical section at last.
FairSpec == Spec /\ \A t \in Thread : WF_vars(Unlock(t))

-----------------------------------------------------------------------------
(* Properties.                                                             *)

\* The type invariant.
TypeOK ==
    /\ value \in [Sem -> Nat]
    /\ queue \in [Sem -> Seq(Thread)]
    /\ asleep \subseteq Thread
    /\ pc \in [Thread -> {"out", "in"}]
    /\ exiting \in [Thread -> BOOLEAN]

\* Units are neither lost nor made: what is not free is held, whoever was woken,
\* handed the unit, or killed in between.
UnitsConserved == value[sem] + Cardinality(Holders) = PermitCount

\* A sleeper is on the queue once, and there only while no unit is free: nobody
\* sleeps next to a free unit, and a newcomer cannot overtake the queue.
QueueExact ==
    /\ IsInjective(queue[sem])
    /\ Range(queue[sem]) = asleep
    /\ asleep \subseteq {t \in Thread : pc[t] = "in"}
    /\ value[sem] > 0 => queue[sem] = <<>>

\* Threads are let in in the order they queued up.
FirstComeFirstServed ==
    [][\A i, j \in DOMAIN queue[sem] :
          i < j /\ queue[sem][j] \notin asleep' => queue[sem][i] \notin asleep']_vars

\* Every thread that calls down gets through, killed or not.
WaiterGetsIn == \A t \in Thread : t \in asleep ~> t \in Holders

Abstract == INSTANCE Permits WITH holders <- Holders

\* The semaphore implements the permits.
ImplementsPermits == Abstract!PermitsSpec
=============================================================================

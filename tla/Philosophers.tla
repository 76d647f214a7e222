---------------------------- MODULE Philosophers ----------------------------
(***************************************************************************)
(* philosopher_using_semaphore of kern/sync/check_sync.c: N philosophers   *)
(* over the kernel semaphores, each a kernel thread.  Steps are cut at the *)
(* calls of down and up, and interleave freely.                            *)
(***************************************************************************)
EXTENDS Integers

CONSTANTS N, TIMES

TableAssumption == N \in Nat /\ N >= 2 /\ TIMES \in Nat \ {0}

Phil == 0..(N - 1)

mutex == N            \* the semaphores: mutex, and s[i] under the number i
SemId == 0..N

VARIABLES value, queue, asleep, state_sema, iter, pc

INSTANCE Semaphore WITH Thread <- Phil, Sem <- SemId

vars == <<value, queue, asleep, state_sema, iter, pc>>

LEFT(i) == (i - 1 + N) % N
RIGHT(i) == (i + 1) % N

PhilInit ==
    /\ SemInit([s \in SemId |-> IF s = mutex THEN 1 ELSE 0])
    /\ state_sema = [i \in Phil |-> "THINKING"]
    /\ iter = [i \in Phil |-> 0]
    /\ pc = [i \in Phil |-> "think"]

At(i, l) == pc[i] = l /\ i \notin asleep

Goto(i, l) == pc' = [pc EXCEPT ![i] = l]

\* Mutant: the right neighbour is not looked at.
CanEatLeft(st, i) == st[i] = "HUNGRY" /\ st[LEFT(i)] # "EATING"

\* The test of phi_test_sema, when the states are st.
CanEat(st, i) == st[i] = "HUNGRY" /\ st[LEFT(i)] # "EATING" /\ st[RIGHT(i)] # "EATING"

\* phi_test_sema(i), when the states are st.
Test(st, i) ==
    IF CanEat(st, i)
    THEN state_sema' = [st EXCEPT ![i] = "EATING"] /\ Up(i)
    ELSE state_sema' = st /\ UNCHANGED <<value, queue, asleep>>

\* down(&mutex) of phi_take_forks_sema, and of phi_put_forks_sema.
TakeEnter(i) ==
    /\ At(i, "think") /\ iter[i] < TIMES
    /\ iter' = [iter EXCEPT ![i] = @ + 1]
    /\ Down(i, mutex) /\ Goto(i, "hungry") /\ UNCHANGED state_sema

Hungry(i) ==
    /\ At(i, "hungry")
    /\ Test([state_sema EXCEPT ![i] = "HUNGRY"], i)
    /\ Goto(i, "take_up") /\ UNCHANGED iter

TakeLeave(i) ==
    /\ At(i, "take_up")
    /\ Up(mutex) /\ Goto(i, "take_down") /\ UNCHANGED <<state_sema, iter>>

\* down(&s[i]): blocks unless the forks were had at once.
TakeForks(i) ==
    /\ At(i, "take_down")
    /\ Down(i, i) /\ Goto(i, "eat") /\ UNCHANGED <<state_sema, iter>>

PutEnter(i) ==
    /\ At(i, "eat")
    /\ Down(i, mutex) /\ Goto(i, "put_left") /\ UNCHANGED <<state_sema, iter>>

PutLeft(i) ==
    /\ At(i, "put_left")
    /\ Test([state_sema EXCEPT ![i] = "THINKING"], LEFT(i))
    /\ Goto(i, "put_right") /\ UNCHANGED iter

PutRight(i) ==
    /\ At(i, "put_right")
    /\ Test(state_sema, RIGHT(i))
    /\ Goto(i, "put_up") /\ UNCHANGED iter

PutLeave(i) ==
    /\ At(i, "put_up")
    /\ Up(mutex) /\ Goto(i, "think") /\ UNCHANGED <<state_sema, iter>>

Step(i) ==
    \/ TakeEnter(i) \/ Hungry(i) \/ TakeLeave(i) \/ TakeForks(i)
    \/ PutEnter(i) \/ PutLeft(i) \/ PutRight(i) \/ PutLeave(i)

\* The thread has returned.
Quit(i) == pc[i] = "think" /\ iter[i] = TIMES

Next == \E i \in Phil : Step(i)

\* Round robin gives every runnable thread the processor.
Spec == PhilInit /\ [][Next]_vars /\ \A i \in Phil : WF_vars(Step(i))

-----------------------------------------------------------------------------
(* Properties.                                                             *)

\* The philosophers that are at the table with both forks.
Eating == {i \in Phil : At(i, "eat") \/ (pc[i] = "put_left" /\ i \in asleep)}

\* Neighbours never eat at the same time, and who eats has it recorded.
NeighboursExclude ==
    \A i \in Eating :
        /\ state_sema[i] = "EATING"
        /\ LEFT(i) # i => LEFT(i) \notin Eating

\* Every philosopher eats TIMES times and quits: nobody is left waiting for a
\* neighbour that has already gone, and nobody deadlocks.
EveryoneQuits == <>(\A i \in Phil : Quit(i))
=============================================================================

--------------------------- MODULE PhilosophersCV ---------------------------
(***************************************************************************)
(* philosopher_using_condvar of kern/sync/check_sync.c: the philosophers   *)
(* whose forks are kept by a monitor, one condition variable each.         *)
(***************************************************************************)
EXTENDS Integers, FiniteSets

CONSTANTS N, TIMES

TableAssumption == N \in Nat /\ N >= 2 /\ TIMES \in Nat \ {0}

Phil == 0..(N - 1)

VARIABLES value, queue, asleep, next_count, count, pc, cvp, state_condvar, iter, ret

INSTANCE Monitor WITH Thread <- Phil, CV <- Phil

vars == <<value, queue, asleep, next_count, count, pc, cvp, state_condvar, iter, ret>>
table == <<state_condvar, iter>>

LEFT(i) == (i - 1 + N) % N
RIGHT(i) == (i + 1) % N

PhilInit ==
    /\ MonInit
    /\ pc = [i \in Phil |-> "think"]
    /\ cvp = [i \in Phil |-> i]
    /\ state_condvar = [i \in Phil |-> "THINKING"]
    /\ iter = [i \in Phil |-> 0]
    /\ ret = [i \in Phil |-> "think"]    \* where the phi_test_condvar in progress returns

CanEat(st, i) == st[i] = "HUNGRY" /\ st[LEFT(i)] # "EATING" /\ st[RIGHT(i)] # "EATING"

\* phi_test_condvar(j), called by i when the states are st; it returns to l.
Test(st, i, j, l) ==
    /\ IF CanEat(st, j)
       THEN state_condvar' = [st EXCEPT ![j] = "EATING"] /\ CondSignal(i, j, l)
       ELSE /\ state_condvar' = st
            /\ Goto(i, l)
            /\ UNCHANGED <<value, queue, asleep, next_count, count, cvp>>
    /\ ret' = [ret EXCEPT ![i] = l]

TakeEnter(i) ==
    /\ At(i, "think") /\ iter[i] < TIMES
    /\ iter' = [iter EXCEPT ![i] = @ + 1]
    /\ Enter(i, "hungry")
    /\ UNCHANGED <<state_condvar, ret>>

Hungry(i) ==
    /\ At(i, "hungry")
    /\ Test([state_condvar EXCEPT ![i] = "HUNGRY"], i, i, "tested")
    /\ UNCHANGED iter

\* if (state_condvar[i] == HUNGRY) cond_wait(&mtp->cv[i])
WaitIfHungry(i) ==
    /\ At(i, "tested")
    /\ IF state_condvar[i] = "HUNGRY" THEN CondWait(i, i)
       ELSE Goto(i, "take_leave") /\ UNCHANGED <<value, queue, asleep, next_count, count, cvp>>
    /\ UNCHANGED <<table, ret>>

TakeLeave(i) == At(i, "take_leave") /\ Leave(i, "eat") /\ UNCHANGED <<table, ret>>

PutEnter(i) == At(i, "eat") /\ Enter(i, "put_left") /\ UNCHANGED <<table, ret>>

PutLeft(i) ==
    /\ At(i, "put_left")
    /\ Test([state_condvar EXCEPT ![i] = "THINKING"], i, LEFT(i), "put_right")
    /\ UNCHANGED iter

PutRight(i) ==
    /\ At(i, "put_right")
    /\ Test(state_condvar, i, RIGHT(i), "put_leave")
    /\ UNCHANGED iter

PutLeave(i) == At(i, "put_leave") /\ Leave(i, "think") /\ UNCHANGED <<table, ret>>

MonStep(i) ==
    /\ \/ CondWaitDown(i)
       \/ CondWaitEnd(i, "take_leave")
       \/ CondSignalDown(i)
       \/ CondSignalEnd(i, ret[i])
    /\ UNCHANGED <<table, ret>>

Step(i) ==
    \/ TakeEnter(i) \/ Hungry(i) \/ WaitIfHungry(i) \/ TakeLeave(i)
    \/ PutEnter(i) \/ PutLeft(i) \/ PutRight(i) \/ PutLeave(i)
    \/ MonStep(i)

\* The thread has returned.
Quit(i) == pc[i] = "think" /\ iter[i] = TIMES

Next == \E i \in Phil : Step(i)

\* Round robin gives every runnable thread the processor.
Spec == PhilInit /\ [][Next]_vars /\ \A i \in Phil : WF_vars(Step(i))

-----------------------------------------------------------------------------
(* Properties.                                                             *)

\* Threads that run the body of a monitor procedure: not those about to block,
\* in cond_signal for next or in cond_wait for the condition.
Active == {i \in Phil : /\ i \notin asleep
                        /\ pc[i] \notin {"think", "eat", "cond_signal", "cond_wait"}}

\* "Only one process at a time may be be active in a monitor" (monitor.h).
OneActive == Cardinality(Active) <= 1

\* A signal is not lost: a philosopher that was let eat while it waits has been
\* passed the unit of its condition variable.
SignalReaches ==
    \A i \in Phil :
        count[i] > 0 /\ state_condvar[i] = "EATING" =>
            \/ i \notin asleep /\ pc[i] = "cond_waited"
            \/ pc[i] = "cond_wait" /\ value[cvsem(i)] = 1

\* Neighbours never eat at the same time.
Eating == {i \in Phil : At(i, "eat") \/ (pc[i] = "put_left" /\ i \in asleep)}

NeighboursExclude ==
    \A i \in Eating :
        /\ state_condvar[i] = "EATING"
        /\ LEFT(i) # i => LEFT(i) \notin Eating

\* Every philosopher eats TIMES times and quits.
EveryoneQuits == <>(\A i \in Phil : Quit(i))
=============================================================================

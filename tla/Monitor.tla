------------------------------ MODULE Monitor -------------------------------
(***************************************************************************)
(* The monitor of kern/sync/monitor.c: Hoare-style condition variables     *)
(* over the kernel semaphores mutex, next and cv[c].sem.  Steps are cut at *)
(* the calls of down and up; pc[t] is the point a thread has reached.      *)
(* A client module says where a thread goes after the last step of each    *)
(* procedure, by the argument l.                                           *)
(***************************************************************************)
EXTENDS Integers

CONSTANTS Thread, CV      \* CV: the numbers 0..num_cv-1 of the condition variables

\* The semaphores of the monitor.
mutex == <<"mutex">>
next == <<"next">>
cvsem(c) == <<"cv", c>>
MonSem == {mutex, next} \cup {cvsem(c) : c \in CV}

VARIABLES
    value, queue, asleep,
    next_count,     \* signallers waiting on next
    count,          \* cv[c].count: threads waiting on c
    pc,
    cvp             \* the condition variable a thread waits on or signals

INSTANCE Semaphore WITH Sem <- MonSem

\* monitor_init
MonInit ==
    /\ SemInit([s \in MonSem |-> IF s = mutex THEN 1 ELSE 0])
    /\ next_count = 0
    /\ count = [c \in CV |-> 0]

At(t, l) == pc[t] = l /\ t \notin asleep

Goto(t, l) == pc' = [pc EXCEPT ![t] = l]

\* The first line of a monitor procedure: down(&mtp->mutex).
Enter(t, l) ==
    /\ Down(t, mutex)
    /\ Goto(t, l)
    /\ UNCHANGED <<next_count, count, cvp>>

\* Mutant: the signaller that waits is forgotten.
SuccessorMutex == mutex

\* Leaving, or waiting, lets a signaller go on before anybody new gets in.
Successor == IF next_count > 0 THEN next ELSE mutex

Leave(t, l) ==
    /\ Up(Successor)
    /\ Goto(t, l)
    /\ UNCHANGED <<next_count, count, cvp>>

\* cond_wait(cv[c]): count++, the monitor is given up, ...
CondWait(t, c) ==
    /\ count' = [count EXCEPT ![c] = @ + 1]
    /\ Up(Successor)
    /\ cvp' = [cvp EXCEPT ![t] = c]
    /\ Goto(t, "cond_wait")
    /\ UNCHANGED next_count

\* ... down(&cvp->sem), ...
CondWaitDown(t) ==
    /\ At(t, "cond_wait")
    /\ Down(t, cvsem(cvp[t]))
    /\ Goto(t, "cond_waited")
    /\ UNCHANGED <<next_count, count, cvp>>

\* ... count--.
CondWaitEnd(t, l) ==
    /\ At(t, "cond_waited")
    /\ count' = [count EXCEPT ![cvp[t]] = @ - 1]
    /\ Goto(t, l)
    /\ UNCHANGED <<value, queue, asleep, next_count, cvp>>

\* Mutant: the signaller goes on beside the thread it has woken.
CondSignalOn(t, c, l) ==
    IF count[c] > 0
    THEN Up(cvsem(c)) /\ Goto(t, l) /\ UNCHANGED <<count, cvp, next_count>>
    ELSE Goto(t, l) /\ UNCHANGED <<value, queue, asleep, next_count, count, cvp>>

\* Mutant: a single waiter does not count.
CondSignalOff(t, c, l) ==
    IF count[c] > 1
    THEN /\ next_count' = next_count + 1
         /\ Up(cvsem(c))
         /\ Goto(t, "cond_signal")
         /\ UNCHANGED <<count, cvp>>
    ELSE Goto(t, l) /\ UNCHANGED <<value, queue, asleep, next_count, count, cvp>>

\* cond_signal(cv[c]) with nobody waiting does nothing; otherwise next_count++,
\* up(&cvp->sem), ...
CondSignal(t, c, l) ==
    IF count[c] > 0
    THEN /\ next_count' = next_count + 1
         /\ Up(cvsem(c))
         /\ Goto(t, "cond_signal")
         /\ UNCHANGED <<count, cvp>>
    ELSE /\ Goto(t, l)
         /\ UNCHANGED <<value, queue, asleep, next_count, count, cvp>>

\* ... down(&mtp->next), ...
CondSignalDown(t) ==
    /\ At(t, "cond_signal")
    /\ Down(t, next)
    /\ Goto(t, "cond_signalled")
    /\ UNCHANGED <<next_count, count, cvp>>

\* ... next_count--.
CondSignalEnd(t, l) ==
    /\ At(t, "cond_signalled")
    /\ next_count' = next_count - 1
    /\ Goto(t, l)
    /\ UNCHANGED <<value, queue, asleep, count, cvp>>
=============================================================================

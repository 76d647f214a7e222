----------------------------- MODULE Semaphore ------------------------------
(***************************************************************************)
(* The kernel semaphores of kern/sync/sem.c over the wait queues of        *)
(* kern/sync/wait.c.  A thread in asleep is PROC_SLEEPING with wait_state  *)
(* WT_KSEM, its wait_t on the queue of the semaphore; any other thread may *)
(* run.  Each of up, down and try_down does its work with interrupts off,  *)
(* in one step; down has returned once its caller is not asleep.           *)
(***************************************************************************)
EXTENDS Integers, SequencesExt

CONSTANTS Thread, Sem

VARIABLES
    value,    \* sem->value
    queue,    \* sem->wait_queue, the threads in the order they came
    asleep

semvars == <<value, queue, asleep>>

\* sem_init
SemInit(v) ==
    /\ value = v
    /\ queue = [s \in Sem |-> <<>>]
    /\ asleep = {}

\* Mutant: __down sleeps without wait_queue_add.
DownUnqueued(t, s) ==
    IF value[s] > 0
    THEN value' = [value EXCEPT ![s] = @ - 1] /\ UNCHANGED <<queue, asleep>>
    ELSE asleep' = asleep \cup {t} /\ UNCHANGED <<value, queue>>

\* __down: take a unit, or wait_current_set and schedule.
Down(t, s) ==
    IF value[s] > 0
    THEN /\ value' = [value EXCEPT ![s] = @ - 1]
         /\ UNCHANGED <<queue, asleep>>
    ELSE /\ queue' = [queue EXCEPT ![s] = Append(@, t)]
         /\ asleep' = asleep \cup {t}
         /\ UNCHANGED value

\* Mutant: __up wakes the last waiter.
UpLast(s) ==
    IF queue[s] = <<>>
    THEN value' = [value EXCEPT ![s] = @ + 1] /\ UNCHANGED <<queue, asleep>>
    ELSE /\ queue' = [queue EXCEPT ![s] = Front(@)]
         /\ asleep' = asleep \ {Last(queue[s])}
         /\ UNCHANGED value

\* Mutant: __up counts the unit and wakes nobody.
UpSilent(s) == value' = [value EXCEPT ![s] = @ + 1] /\ UNCHANGED <<queue, asleep>>

\* __up: the unit goes to the first waiter, who is woken with WT_KSEM and finds
\* itself off the queue; it goes to the counter only if nobody waits.
Up(s) ==
    IF queue[s] = <<>>
    THEN /\ value' = [value EXCEPT ![s] = @ + 1]
         /\ UNCHANGED <<queue, asleep>>
    ELSE /\ queue' = [queue EXCEPT ![s] = Tail(@)]
         /\ asleep' = asleep \ {Head(queue[s])}
         /\ UNCHANGED value

\* try_down, when it succeeds; otherwise it changes nothing.
TryDown(s) ==
    /\ value[s] > 0
    /\ value' = [value EXCEPT ![s] = @ - 1]
    /\ UNCHANGED <<queue, asleep>>

\* Mutant: do_kill wakes a thread from any sleep.
KillWakes(t) ==
    /\ queue' = [s \in Sem |-> SelectSeq(queue[s], LAMBDA u : u # t)]
    /\ asleep' = asleep \ {t}
    /\ UNCHANGED value

\* do_kill sets PF_EXITING, and wakes the target only if its wait_state has the
\* bit WT_INTERRUPTED, which WT_KSEM has not.
Kill(t) == UNCHANGED semvars
=============================================================================

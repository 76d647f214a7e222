------------------------------- MODULE MCSync -------------------------------
(***************************************************************************)
(* The users of kern/sync beside each other: a lock, the philosophers      *)
(* with semaphores and with a monitor, and the readers of stdin.  They     *)
(* share no semaphore and no queue, so a behaviour exercises one of them   *)
(* and leaves the others as they were initialised.                         *)
(***************************************************************************)
EXTENDS SemLock

CONSTANTS
    SEATS, MEALS,            \* N and TIMES of the philosophers with semaphores
    CV_SEATS, CV_MEALS,      \* and of those with the monitor
    Reader, STDIN_BUFSIZE, LEN_MAX, KEYS

VARIABLES
    part,                                               \* what the behaviour exercises
    s_value, s_queue, s_asleep, state_sema, s_iter, s_pc,
    m_value, m_queue, m_asleep, next_count, count, m_pc, cvp, state_condvar, m_iter, ret,
    stdin_buffer, p_rpos, p_wpos, wait_queue, r_pc, wakeup_flags, want, r_exiting,
    typed, got, lost

S == INSTANCE Philosophers WITH
        N <- SEATS, TIMES <- MEALS, value <- s_value, queue <- s_queue, asleep <- s_asleep,
        iter <- s_iter, pc <- s_pc

M == INSTANCE PhilosophersCV WITH
        N <- CV_SEATS, TIMES <- CV_MEALS, value <- m_value, queue <- m_queue, asleep <- m_asleep,
        iter <- m_iter, pc <- m_pc

K == INSTANCE Stdin WITH pc <- r_pc, exiting <- r_exiting

ASSUME PartsAssumption == S!TableAssumption /\ M!TableAssumption /\ K!StdinAssumption

semavars  == <<s_value, s_queue, s_asleep, state_sema, s_iter, s_pc>>
monvars   == <<m_value, m_queue, m_asleep, next_count, count, m_pc, cvp, state_condvar,
               m_iter, ret>>
stdinvars == <<stdin_buffer, p_rpos, p_wpos, wait_queue, r_pc, wakeup_flags, want, r_exiting,
               typed, got, lost>>
syncvars  == <<vars, part, semavars, monvars, stdinvars>>

SyncInit ==
    /\ part \in {"lock", "semaphores", "monitor", "stdin"}
    /\ LockInit /\ S!PhilInit /\ M!PhilInit /\ K!StdinInit

\* A step of the part p only.
Only(p) ==
    /\ part = p /\ UNCHANGED part
    /\ p # "lock" => UNCHANGED vars
    /\ p # "semaphores" => UNCHANGED semavars
    /\ p # "monitor" => UNCHANGED monvars
    /\ p # "stdin" => UNCHANGED stdinvars

SemaStep(i) == Only("semaphores") /\ S!Step(i)
MonStep(i)  == Only("monitor") /\ M!Step(i)
LockExit(t) == Only("lock") /\ Unlock(t)

SyncNext ==
    \/ Only("lock") /\ Next
    \/ \E i \in S!Phil : SemaStep(i)
    \/ \E i \in M!Phil : MonStep(i)
    \/ Only("stdin") /\ K!Next

\* Whoever holds the lock leaves its critical section at last, and round robin gives
\* every runnable philosopher the processor.
SyncSpec ==
    /\ SyncInit /\ [][SyncNext]_syncvars
    /\ \A t \in Thread : WF_syncvars(LockExit(t))
    /\ \A i \in S!Phil : WF_syncvars(SemaStep(i))
    /\ \A i \in M!Phil : WF_syncvars(MonStep(i))

-----------------------------------------------------------------------------
(* Properties.                                                             *)

\* Neighbours never eat at the same time, at either table, and who eats has it
\* recorded.
NeighboursExclude == S!NeighboursExclude /\ M!NeighboursExclude

\* Every philosopher eats TIMES times and quits: nobody is left waiting for a
\* neighbour that has already gone, and nobody deadlocks.
EveryoneQuits ==
    /\ part = "semaphores" => S!EveryoneQuits
    /\ part = "monitor" => M!EveryoneQuits

\* "Only one process at a time may be be active in a monitor" (monitor.h).
OneActive == M!OneActive

\* A signal is not lost: a philosopher that cond_signal was called for while it waits
\* has been passed the unit of its condition variable.
SignalReaches == M!SignalReaches

\* Every key typed is handed to one reader, or waits in the buffer, or was
\* overwritten, and as long as none was they are handed out in the order typed.
KeysAccounted == K!KeysAccounted

\* Nobody sleeps for a key that is there, every sleeper's wait is on the queue, and a
\* wait on the queue belongs to a call of dev_stdin_read that has not returned.
WaitersExact == K!WaitersExact
=============================================================================

------------------------------- MODULE Stdin --------------------------------
(***************************************************************************)
(* The keyboard buffer behind the device stdin, kern/fs/devs/dev_stdin.c,  *)
(* with the wait queue of kern/sync/wait.c.                                *)
(*                                                                         *)
(* dev_stdin_write runs inside the timer interrupt; dev_stdin_read runs    *)
(* with interrupts off except while it sleeps, so what it does between two *)
(* sleeps is one step.  A reader asleep may be killed: do_kill makes it    *)
(* RUNNABLE and leaves its wait on the queue until the reader itself runs. *)
(* The keys are numbered in the order they are typed.                      *)
(***************************************************************************)
EXTENDS Integers, FiniteSetsExt, SequencesExt

CONSTANTS
    Reader,          \* processes that read stdin
    STDIN_BUFSIZE,
    LEN_MAX,         \* bound: the longest read considered
    KEYS             \* bound: the number of keys typed

StdinAssumption ==
    /\ IsFiniteSet(Reader)
    /\ STDIN_BUFSIZE \in Nat \ {0}
    /\ LEN_MAX \in Nat /\ KEYS \in Nat

VARIABLES
    stdin_buffer, p_rpos, p_wpos,
    wait_queue,      \* the readers whose wait_t is on the queue
    pc,              \* "user", "asleep" in schedule(), "awake" behind it, "dead"
    wakeup_flags,    \* why a reader was woken: "INTERRUPTED" or "KBD"
    want,            \* len - ret of the read in progress
    exiting,         \* PF_EXITING
    typed,           \* history: the keys typed so far
    got,             \* history: the keys handed to readers, in that order
    lost             \* history: the keys overwritten before they were read

vars == <<stdin_buffer, p_rpos, p_wpos, wait_queue, pc, wakeup_flags, want, exiting,
          typed, got, lost>>

Slot(pos) == stdin_buffer[pos % STDIN_BUFSIZE]

StdinInit ==
    /\ stdin_buffer = [i \in 0..STDIN_BUFSIZE-1 |-> 0]
    /\ p_rpos = 0 /\ p_wpos = 0
    /\ wait_queue = <<>>
    /\ pc = [r \in Reader |-> "user"]
    /\ wakeup_flags = [r \in Reader |-> "INTERRUPTED"]
    /\ want = [r \in Reader |-> 0]
    /\ exiting = [r \in Reader |-> FALSE]
    /\ typed = 0 /\ got = <<>> /\ lost = {}

-----------------------------------------------------------------------------
\* Mutant: the key wakes the first waiter only.
WokenFirst == IF wait_queue = <<>> THEN {} ELSE {Head(wait_queue)}

\* wakeup_queue wakes whoever has a wait on the queue, and leaves the queue empty.
Woken == Range(wait_queue)

\* Mutant: dev_stdin_write stops one key early.
RoomLess == p_wpos - p_rpos < STDIN_BUFSIZE - 1

Room == p_wpos - p_rpos < STDIN_BUFSIZE

\* The interrupt handler finds a key.  A full buffer keeps p_wpos where it is,
\* and the key takes the place of the oldest one that is unread.
DevStdinWrite ==
    /\ typed < KEYS
    /\ typed' = typed + 1
    /\ stdin_buffer' = [stdin_buffer EXCEPT ![p_wpos % STDIN_BUFSIZE] = typed']
    /\ p_wpos' = IF Room THEN p_wpos + 1 ELSE p_wpos
    /\ lost' = IF p_wpos - p_rpos = STDIN_BUFSIZE THEN lost \cup {Slot(p_wpos)} ELSE lost
    /\ wait_queue' = <<>>
    /\ wakeup_flags' = [r \in Reader |-> IF r \in Woken THEN "KBD" ELSE wakeup_flags[r]]
    /\ pc' = [r \in Reader |-> IF r \in Woken THEN "awake" ELSE pc[r]]
    /\ UNCHANGED <<p_rpos, want, exiting, got>>

\* Where a reader goes when its system call ends: trap() looks at PF_EXITING.
Returned(r) == IF exiting[r] THEN "dead" ELSE "user"

\* How many of the n keys asked for are there.
Taken(n) == Min({n, p_wpos - p_rpos})

\* The loop of dev_stdin_read with n keys to go, until it has them or sleeps,
\* the waits on the queue being q before.
ReadLoop(r, n, q) ==
    LET k == Taken(n)
    IN /\ got' = got \o [i \in 1..k |-> Slot(p_rpos + i - 1)]
       /\ p_rpos' = p_rpos + k
       /\ want' = [want EXCEPT ![r] = n - k]
       /\ IF k = n
          THEN /\ pc' = [pc EXCEPT ![r] = Returned(r)]
               /\ wait_queue' = q
               /\ UNCHANGED wakeup_flags
          ELSE /\ pc' = [pc EXCEPT ![r] = "asleep"]
               /\ wait_queue' = Append(q, r)
               /\ wakeup_flags' = [wakeup_flags EXCEPT ![r] = "INTERRUPTED"]
       /\ UNCHANGED <<stdin_buffer, p_wpos, exiting, typed, lost>>

DevStdinRead(r, n) ==
    /\ pc[r] = "user"
    /\ ReadLoop(r, n, wait_queue)

\* wait_current_del: the wait of r is taken off the queue if it is on it.
WaitCurrentDel(r) ==
    IF r \in Range(wait_queue)
    THEN RemoveAt(wait_queue, CHOOSE i \in DOMAIN wait_queue : wait_queue[i] = r)
    ELSE wait_queue

\* Behind schedule(): woken by a key, the reader tries again.
TryAgain(r) ==
    /\ pc[r] = "awake"
    /\ wakeup_flags[r] = "KBD"
    /\ ReadLoop(r, want[r], WaitCurrentDel(r))

\* Woken otherwise it returns what it has.
Interrupted(r) ==
    /\ pc[r] = "awake"
    /\ wakeup_flags[r] # "KBD"
    /\ wait_queue' = WaitCurrentDel(r)
    /\ want' = [want EXCEPT ![r] = 0]
    /\ pc' = [pc EXCEPT ![r] = Returned(r)]
    /\ UNCHANGED <<stdin_buffer, p_rpos, p_wpos, wakeup_flags, exiting, typed, got, lost>>

\* do_kill of a reader inside its read.  WT_KBD can be interrupted.
Kill(r) ==
    /\ pc[r] \in {"asleep", "awake"}
    /\ ~exiting[r]
    /\ exiting' = [exiting EXCEPT ![r] = TRUE]
    /\ pc' = [pc EXCEPT ![r] = "awake"]
    /\ UNCHANGED <<stdin_buffer, p_rpos, p_wpos, wait_queue, wakeup_flags, want, typed,
                   got, lost>>

Next ==
    \/ DevStdinWrite
    \/ \E r \in Reader :
          \/ \E n \in 1..LEN_MAX : DevStdinRead(r, n)
          \/ TryAgain(r)
          \/ Interrupted(r)
          \/ Kill(r)

Spec == StdinInit /\ [][Next]_vars

\* The scheduler runs whoever is RUNNABLE.  Nobody has to type.
FairSpec == Spec /\ \A r \in Reader : WF_vars(TryAgain(r) \/ Interrupted(r))

-----------------------------------------------------------------------------
(* Properties.                                                             *)

\* The type invariant.
TypeOK ==
    /\ stdin_buffer \in [0..STDIN_BUFSIZE-1 -> 0..KEYS]
    /\ p_rpos \in Nat /\ p_wpos \in p_rpos .. p_rpos + STDIN_BUFSIZE
    /\ wait_queue \in Seq(Reader)
    /\ pc \in [Reader -> {"user", "asleep", "awake", "dead"}]
    /\ wakeup_flags \in [Reader -> {"INTERRUPTED", "KBD"}]
    /\ want \in [Reader -> 0..LEN_MAX]
    /\ exiting \in [Reader -> BOOLEAN]
    /\ typed \in 0..KEYS /\ got \in Seq(1..KEYS) /\ lost \subseteq 1..KEYS

\* The keys still in the buffer, in the order a reader will get them.
Unread == [i \in 1..p_wpos - p_rpos |-> Slot(p_rpos + i - 1)]

\* Every key typed is handed to one reader, or waits in the buffer, or was
\* overwritten: none is handed out twice, whoever of several readers is woken, and
\* as long as none was overwritten they are handed out in the order typed.
KeysAccounted ==
    /\ IsInjective(got \o Unread)
    /\ Range(got \o Unread) = 1..typed \ lost
    /\ lost = {} => got \o Unread = [i \in 1..typed |-> i]

\* Nobody sleeps for a key that is there, and the wait of a sleeper is on the
\* queue, where the next key finds it.  A wait on the queue is in the stack frame of
\* a live call of dev_stdin_read, once: wakeup_queue never follows a pointer into a
\* frame that was left.
WaitersExact ==
    /\ \A r \in Reader : pc[r] = "asleep" => p_rpos = p_wpos /\ r \in Range(wait_queue)
    /\ IsInjective(wait_queue)
    /\ \A r \in Range(wait_queue) : pc[r] \in {"asleep", "awake"}

\* A reader that is killed inside its read leaves it.
KilledReaderLeaves == \A r \in Reader : exiting[r] ~> pc[r] = "dead"
=============================================================================

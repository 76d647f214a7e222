------------------------------- MODULE Stride -------------------------------
(***************************************************************************)
(* The stride scheduler of lab6, kern/schedule/default_sched_stride.c,     *)
(* with the skew heap of libs/skew_heap.h that it keeps its processes in,  *)
(* under lab6's schedule and wakeup_proc.                                  *)
(*                                                                         *)
(* Strides are unsigned numbers of WORD bits (32 in the code) that wrap    *)
(* around, BIG_STRIDE is 2^(WORD-2) as 1 << 30 is there, and two strides   *)
(* are compared by the sign of their difference.  What makes a process     *)
(* sleep, wake up or exit is the subject of module Proc; here any of it    *)
(* may happen at any time.                                                 *)
(***************************************************************************)
EXTENDS Integers, FiniteSetsExt

CONSTANTS
    Proc, NoProc,
    Boot,               \* the process that runs first, and forks the others
    Late,               \* the ones it may not fork in its first time slice
    Sleeper,            \* the processes that may sleep and exit
    Priority,           \* what lab6_set_priority is called with
    WORD, MAX_TIME_SLICE

ASSUME StrideAssumption ==
    /\ NoProc \notin Proc /\ Boot \in Proc /\ Late \subseteq Proc \ {Boot} /\ Sleeper \subseteq Proc
    /\ Priority \subseteq Nat
    /\ WORD \in Nat /\ WORD >= 2
    /\ MAX_TIME_SLICE \in Nat \ {0}

VARIABLES
    state,          \* p->state, "UNUSED" before the fork of p
    lab6_stride, lab6_priority, time_slice,
    lab6_run_pool,  \* rq->lab6_run_pool, a heap
    current,        \* NoProc is idleproc
    need_resched    \* current->need_resched

vars == <<state, lab6_stride, lab6_priority, time_slice, lab6_run_pool, current, need_resched>>

BIG_STRIDE == 2^(WORD - 2)

-----------------------------------------------------------------------------
(* libs/skew_heap.h: a heap is <<>> or <<root, left, right>>.              *)

\* Mutant: strides are compared as unsigned numbers.
BeforeUnsigned(p, q) == lab6_stride[p] < lab6_stride[q]

\* proc_stride_comp_f returns -1: as a signed number, the difference is negative.
Before(p, q) == (lab6_stride[p] - lab6_stride[q]) % 2^WORD >= 2^(WORD - 1)

RECURSIVE Merge(_, _)
Merge(a, b) ==
    CASE a = <<>> -> b
      [] b = <<>> -> a
      [] a # <<>> /\ b # <<>> /\ Before(a[1], b[1]) -> <<a[1], Merge(a[3], b), a[2]>>
      [] OTHER -> <<b[1], Merge(a, b[3]), b[2]>>

\* skew_heap_remove of the root, the only node that schedule takes out.
RemoveRoot(h) == Merge(h[2], h[3])

-----------------------------------------------------------------------------
(* The class: stride_enqueue, stride_pick_next and stride_dequeue          *)

Enqueued(h, p) == Merge(h, <<p, <<>>, <<>>>>)

Refilled(n) == IF n = 0 \/ n > MAX_TIME_SLICE THEN MAX_TIME_SLICE ELSE n

\* Mutant: the stride of a process that is picked stays as it is.
AdvancedNot(p) == lab6_stride[p]

Advanced(p) == (lab6_stride[p] + BIG_STRIDE \div lab6_priority[p]) % 2^WORD

\* schedule, when the current process goes on to be runnable or not.
Schedule(runnable) ==
    LET back == runnable /\ current # NoProc
        h == IF back THEN Enqueued(lab6_run_pool, current) ELSE lab6_run_pool
    IN /\ need_resched' = FALSE
       /\ time_slice' = IF back THEN [time_slice EXCEPT ![current] = Refilled(@)] ELSE time_slice
       /\ IF h = <<>>
          THEN /\ current' = NoProc
               /\ UNCHANGED <<lab6_run_pool, lab6_stride>>
          ELSE /\ current' = h[1]
               /\ lab6_stride' = [lab6_stride EXCEPT ![h[1]] = Advanced(h[1])]
               /\ lab6_run_pool' = RemoveRoot(h)

\* Boot has been picked once, and has forked all but the late ones since.
StrideInit ==
    \E late \in SUBSET Late :
        /\ state = [p \in Proc |-> IF p \in late THEN "UNUSED" ELSE "RUNNABLE"]
        /\ lab6_stride = [p \in Proc |-> IF p = Boot THEN BIG_STRIDE ELSE 0]
        /\ lab6_priority = [p \in Proc |-> 1]
        /\ time_slice = [p \in Proc |-> IF p \in late THEN 0 ELSE MAX_TIME_SLICE]
        /\ lab6_run_pool = FoldSet(LAMBDA p, h : Enqueued(h, p), <<>>, Proc \ (late \cup {Boot}))
        /\ current = Boot
        /\ need_resched = FALSE

-----------------------------------------------------------------------------
(* The clock, and what processes do                                        *)

\* The timer interrupt: stride_proc_tick, and every TICK_NUM ticks need_resched is
\* set whatever is left of the time slice.
Tick ==
    /\ IF current = NoProc
       THEN /\ need_resched' = TRUE
            /\ UNCHANGED time_slice
       ELSE /\ time_slice' = [time_slice EXCEPT ![current] = IF @ > 0 THEN @ - 1 ELSE 0]
            /\ \E hundredth \in BOOLEAN :
                  need_resched' = (need_resched \/ hundredth \/ time_slice'[current] = 0)
    /\ UNCHANGED <<state, lab6_stride, lab6_priority, lab6_run_pool, current>>

\* need_resched is seen on the way back to the user program, or by cpu_idle.
Resched ==
    /\ need_resched
    /\ Schedule(TRUE)
    /\ UNCHANGED <<state, lab6_priority>>

\* do_yield
Yield ==
    /\ current # NoProc
    /\ need_resched' = TRUE
    /\ UNCHANGED <<state, lab6_stride, lab6_priority, time_slice, lab6_run_pool, current>>

\* do_wait, and do_exit
Leave(s) ==
    /\ current \in Sleeper
    /\ state' = [state EXCEPT ![current] = s]
    /\ Schedule(FALSE)
    /\ UNCHANGED lab6_priority

\* wakeup_proc of p, which turns runnable
Enter(p) ==
    /\ state' = [state EXCEPT ![p] = "RUNNABLE"]
    /\ time_slice' = [time_slice EXCEPT ![p] = Refilled(@)]
    /\ lab6_run_pool' = Enqueued(lab6_run_pool, p)
    /\ UNCHANGED <<lab6_stride, lab6_priority, current, need_resched>>

Wakeup(p) == state[p] = "SLEEPING" /\ Enter(p)

\* do_fork: alloc_proc gives the child stride 0, and priority 1.
Fork(p) == current # NoProc /\ state[p] = "UNUSED" /\ Enter(p)

\* lab6_set_priority
SetPriority(n) ==
    /\ current # NoProc
    /\ lab6_priority' = [lab6_priority EXCEPT ![current] = IF n = 0 THEN 1 ELSE n]
    /\ UNCHANGED <<state, lab6_stride, time_slice, lab6_run_pool, current, need_resched>>

Next ==
    \/ Tick
    \/ Resched
    \/ Yield
    \/ Leave("SLEEPING")
    \/ Leave("ZOMBIE")
    \/ \E p \in Proc : Wakeup(p) \/ Fork(p)
    \/ \E n \in Priority : SetPriority(n)

\* The clock goes on, and a process that is to be rescheduled comes back to the
\* user program.
Fairness == WF_vars(Tick) /\ WF_vars(Resched)

Spec == StrideInit /\ [][Next]_vars /\ Fairness

-----------------------------------------------------------------------------
(* Properties.                                                             *)

\* Every runnable process is picked sooner or later once the others have stopped
\* falling asleep and waking up, however far apart that has left the strides, which
\* wrap around and are not ordered any more by the signs of their differences.
EveryoneRuns ==
    <>[][state' = state]_vars =>
        \A p \in Proc : state[p] = "RUNNABLE" ~> (current = p \/ state[p] = "ZOMBIE")
=============================================================================

-------------------------------- MODULE Proc --------------------------------
(***************************************************************************)
(* Process lifecycle, round-robin scheduling, timers and the trap return   *)
(* path of the lab8 kernel: kern/process/proc.c, kern/schedule/sched.c,    *)
(* kern/schedule/default_sched.c and the tail of kern/trap/trap.c.         *)
(*                                                                         *)
(* One hart, and a kernel that is never preempted: a process gives up the  *)
(* processor only by calling schedule().  System calls run with SIE = 0,   *)
(* so the timer interrupt is taken in user mode, in cpu_idle and in kernel *)
(* threads only.  pc[p] says where p stands: a process that is not         *)
(* current is parked just behind the call of schedule() it made, and       *)
(* Schedule moves it to the point where that call returns.                 *)
(*                                                                         *)
(* A process is named by its pid.  GetPid shows that get_pid never returns *)
(* a pid in use; here do_fork takes any unused pid.  The chain             *)
(* cptr -> optr is the set Kids(p).                                        *)
(***************************************************************************)
EXTENDS Integers, SequencesExt, FiniteSets

CONSTANTS
    User,            \* pids of processes other than idle and init
    Idle, Init,      \* pids 0 and 1
    NULL,
    MAX_PROCESS,
    MAX_TIME_SLICE,
    SLEEP_MAX        \* bound: the longest do_sleep considered

Pid == User \cup {Idle, Init}

AnyChild == Idle     \* do_wait(0, ..): pid 0 stands for any child

ASSUME PidAssumption ==
    /\ Idle # Init /\ Idle \notin User /\ Init \notin User
    /\ NULL \notin Pid
    /\ IsFiniteSet(User)

ASSUME BoundAssumption ==
    /\ MAX_PROCESS \in Nat
    /\ MAX_TIME_SLICE \in Nat \ {0}
    /\ SLEEP_MAX \in Nat

VARIABLES
    state,           \* UNINIT: no proc_struct has this pid
    wait_state,      \* 0, or what a sleeping process waits for
    exiting,         \* PF_EXITING in proc->flags
    parent,
    nr_process,
    runq,            \* rq->run_list
    time_slice,
    need_resched,
    current,
    pc,
    waitpid,         \* the argument of the do_wait in progress
    kthread,         \* the process runs kernel code with SIE = 1
    timers,          \* timer_list, each expires relative to its predecessor
    left,            \* history: ticks left of the sleep a process asked for
    irq,             \* "timer" while run_timer_list is running
    halted           \* the kernel has panicked

vars == <<state, wait_state, exiting, parent, nr_process, runq, time_slice,
          need_resched, current, pc, waitpid, kthread, timers, left, irq, halted>>

family == <<parent, nr_process>>
frames == <<waitpid, kthread>>
clock  == <<timers, left, irq>>

SchedPoints == {"yield_sched", "wait_sched", "sleep_sched", "exit_sched", "init_sched"}

PCs == SchedPoints \cup
       {"none", "idle", "user", "exec", "trapret", "do_wait", "waited", "slept",
        "exit", "dead", "init_start", "init_end"}

Kids(p) == {c \in Pid : state[c] # "UNINIT" /\ parent[c] = p}

-----------------------------------------------------------------------------
(* Boot: proc_init has made idle current and forked init.                  *)

BootState == [p \in Pid |-> IF p \in User THEN "UNINIT" ELSE "RUNNABLE"]

ProcInit ==
    /\ state = BootState
    /\ wait_state = [p \in Pid |-> "0"]
    /\ exiting = [p \in Pid |-> FALSE]
    /\ parent = [p \in Pid |-> IF p = Init THEN Idle ELSE NULL]
    /\ nr_process = 2
    /\ runq = <<Init>>
    /\ time_slice = [p \in Pid |-> IF p = Init THEN MAX_TIME_SLICE ELSE 0]
    /\ need_resched = [p \in Pid |-> p = Idle]
    /\ current = Idle
    /\ pc = [p \in Pid |-> CASE p = Idle -> "idle"
                             [] p = Init -> "init_start"
                             [] OTHER -> "none"]
    /\ waitpid = [p \in Pid |-> AnyChild]
    /\ kthread = [p \in Pid |-> p \notin User]
    /\ timers = <<>>
    /\ left = [p \in Pid |-> 0]
    /\ irq = "none"
    /\ halted = FALSE

-----------------------------------------------------------------------------
(* wakeup_proc and the run queue.                                          *)

\* RR_enqueue refills a slice that is used up, or too long.
Refill(t) == IF t = 0 \/ t > MAX_TIME_SLICE THEN MAX_TIME_SLICE ELSE t

\* wakeup_proc on the processes of the sequence s (none, one, or two that are
\* not current), when the states before are st.  A process that is RUNNABLE
\* already only earns a warning: callers leave it out by NotRunnable.
Wakeup(st, s) ==
    LET queued == IF s = <<current>> THEN <<>> ELSE s
    IN /\ state' = [p \in Pid |-> IF p \in Range(s) THEN "RUNNABLE" ELSE st[p]]
       /\ wait_state' = [p \in Pid |-> IF p \in Range(s) THEN "0" ELSE wait_state[p]]
       /\ runq' = runq \o queued
       /\ time_slice' = [p \in Pid |-> IF p \in Range(queued) THEN Refill(time_slice[p])
                                       ELSE time_slice[p]]

When(cond, p) == IF cond THEN <<p>> ELSE <<>>

\* Mutant: wakeup_proc without its test for a process that is RUNNABLE already.
WakeAnyway(p) == <<p>>

\* Mutant: the test of wakeup_proc inverted.
WakeOnlyRunnable(p) == When(state[p] = "RUNNABLE", p)

NotRunnable(p) == When(state[p] # "RUNNABLE", p)

Goto(l) == pc' = [pc EXCEPT ![current] = l]

\* current is at l and no interrupt handler is active.
At(l) == ~halted /\ irq = "none" /\ pc[current] = l

\* schedule(): the caller is queued again if it is still RUNNABLE (idle never
\* is queued), the head of the queue runs next, idle if there is none.
AfterSched ==
    [l \in SchedPoints |->
        CASE l = "yield_sched" -> "user"
          [] l = "wait_sched"  -> "waited"
          [] l = "sleep_sched" -> "slept"
          [] l = "exit_sched"  -> "dead"
          [] l = "init_sched"  -> "do_wait"]

Requeue == state[current] = "RUNNABLE" /\ current # Idle

Schedule ==
    /\ ~halted /\ irq = "none"
    /\ \/ pc[current] \in SchedPoints
       \/ pc[current] = "idle" /\ need_resched[current]
    /\ need_resched' = [need_resched EXCEPT ![current] = FALSE]
    /\ LET q == runq \o When(Requeue, current)
       IN /\ runq' = IF q = <<>> THEN q ELSE Tail(q)
          /\ current' = IF q = <<>> THEN Idle ELSE Head(q)
    /\ time_slice' = IF Requeue
                     THEN [time_slice EXCEPT ![current] = Refill(@)]
                     ELSE time_slice
    /\ pc' = IF pc[current] = "idle" THEN pc
             ELSE [pc EXCEPT ![current] = AfterSched[@]]
    /\ UNCHANGED <<state, wait_state, exiting, family, frames, clock, halted>>

-----------------------------------------------------------------------------
(* System calls of the current process, entered from user mode.            *)

\* do_fork: a fresh proc_struct, whatever had the pid before.  The child starts
\* at l, the caller goes on at ret.
NewProc(c, l, ret) ==
    /\ nr_process < MAX_PROCESS
    /\ state[c] = "UNINIT"
    /\ exiting' = [exiting EXCEPT ![c] = FALSE]
    /\ parent' = [parent EXCEPT ![c] = current]
    /\ nr_process' = nr_process + 1
    /\ need_resched' = [need_resched EXCEPT ![c] = FALSE]
    /\ kthread' = [kthread EXCEPT ![c] = (l = "exec")]
    /\ pc' = [pc EXCEPT ![c] = l, ![current] = ret]
    /\ Wakeup(state, <<c>>)
    /\ UNCHANGED <<current, waitpid, clock, halted>>

\* sys_fork: the child leaves through forkret, straight to user mode.
DoFork(c) ==
    /\ At("user")
    /\ NewProc(c, "user", "trapret")

\* A system call that leaves everything as it was: do_fork without memory or at
\* MAX_PROCESS, do_kill of an unknown or exiting process, do_sleep(0), a do_execve
\* that succeeds or is refused, getpid and the like; or an exception, of which
\* exception_handler only prints the name.
NoEffect ==
    /\ At("user")
    /\ Goto("trapret")
    /\ UNCHANGED <<state, wait_state, exiting, family, runq, time_slice, need_resched,
                   current, frames, clock, halted>>

\* sys_exit, and the do_execve that fails behind its point of no return.
SysExit ==
    /\ At("user")
    /\ Goto("exit")
    /\ UNCHANGED <<state, wait_state, exiting, family, runq, time_slice, need_resched,
                   current, frames, clock, halted>>

DoYield ==
    /\ At("user")
    /\ need_resched' = [need_resched EXCEPT ![current] = TRUE]
    /\ Goto("trapret")
    /\ UNCHANGED <<state, wait_state, exiting, family, runq, time_slice, current, frames,
                   clock, halted>>

Interruptible(w) == w \in {"CHILD", "TIMER"}

DoKill(p) ==
    /\ At("user")
    /\ p # Idle /\ state[p] # "UNINIT"
    /\ ~exiting[p]
    /\ exiting' = [exiting EXCEPT ![p] = TRUE]
    /\ Wakeup(state, When(Interruptible(wait_state[p]), p))
    /\ Goto("trapret")
    /\ UNCHANGED <<family, need_resched, current, frames, clock, halted>>

SysWait(p) ==
    /\ At("user")
    /\ waitpid' = [waitpid EXCEPT ![current] = p]
    /\ Goto("do_wait")
    /\ UNCHANGED <<state, wait_state, exiting, family, runq, time_slice, need_resched,
                   current, kthread, clock, halted>>

-----------------------------------------------------------------------------
(* do_wait.  The caller's frame lives across schedule(), so the loop is cut *)
(* into the scan (Reap, Sleep, None) and the test behind schedule().       *)

\* The children do_wait looks at: find_proc(pid) if it is a child, or the chain.
Awaited(p) == {c \in Kids(p) : waitpid[p] = AnyChild \/ c = waitpid[p]}

Zombies(S) == {c \in S : state[c] = "ZOMBIE"}

\* Where do_wait returns to: the system call, or the loop of init_main.
Returned(ok) == IF current # Init THEN "trapret" ELSE IF ok THEN "init_sched" ELSE "init_end"

\* found: the child is unlinked, its kernel stack and proc_struct are freed.
DoWaitReap(c) ==
    /\ At("do_wait")
    /\ c \in Zombies(Awaited(current))
    /\ state' = [state EXCEPT ![c] = "UNINIT"]
    /\ exiting' = [exiting EXCEPT ![c] = FALSE]
    /\ parent' = [parent EXCEPT ![c] = NULL]
    /\ nr_process' = nr_process - 1
    /\ time_slice' = [time_slice EXCEPT ![c] = 0]
    /\ pc' = [pc EXCEPT ![c] = "none", ![current] = Returned(TRUE)]
    /\ waitpid' = [waitpid EXCEPT ![c] = AnyChild, ![current] = AnyChild]
    /\ kthread' = [kthread EXCEPT ![c] = FALSE]
    /\ UNCHANGED <<wait_state, runq, need_resched, current, clock, halted>>

DoWaitSleep ==
    /\ At("do_wait")
    /\ Awaited(current) # {} /\ Zombies(Awaited(current)) = {}
    /\ state' = [state EXCEPT ![current] = "SLEEPING"]
    /\ wait_state' = [wait_state EXCEPT ![current] = "CHILD"]
    /\ Goto("wait_sched")
    /\ UNCHANGED <<exiting, family, runq, time_slice, need_resched, current, frames,
                   clock, halted>>

\* -E_BAD_PROC
DoWaitNone ==
    /\ At("do_wait")
    /\ Awaited(current) = {}
    /\ Goto(Returned(FALSE))
    /\ waitpid' = [waitpid EXCEPT ![current] = AnyChild]
    /\ UNCHANGED <<state, wait_state, exiting, family, runq, time_slice, need_resched,
                   current, kthread, clock, halted>>

\* Mutant: do_wait does not look at PF_EXITING behind schedule().
WaitedOn ==
    /\ At("waited")
    /\ Goto("do_wait")
    /\ UNCHANGED <<state, wait_state, exiting, family, runq, time_slice, need_resched,
                   current, frames, clock, halted>>

Waited ==
    /\ At("waited")
    /\ Goto(IF exiting[current] THEN "exit" ELSE "do_wait")
    /\ UNCHANGED <<state, wait_state, exiting, family, runq, time_slice, need_resched,
                   current, frames, clock, halted>>

-----------------------------------------------------------------------------
(* do_exit.                                                                *)

\* Mutant: do_exit does not tell init of the zombies it inherits.
ExitWakesParent == When(wait_state[parent[current]] = "CHILD", parent[current])

\* Mutant: do_exit tells init of inherited zombies but forgets the parent.
ExitWakesInit ==
    When(parent[current] # Init /\ wait_state[Init] = "CHILD" /\ Zombies(Kids(current)) # {},
         Init)

\* Whom do_exit wakes, in this order: the parent if it waits for a child, and
\* init if it waits and inherits a zombie.
ExitWakes ==
    LET p == parent[current]
    IN When(wait_state[p] = "CHILD", p) \o
       When(p # Init /\ wait_state[Init] = "CHILD" /\ Zombies(Kids(current)) # {}, Init)

\* Mutant: do_exit hands only its zombies to init.
ReparentZombies == [c \in Pid |-> IF c \in Zombies(Kids(current)) THEN Init ELSE parent[c]]

\* The children of a process that exits become children of init.
Reparented == [c \in Pid |-> IF c \in Kids(current) THEN Init ELSE parent[c]]

DoExit ==
    /\ At("exit")
    /\ current # Init
    /\ Wakeup([state EXCEPT ![current] = "ZOMBIE"], ExitWakes)
    /\ parent' = Reparented
    /\ Goto("exit_sched")
    /\ UNCHANGED <<exiting, nr_process, need_resched, current, frames, clock, halted>>

\* panic("initproc exit."): init was killed, or init_main has returned.
InitExit ==
    /\ At("exit")
    /\ current = Init
    /\ halted' = TRUE
    /\ UNCHANGED <<state, wait_state, exiting, family, runq, time_slice, need_resched,
                   current, pc, frames, clock>>

-----------------------------------------------------------------------------
(* Timers: add_timer, del_timer, run_timer_list and do_sleep.              *)

\* Expiry(tl)[i]: ticks until the i-th timer of the list tl fires.
Expiry(tl) ==
    LET e[i \in 0..Len(tl)] == IF i = 0 THEN 0 ELSE e[i-1] + tl[i].expires IN e

\* The k-th timer of the list, if there is one, fires d ticks later.
Shift(tl, k, d) == IF k \in DOMAIN tl THEN [tl EXCEPT ![k].expires = @ + d] ELSE tl

\* A timer of t ticks belongs behind the first k timers of the list, d ticks after
\* the last of them: they fire no later than it.
Place(t, k, d) ==
    /\ Expiry(timers)[k] + d = t
    /\ k < Len(timers) => t < Expiry(timers)[k+1]

\* Mutant: add_timer does not take the new timer's ticks off its successor.
AddTimerKeep(p, t) ==
    \E k \in 0..Len(timers), d \in 0..t :
        /\ Place(t, k, d)
        /\ timers' = InsertAt(timers, k + 1, [proc |-> p, expires |-> d])

\* add_timer puts a timer in its place, with its expires relative to the one
\* before it, and takes that much off its successor.
AddTimer(p, t) ==
    \E k \in 0..Len(timers), d \in 0..t :
        /\ Place(t, k, d)
        /\ timers' = InsertAt(Shift(timers, k + 1, -d), k + 1, [proc |-> p, expires |-> d])

\* Mutant: do_sleep returns without del_timer.
KeepTimer(p) == UNCHANGED timers

\* del_timer of p's timer, if it still is in the list: its successor inherits
\* the ticks it had left.
DelTimer(p) ==
    IF \A i \in DOMAIN timers : timers[i].proc # p THEN UNCHANGED timers
    ELSE \E k \in DOMAIN timers :
        /\ timers[k].proc = p
        /\ timers' = RemoveAt(Shift(timers, k + 1, timers[k].expires), k)

DoSleep(t) ==
    /\ At("user")
    /\ t > 0
    /\ state' = [state EXCEPT ![current] = "SLEEPING"]
    /\ wait_state' = [wait_state EXCEPT ![current] = "TIMER"]
    /\ AddTimer(current, t)
    /\ left' = [left EXCEPT ![current] = t]
    /\ Goto("sleep_sched")
    /\ UNCHANGED <<exiting, family, runq, time_slice, need_resched, current, frames,
                   irq, halted>>

Slept ==
    /\ At("slept")
    /\ DelTimer(current)
    /\ left' = [left EXCEPT ![current] = 0]
    /\ Goto("trapret")
    /\ UNCHANGED <<state, wait_state, exiting, family, runq, time_slice, need_resched,
                   current, frames, irq, halted>>

-----------------------------------------------------------------------------
(* Traps.  The timer interrupt runs with interrupts off: irq = "timer"     *)
(* keeps everything else still while run_timer_list goes over the timers.  *)

InterruptsOn == pc[current] = "user" \/ kthread[current]

Tick ==
    /\ ~halted /\ irq = "none"
    /\ InterruptsOn
    /\ irq' = "timer"
    /\ timers' = Shift(timers, 1, -1)
    /\ left' = [p \in Pid |-> IF left[p] > 0 THEN left[p] - 1 ELSE 0]
    /\ UNCHANGED <<state, wait_state, exiting, family, runq, time_slice, need_resched,
                   current, pc, frames, halted>>

\* Mutant: a timer fires one tick early.
ExpiredEarly == timers # <<>> /\ Head(timers).expires <= 1

\* The timer at the head has run out: wakeup_proc, del_timer.
Expired == timers # <<>> /\ Head(timers).expires = 0

ExpireTimer ==
    /\ irq = "timer"
    /\ Expired
    /\ Wakeup(state, NotRunnable(Head(timers).proc))
    /\ timers' = Tail(timers)
    /\ UNCHANGED <<exiting, family, need_resched, current, pc, frames, left, irq, halted>>

\* Mutant: RR_proc_tick does not use up the slice.
TickedNever == time_slice[current]

\* RR_proc_tick: the slice left to the current process after the tick.
TickedSlice == IF time_slice[current] > 0 THEN time_slice[current] - 1 ELSE 0

\* sched_class_proc_tick, and back to trap(): only a trap from user mode looks
\* at PF_EXITING and need_resched.
ProcTick ==
    /\ irq = "timer"
    /\ ~Expired
    /\ irq' = "none"
    /\ time_slice' = IF current = Idle THEN time_slice
                     ELSE [time_slice EXCEPT ![current] = TickedSlice]
    /\ need_resched' = IF current = Idle \/ TickedSlice = 0
                       THEN [need_resched EXCEPT ![current] = TRUE]
                       ELSE need_resched
    /\ IF pc[current] = "user" THEN Goto("trapret") ELSE UNCHANGED pc
    /\ UNCHANGED <<state, wait_state, exiting, family, runq, current, frames, timers,
                   left, halted>>

\* The tail of trap() for a trap taken in user mode.
TrapReturn ==
    /\ At("trapret")
    /\ Goto(CASE exiting[current] -> "exit"
              [] ~exiting[current] /\ need_resched[current] -> "yield_sched"
              [] OTHER -> "user")
    /\ UNCHANGED <<state, wait_state, exiting, family, runq, time_slice, need_resched,
                   current, frames, clock, halted>>

-----------------------------------------------------------------------------
(* The kernel threads init_main and user_main.                             *)

\* kernel_thread(user_main), then the do_wait(0, NULL) of the loop.
InitStart(c) ==
    /\ At("init_start")
    /\ NewProc(c, "exec", "do_wait")

\* init_main returns: kernel_thread_entry calls do_exit.
InitEnd ==
    /\ At("init_end")
    /\ Goto("exit")
    /\ UNCHANGED <<state, wait_state, exiting, family, runq, time_slice, need_resched,
                   current, frames, clock, halted>>

\* kernel_execve of user_main leaves by __trapret, or ends in do_exit.
UserMain ==
    /\ At("exec")
    /\ \/ /\ Goto("user")
          /\ kthread' = [kthread EXCEPT ![current] = FALSE]
       \/ /\ Goto("exit")
          /\ UNCHANGED kthread
    /\ UNCHANGED <<state, wait_state, exiting, family, runq, time_slice, need_resched,
                   current, waitpid, clock, halted>>

\* A kernel that has panicked stays in the kernel monitor.
Panicked ==
    /\ halted
    /\ UNCHANGED vars

-----------------------------------------------------------------------------
\* What the current process chooses to do.
Syscall ==
    \/ \E c \in User : DoFork(c)
    \/ NoEffect
    \/ SysExit
    \/ DoYield
    \/ \E p \in Pid : DoKill(p)
    \/ \E p \in Pid : SysWait(p)
    \/ \E t \in 1..SLEEP_MAX : DoSleep(t)

\* What the timer interrupt goes on to do once it is taken.
Handler == ExpireTimer \/ ProcTick

\* What the kernel goes on to do for the current process.
KernelStep ==
    \/ Schedule
    \/ \E c \in User : DoWaitReap(c)
    \/ DoWaitSleep
    \/ DoWaitNone
    \/ Waited
    \/ DoExit
    \/ InitExit
    \/ Slept
    \/ TrapReturn
    \/ \E c \in User : InitStart(c)
    \/ InitEnd
    \/ UserMain

Next == Syscall \/ KernelStep \/ Tick \/ Handler \/ Panicked

Spec == ProcInit /\ [][Next]_vars

\* The handler runs to its end; a timer interrupt that is pending is taken once
\* interrupts are on again, however shortly; and kernel code gets on between two
\* interrupts, which are short.  Nothing is assumed of Syscall: a user program
\* may loop for ever.
FairSpec == Spec /\ WF_vars(Handler) /\ SF_vars(Tick) /\ SF_vars(KernelStep)
-----------------------------------------------------------------------------
(* Properties.                                                             *)

\* Every variable has its type.
TypeOK ==
    /\ state \in [Pid -> {"UNINIT", "SLEEPING", "RUNNABLE", "ZOMBIE"}]
    /\ wait_state \in [Pid -> {"0", "CHILD", "TIMER"}]
    /\ exiting \in [Pid -> BOOLEAN]
    /\ parent \in [Pid -> Pid \cup {NULL}]
    /\ nr_process \in Int
    /\ runq \in Seq(Pid)
    /\ time_slice \in [Pid -> 0..MAX_TIME_SLICE]
    /\ need_resched \in [Pid -> BOOLEAN]
    /\ current \in Pid
    /\ pc \in [Pid -> PCs]
    /\ waitpid \in [Pid -> Pid]
    /\ kthread \in [Pid -> BOOLEAN]
    /\ timers \in Seq([proc : Pid \ {Idle}, expires : Int])
    /\ left \in [Pid -> Nat]
    /\ irq \in {"none", "timer"}
    /\ halted \in BOOLEAN

\* The run queue holds each process that could run and does not, once, and
\* nobody else: no wakeup is lost, no process is queued twice (the assertion of
\* RR_enqueue) and no sleeper or zombie is ever picked.
RunQueueExact ==
    /\ IsInjective(runq)
    /\ Range(runq) = {p \in Pid \ {Idle, current} : state[p] = "RUNNABLE"}

\* A process asleep in do_wait has no zombie to collect: whoever became a
\* zombie child of it, by exiting or by being inherited, has woken it.
NoMissedExit ==
    \A p \in Pid : wait_state[p] = "CHILD" => Zombies(Awaited(p)) = {}

\* do_exit leaves no orphan: the parent of every process but idle exists and
\* has not exited, so its proc_struct may be dereferenced, woken and waited in.
ParentAlive ==
    \A p \in Pid \ {Idle} : state[p] # "UNINIT" =>
        /\ parent[p] \in Pid
        /\ state[parent[p]] \in {"SLEEPING", "RUNNABLE"}

\* Only a sleeping process waits for something, so the wakeups of do_exit,
\* do_kill and run_timer_list never meet a zombie (assertion of wakeup_proc).
WaitersSleep ==
    /\ \A p \in Pid : wait_state[p] # "0" <=> state[p] = "SLEEPING"
    /\ \A i \in DOMAIN timers : state[timers[i].proc] \in {"SLEEPING", "RUNNABLE"}

\* The relative times of timer_list add up to what each sleeper has left, its
\* head is never 0 between two ticks (assertion of run_timer_list), and nobody
\* sleeps in do_sleep without a timer that still has to fire.
TimersExact ==
    /\ \A i \in DOMAIN timers :
          timers[i].expires >= 0 /\ Expiry(timers)[i] = left[timers[i].proc]
    /\ irq = "none" => ~Expired
    /\ \A p \in Pid : wait_state[p] = "TIMER" =>
          \E i \in DOMAIN timers : timers[i].proc = p

\* The assertions of init_main: once it has no child left, no process but idle
\* and init exists at all.
InitEndsAlone ==
    pc[Init] = "init_end" =>
        /\ nr_process = 2
        /\ \A p \in User : state[p] = "UNINIT"

\* A sleep ends when the time asked for has passed, or when the sleeper is killed.
SleepNotCutShort ==
    [][\A p \in Pid :
          wait_state[p] = "TIMER" /\ wait_state'[p] # "TIMER" =>
              left[p] = 0 \/ exiting'[p]]_vars

\* Round robin starves nobody: a runnable process gets the processor.
RunnableRuns ==
    \A p \in User \cup {Init} :
        state[p] = "RUNNABLE" ~> (current = p \/ halted)

\* A process that was killed exits, whatever it was blocked in or looping in.
KilledExits ==
    \A p \in User :
        exiting[p] ~> (state[p] \in {"ZOMBIE", "UNINIT"} \/ halted)

\* What does hold of do_kill: a killed process that is awake inside do_wait or
\* do_sleep, woken by the kill or by what it waited for, exits.
KilledAwakeExits ==
    \A p \in User :
        (exiting[p] /\ state[p] = "RUNNABLE" /\ pc[p] \in {"waited", "slept"})
            ~> (state[p] \in {"ZOMBIE", "UNINIT"} \/ halted)

\* init collects every zombie it has, its own children's and inherited ones.
InitReaps ==
    \A p \in User :
        (state[p] = "ZOMBIE" /\ parent[p] = Init) ~> (state[p] = "UNINIT" \/ halted)

\* A sleeper is woken.
SleeperWakes ==
    \A p \in User : wait_state[p] = "TIMER" ~> (wait_state[p] # "TIMER" \/ halted)
=============================================================================

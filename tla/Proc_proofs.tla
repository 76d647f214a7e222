---------------------------- MODULE Proc_proofs -----------------------------
(***************************************************************************)
(* For any set of processes: the run queue is exact, sleepers and waiters  *)
(* are the same processes, parents are alive and no exit is missed; init   *)
(* ends alone, the timer list is exact and no sleep is cut short.          *)
(***************************************************************************)
EXTENDS Proc, SeqLemmas, FiniteSetTheorems

\* Where a process stands and its state go together: what is not current and
\* not on the run queue is asleep in do_wait or do_sleep, dead, or not there.
PcState ==
    /\ \A p \in Pid : pc[p] = "idle" <=> p = Idle
    /\ \A p \in Pid : state[p] = "UNINIT" <=> pc[p] = "none"
    /\ \A p \in Pid : state[p] = "ZOMBIE" <=> pc[p] \in {"exit_sched", "dead"}
    /\ \A p \in Pid : state[p] = "SLEEPING" =>
          pc[p] \in {"wait_sched", "waited", "sleep_sched", "slept"}
    /\ state[current] # "RUNNABLE" =>
          pc[current] \in {"wait_sched", "sleep_sched", "exit_sched"}
    /\ state[Idle] = "RUNNABLE"
    /\ state[Init] \in {"SLEEPING", "RUNNABLE"}

\* A timer belongs to a process that is inside do_sleep, which has one timer.
TimersLive ==
    /\ \A i \in DOMAIN timers : pc[timers[i].proc] \in {"sleep_sched", "slept"}
    /\ \A i, j \in DOMAIN timers : timers[i].proc = timers[j].proc => i = j

\* The top of the family tree.
Roots ==
    /\ parent[Idle] = NULL
    /\ parent[Init] = Idle
    /\ \A p \in Pid : parent[p] # p

\* The inductive invariant.
IInv ==
    /\ TypeOK
    /\ RunQueueExact
    /\ WaitersSleep
    /\ PcState
    /\ TimersLive
    /\ Roots
    /\ ParentAlive
    /\ NoMissedExit

-----------------------------------------------------------------------------
(* The timer list: each operation keeps one timer per process.             *)

Timer == [proc : Pid \ {Idle}, expires : Int]

OneEach(tl) == \A i, j \in DOMAIN tl : tl[i].proc = tl[j].proc => i = j

\* Every timer of tl2 belongs to a process that has one in tl1.
From(tl2, tl1) ==
    \A i \in DOMAIN tl2 : \E j \in DOMAIN tl1 : tl2[i].proc = tl1[j].proc

\* Moving a timer changes no owner.
LEMMA ShiftKeeps ==
    ASSUME NEW tl \in Seq(Timer), NEW k \in Nat \ {0}, NEW e \in Int
    PROVE  /\ Shift(tl, k, e) \in Seq(Timer) /\ Len(Shift(tl, k, e)) = Len(tl)
           /\ \A i \in 1..Len(tl) : Shift(tl, k, e)[i].proc = tl[i].proc
<1>1. CASE k \notin DOMAIN tl
  BY <1>1 DEF Shift
<1>2. CASE k \in DOMAIN tl
  <2> DEFINE r == [tl[k] EXCEPT !.expires = tl[k].expires + e]
             u == [tl EXCEPT ![k] = r]
  <2>1. k \in 1..Len(tl) /\ tl[k] \in Timer
    BY <1>2
  <2>2. r \in Timer /\ r.proc = tl[k].proc
    BY <2>1 DEF Timer
  <2>3. u = Shift(tl, k, e)
    BY <1>2 DEF Shift
  <2> HIDE DEF r
  <2>4. /\ u \in Seq(Timer) /\ Len(u) = Len(tl)
        /\ \A j \in 1..Len(tl) : u[j] = IF j = k THEN r ELSE tl[j]
    BY <2>1, <2>2, ExceptSeq
  <2>5. \A i \in 1..Len(tl) : u[i].proc = tl[i].proc
    BY <2>2, <2>4
  <2> HIDE DEF u
  <2>6. QED
    BY <2>3, <2>4, <2>5
<1>3. QED
  BY <1>1, <1>2

\* A timer put into a list whose timers belong to others.
LEMMA InsertTimer ==
    ASSUME NEW tl \in Seq(Timer), OneEach(tl), NEW n \in 1..(Len(tl) + 1), NEW r \in Timer,
           \A i \in DOMAIN tl : tl[i].proc # r.proc
    PROVE  LET u == InsertAt(tl, n, r)
           IN /\ u \in Seq(Timer) /\ OneEach(u)
              /\ \A i \in DOMAIN u :
                    u[i].proc = r.proc \/ \E j \in DOMAIN tl : u[i].proc = tl[j].proc
<1> DEFINE u == InsertAt(tl, n, r)
           old(i) == IF i < n THEN i ELSE i - 1
<1>1. /\ u \in Seq(Timer) /\ Len(u) = Len(tl) + 1
      /\ \A i \in 1..(Len(tl) + 1) :
            u[i] = IF i < n THEN tl[i] ELSE IF i = n THEN r ELSE tl[i - 1]
  <2>1. IsInserted(u, Timer, tl, n, r)
    BY InsertAtElements, Zenon
  <2>2. QED
    BY <2>1 DEF IsInserted
<1> HIDE DEF u
<1>2. DOMAIN u = 1..(Len(tl) + 1) /\ DOMAIN tl = 1..Len(tl) /\ Len(tl) \in Nat
  BY <1>1
<1>3. \A i \in DOMAIN u : i # n => old(i) \in DOMAIN tl /\ u[i] = tl[old(i)]
  BY <1>1, <1>2
<1>4. \A i, j \in DOMAIN u : i # n /\ j # n /\ old(i) = old(j) => i = j
  BY <1>2
<1>5. u[n] = r
  BY <1>1
<1> HIDE DEF old
<1>6. OneEach(u)
  BY <1>3, <1>4, <1>5 DEF OneEach
<1>7. \A i \in DOMAIN u : u[i].proc = r.proc \/ \E j \in DOMAIN tl : u[i].proc = tl[j].proc
  BY <1>3, <1>5
<1>8. QED
  BY <1>1, <1>6, <1>7 DEF u

\* add_timer of a process that has no timer.
LEMMA AddTimerKeeps ==
    ASSUME timers \in Seq(Timer), OneEach(timers), NEW p \in Pid \ {Idle}, NEW t \in Nat,
           \A i \in DOMAIN timers : timers[i].proc # p,
           AddTimer(p, t)
    PROVE  /\ timers' \in Seq(Timer) /\ OneEach(timers')
           /\ \A i \in DOMAIN timers' :
                 timers'[i].proc = p \/ \E j \in DOMAIN timers : timers'[i].proc = timers[j].proc
<1>1. PICK k \in 0..Len(timers), d \in 0..t :
         timers' = InsertAt(Shift(timers, k + 1, -d), k + 1, [proc |-> p, expires |-> d])
  BY DEF AddTimer
<1> DEFINE tl == Shift(timers, k + 1, -d)
           r == [proc |-> p, expires |-> d]
           n == k + 1
<1>2. n \in Nat \ {0} /\ -d \in Int
  OBVIOUS
<1>3. /\ tl \in Seq(Timer) /\ Len(tl) = Len(timers)
      /\ \A i \in 1..Len(timers) : tl[i].proc = timers[i].proc
  BY <1>2, ShiftKeeps
<1>4. r \in Timer /\ r.proc = p
  BY DEF Timer
<1>5. n \in 1..(Len(tl) + 1) /\ Len(timers) \in Nat
  BY <1>3
<1>6. timers' = InsertAt(tl, n, r)
  BY <1>1
<1> HIDE DEF tl, r, n
<1>7. DOMAIN tl = 1..Len(timers) /\ DOMAIN timers = 1..Len(timers)
  BY <1>3
<1>8. OneEach(tl) /\ \A i \in DOMAIN tl : tl[i].proc # r.proc
  BY <1>3, <1>4, <1>7 DEF OneEach
<1>9. /\ timers' \in Seq(Timer) /\ OneEach(timers')
      /\ \A i \in DOMAIN timers' :
            timers'[i].proc = r.proc \/ \E j \in DOMAIN tl : timers'[i].proc = tl[j].proc
  <2>1. LET u == InsertAt(tl, n, r)
        IN /\ u \in Seq(Timer) /\ OneEach(u)
           /\ \A i \in DOMAIN u :
                 u[i].proc = r.proc \/ \E j \in DOMAIN tl : u[i].proc = tl[j].proc
    BY <1>3, <1>4, <1>5, <1>8, InsertTimer, Zenon
  <2>2. QED
    BY <2>1, <1>6, Zenon
<1>10. QED
  BY <1>3, <1>4, <1>7, <1>9

\* del_timer leaves no timer of its process.
LEMMA DelTimerKeeps ==
    ASSUME timers \in Seq(Timer), OneEach(timers), NEW p, DelTimer(p)
    PROVE  /\ timers' \in Seq(Timer) /\ OneEach(timers') /\ From(timers', timers)
           /\ \A i \in DOMAIN timers' : timers'[i].proc # p
<1>1. CASE \A i \in DOMAIN timers : timers[i].proc # p
  BY <1>1 DEF DelTimer, From
<1>2. CASE ~\A i \in DOMAIN timers : timers[i].proc # p
  <2>1. PICK k \in DOMAIN timers :
           /\ timers[k].proc = p
           /\ timers' = RemoveAt(Shift(timers, k + 1, timers[k].expires), k)
    BY <1>2 DEF DelTimer
  <2> DEFINE tl == Shift(timers, k + 1, timers[k].expires)
  <2>2. k \in 1..Len(timers) /\ Len(timers) \in Nat /\ DOMAIN timers = 1..Len(timers)
    OBVIOUS
  <2>3. /\ tl \in Seq(Timer) /\ Len(tl) = Len(timers)
        /\ \A i \in 1..Len(timers) : tl[i].proc = timers[i].proc
    <3>1. timers[k] \in Timer /\ k + 1 \in Nat \ {0}
      BY <2>2
    <3>2. timers[k].expires \in Int
      BY <3>1 DEF Timer
    <3>3. QED
      BY <3>1, <3>2, ShiftKeeps
  <2>4. timers' = RemoveAt(tl, k) /\ k \in 1..Len(tl)
    BY <2>1, <2>2, <2>3
  <2> HIDE DEF tl
  <2>5. /\ timers' \in Seq(Timer) /\ Len(timers') = Len(tl) - 1
        /\ \A i \in 1..(Len(tl) - 1) : timers'[i] = IF i < k THEN tl[i] ELSE tl[i + 1]
    BY <2>3, <2>4, RemoveAtElements
  <2>6. DOMAIN timers' = 1..(Len(timers) - 1)
    BY <2>2, <2>3, <2>5
  <2>7. \A i \in 1..(Len(timers) - 1) :
           timers'[i].proc = IF i < k THEN timers[i].proc ELSE timers[i + 1].proc
    BY <2>2, <2>3, <2>5
  <2>8. \A i, j \in 1..Len(timers) : timers[i].proc = timers[j].proc => i = j
    BY <2>2 DEF OneEach
  <2>9. OneEach(timers')
    BY <2>2, <2>6, <2>7, <2>8 DEF OneEach
  <2>10. ASSUME NEW i \in DOMAIN timers'
         PROVE  /\ timers'[i].proc # p
                /\ \E j \in DOMAIN timers : timers'[i].proc = timers[j].proc
    <3>1. CASE i < k
      <4>1. i \in 1..Len(timers) /\ i # k /\ timers'[i].proc = timers[i].proc
        BY <3>1, <2>2, <2>6, <2>7
      <4>2. QED
        BY <4>1, <2>1, <2>2, <2>8
    <3>2. CASE ~(i < k)
      <4>1. i + 1 \in 1..Len(timers) /\ i + 1 # k /\ timers'[i].proc = timers[i + 1].proc
        BY <3>2, <2>2, <2>6, <2>7
      <4>2. QED
        BY <4>1, <2>1, <2>2, <2>8
    <3>3. QED
      BY <3>1, <3>2
  <2>11. QED
    BY <2>5, <2>9, <2>10 DEF From
<1>3. QED
  BY <1>1, <1>2

\* The list behind the timer that fires.
LEMMA TailTimers ==
    ASSUME timers \in Seq(Timer), OneEach(timers), timers # <<>>
    PROVE  /\ Tail(timers) \in Seq(Timer) /\ OneEach(Tail(timers))
           /\ From(Tail(timers), timers)
           /\ Head(timers) = timers[1] /\ 1 \in DOMAIN timers
<1> DEFINE u == Tail(timers)
<1>1. /\ u \in Seq(Timer) /\ Len(u) = Len(timers) - 1 /\ Len(timers) \in Nat \ {0}
      /\ \A i \in 1..(Len(timers) - 1) : u[i] = timers[i + 1]
      /\ Head(timers) = timers[1]
  OBVIOUS
<1>2. DOMAIN u = 1..(Len(timers) - 1) /\ DOMAIN timers = 1..Len(timers)
  BY <1>1
<1> HIDE DEF u
<1>3. \A i \in DOMAIN u : i + 1 \in DOMAIN timers /\ u[i].proc = timers[i + 1].proc
  BY <1>1, <1>2
<1>4. From(u, timers)
  BY <1>3 DEF From
<1>5. \A i, j \in DOMAIN u : i + 1 = j + 1 => i = j
  BY <1>2
<1>6. OneEach(u)
  BY <1>3, <1>5 DEF OneEach
<1>7. 1 \in DOMAIN timers
  BY <1>1, <1>2
<1>8. QED
  BY <1>1, <1>4, <1>6, <1>7 DEF u

-----------------------------------------------------------------------------
(* The run queue.                                                          *)

States == {"UNINIT", "SLEEPING", "RUNNABLE", "ZOMBIE"}

LEMMA SingleRange ==
    ASSUME NEW S, NEW p \in S
    PROVE  <<p>> \in Seq(S) /\ IsInjective(<<p>>) /\ Range(<<p>>) = {p}
<1> DEFINE t == <<p>>
<1>1. t \in Seq(S) /\ DOMAIN t = {1} /\ t[1] = p
  OBVIOUS
<1> HIDE DEF t
<1>2. Range(t) = {p} /\ IsInjective(t)
  BY <1>1 DEF Range, IsInjective
<1>3. QED
  BY <1>1, <1>2 DEF t

\* Whom a conditional wakeup wakes.
LEMMA WhenRange ==
    ASSUME NEW S, NEW c \in BOOLEAN, NEW p, c => p \in S
    PROVE  /\ When(c, p) \in Seq(S) /\ IsInjective(When(c, p))
           /\ Range(When(c, p)) = IF c THEN {p} ELSE {}
<1>1. CASE c
  BY <1>1, SingleRange DEF When
<1>2. CASE ~c
  <2>1. When(c, p) = <<>> /\ <<>> \in Seq(S) /\ DOMAIN <<>> = {}
    BY <1>2 DEF When
  <2>2. QED
    BY <1>2, <2>1 DEF Range, IsInjective
<1>3. QED
  BY <1>1, <1>2

\* wakeup_proc keeps the queue exact, when it is given processes that are not
\* RUNNABLE and at most the current process changes its state besides.
LEMMA WakeupKeeps ==
    ASSUME TypeOK, RunQueueExact,
           NEW st \in [Pid -> States],
           NEW s \in Seq(Pid \ {Idle}), IsInjective(s),
           \A p \in Range(s) : state[p] # "RUNNABLE",
           \A p \in Pid \ {current} : st[p] = "RUNNABLE" <=> state[p] = "RUNNABLE",
           s = <<current>> \/ current \notin Range(s),
           Wakeup(st, s), current' = current
    PROVE  /\ RunQueueExact'
           /\ state' \in [Pid -> States]
           /\ wait_state' \in [Pid -> {"0", "CHILD", "TIMER"}]
           /\ runq' \in Seq(Pid)
           /\ time_slice' \in [Pid -> 0..MAX_TIME_SLICE]
           /\ \A p \in Pid :
                 /\ state'[p] = IF p \in Range(s) THEN "RUNNABLE" ELSE st[p]
                 /\ wait_state'[p] = IF p \in Range(s) THEN "0" ELSE wait_state[p]
<1> DEFINE queued == IF s = <<current>> THEN <<>> ELSE s
<1>1. /\ state' = [p \in Pid |-> IF p \in Range(s) THEN "RUNNABLE" ELSE st[p]]
      /\ wait_state' = [p \in Pid |-> IF p \in Range(s) THEN "0" ELSE wait_state[p]]
      /\ runq' = runq \o queued
      /\ time_slice' = [p \in Pid |-> IF p \in Range(queued) THEN Refill(time_slice[p])
                                      ELSE time_slice[p]]
  BY DEF Wakeup
<1>2. /\ queued \in Seq(Pid) /\ IsInjective(queued)
      /\ Range(queued) = Range(s) \ {current}
  <2>1. CASE s = <<current>>
    <3>1. <<>> \in Seq(Pid) /\ IsInjective(<<>>) /\ Range(<<>>) = {}
      BY WhenRange DEF Range, IsInjective
    <3>2. Range(s) \subseteq {current}
      BY <2>1 DEF Range
    <3>3. QED
      BY <2>1, <3>1, <3>2
  <2>2. CASE s # <<current>>
    <3>1. s \in Seq(Pid)
      OBVIOUS
    <3>2. QED
      BY <2>2, <3>1
  <2>3. QED
    BY <2>1, <2>2
<1> HIDE DEF queued
<1>3. Range(s) \subseteq Pid \ {Idle}
  BY DEF Range
<1>4. state' \in [Pid -> States]
  BY <1>1 DEF States
<1>5. wait_state' \in [Pid -> {"0", "CHILD", "TIMER"}]
  BY <1>1 DEF TypeOK
<1>6. time_slice' \in [Pid -> 0..MAX_TIME_SLICE]
  BY <1>1, BoundAssumption DEF TypeOK, Refill
<1>7. runq \in Seq(Pid) /\ IsInjective(runq)
      /\ Range(runq) = {p \in Pid \ {Idle, current} : state[p] = "RUNNABLE"}
  BY DEF TypeOK, RunQueueExact
<1>8. Range(runq) \cap Range(queued) = {}
  BY <1>2, <1>7
<1>9. /\ runq' \in Seq(Pid) /\ IsInjective(runq')
      /\ Range(runq') = Range(runq) \cup Range(queued)
  BY <1>1, <1>2, <1>7, <1>8, ConcatRange
<1>10. \A p \in Pid :
          /\ state'[p] = IF p \in Range(s) THEN "RUNNABLE" ELSE st[p]
          /\ wait_state'[p] = IF p \in Range(s) THEN "0" ELSE wait_state[p]
  BY <1>1
<1>11. Range(runq') = {p \in Pid \ {Idle, current} : state'[p] = "RUNNABLE"}
  BY <1>2, <1>3, <1>7, <1>9, <1>10
<1>12. RunQueueExact'
  BY <1>9, <1>11 DEF RunQueueExact
<1>13. QED
  BY <1>4, <1>5, <1>6, <1>9, <1>10, <1>12

-----------------------------------------------------------------------------
(* One lemma per action, or per group of actions that change the same parts *)
(* of the state.                                                           *)

\* Whoever executes code of its own is RUNNABLE and waits for nothing.
LEMMA Running ==
    ASSUME IInv, pc[current] \notin SchedPoints
    PROVE  /\ current \in Pid /\ state[current] = "RUNNABLE" /\ wait_state[current] = "0"
           /\ pc[current] # "idle" => current # Idle
  BY DEF IInv, TypeOK, PcState, WaitersSleep, SchedPoints

LEMMA TimerOwners ==
    ASSUME IInv
    PROVE  /\ timers \in Seq(Timer) /\ OneEach(timers)
           /\ \A i \in DOMAIN timers :
                 /\ timers[i] \in Timer /\ timers[i].proc \in Pid \ {Idle}
                 /\ pc[timers[i].proc] \in {"sleep_sched", "slept"}
                 /\ state[timers[i].proc] \in {"SLEEPING", "RUNNABLE"}
<1>1. timers \in Seq(Timer) /\ OneEach(timers)
  BY DEF IInv, TypeOK, TimersLive, Timer, OneEach
<1>2. \A i \in DOMAIN timers : timers[i] \in Timer
  BY <1>1
<1>3. \A r \in Timer : r.proc \in Pid \ {Idle}
  BY DEF Timer
<1>4. QED
  BY <1>1, <1>2, <1>3 DEF IInv, TimersLive, WaitersSleep

\* Where a process that runs may go without being parked.
Onward == {"user", "trapret", "do_wait", "exit", "yield_sched", "init_sched", "init_end"}

\* The current process goes on, and touches nothing but its own flags.
LEMMA Move ==
    ASSUME IInv, TypeOK',
           pc[current] \in {"user", "exec", "trapret", "do_wait", "waited", "init_end"},
           NEW l \in Onward, Goto(l),
           UNCHANGED <<state, wait_state, parent, runq, current, timers>>,
           \A q \in Pid : q # current => waitpid'[q] = waitpid[q]
    PROVE  IInv'
<1>1. /\ current \in Pid /\ state[current] = "RUNNABLE" /\ wait_state[current] = "0"
      /\ current # Idle
  BY Running DEF SchedPoints
<1>2. \A q \in Pid : pc'[q] = IF q = current THEN l ELSE pc[q]
  BY <1>1 DEF Goto, IInv, TypeOK
<1>3. RunQueueExact' /\ WaitersSleep' /\ Roots' /\ ParentAlive'
  BY DEF IInv, RunQueueExact, WaitersSleep, Roots, ParentAlive
<1>4. PcState'
  BY <1>1, <1>2 DEF IInv, PcState, Onward
<1>5. TimersLive'
  BY <1>1, <1>2, TimerOwners DEF IInv, TimersLive
<1>6. NoMissedExit'
  <2>1. \A p \in Pid : wait_state'[p] = "CHILD" => waitpid'[p] = waitpid[p]
    BY <1>1
  <2>2. \A p \in Pid : waitpid'[p] = waitpid[p] => Zombies(Awaited(p))' = Zombies(Awaited(p))
    BY DEF Zombies, Awaited, Kids
  <2>3. QED
    BY <2>1, <2>2 DEF IInv, NoMissedExit
<1>7. QED
  BY <1>3, <1>4, <1>5, <1>6 DEF IInv

LEMMA MoveSteps ==
    ASSUME IInv,
           NoEffect \/ SysExit \/ DoYield \/ (\E p \in Pid : SysWait(p)) \/ DoWaitNone
             \/ Waited \/ TrapReturn \/ InitEnd \/ UserMain
    PROVE  IInv'
<1>0. TypeOK
  BY DEF IInv
<1>1. CASE NoEffect
  <2>1. TypeOK'
    BY <1>0, <1>1 DEF TypeOK, NoEffect, Goto, At, family, frames, clock, PCs
  <2>2. QED
    BY <1>1, <2>1, Move DEF NoEffect, At, family, frames, clock, Onward
<1>2. CASE SysExit
  <2>1. TypeOK'
    BY <1>0, <1>2 DEF TypeOK, SysExit, Goto, At, family, frames, clock, PCs
  <2>2. QED
    BY <1>2, <2>1, Move DEF SysExit, At, family, frames, clock, Onward
<1>3. CASE DoYield
  <2>1. TypeOK'
    BY <1>0, <1>3 DEF TypeOK, DoYield, Goto, At, family, frames, clock, PCs
  <2>2. QED
    BY <1>3, <2>1, Move DEF DoYield, At, family, frames, clock, Onward
<1>4. CASE \E p \in Pid : SysWait(p)
  <2>1. PICK p \in Pid : SysWait(p)
    BY <1>4
  <2>2. TypeOK'
    BY <1>0, <2>1 DEF TypeOK, SysWait, Goto, At, family, clock, PCs
  <2>3. \A q \in Pid : q # current => waitpid'[q] = waitpid[q]
    BY <1>0, <2>1 DEF TypeOK, SysWait
  <2>4. QED
    BY <2>1, <2>2, <2>3, Move DEF SysWait, At, family, clock, Onward
<1>5. CASE DoWaitNone
  <2>1. Returned(FALSE) \in Onward
    BY DEF Returned, Onward
  <2>2. TypeOK'
    BY <1>0, <1>5 DEF TypeOK, DoWaitNone, Goto, At, family, clock, PCs, AnyChild, Pid, Returned
  <2>3. \A q \in Pid : q # current => waitpid'[q] = waitpid[q]
    BY <1>0, <1>5 DEF TypeOK, DoWaitNone
  <2>4. QED
    BY <1>5, <2>1, <2>2, <2>3, Move DEF DoWaitNone, At, family, clock
<1>6. CASE Waited
  <2>1. TypeOK'
    BY <1>0, <1>6 DEF TypeOK, Waited, Goto, At, family, frames, clock, PCs
  <2>2. QED
    BY <1>6, <2>1, Move DEF Waited, At, family, frames, clock, Onward
<1>7. CASE TrapReturn
  <2>1. PICK l \in {"exit", "yield_sched", "user"} : Goto(l)
    BY <1>7 DEF TrapReturn
  <2>2. TypeOK'
    BY <1>0, <1>7, <2>1 DEF TypeOK, TrapReturn, Goto, family, frames, clock, PCs, SchedPoints
  <2>3. l \in Onward
    BY DEF Onward
  <2>4. QED
    BY <1>7, <2>1, <2>2, <2>3, Move DEF TrapReturn, At, family, frames, clock
<1>8. CASE InitEnd
  <2>1. TypeOK'
    BY <1>0, <1>8 DEF TypeOK, InitEnd, Goto, At, family, frames, clock, PCs
  <2>2. QED
    BY <1>8, <2>1, Move DEF InitEnd, At, family, frames, clock, Onward
<1>9. CASE UserMain
  <2>1. PICK l \in {"exit", "user"} : Goto(l)
    BY <1>9 DEF UserMain
  <2>2. kthread' \in [Pid -> BOOLEAN]
    BY <1>0, <1>9 DEF UserMain, TypeOK
  <2>3. TypeOK'
    BY <1>0, <1>9, <2>1, <2>2 DEF TypeOK, UserMain, Goto, family, clock, PCs
  <2>4. l \in Onward
    BY DEF Onward
  <2>5. QED
    BY <1>9, <2>1, <2>3, <2>4, Move DEF UserMain, At, family, clock
<1>10. QED
  BY <1>1, <1>2, <1>3, <1>4, <1>5, <1>6, <1>7, <1>8, <1>9

LEMMA ScheduleStep ==
    ASSUME IInv, Schedule
    PROVE  IInv'
<1> DEFINE q == runq \o When(Requeue, current)
<1>1. /\ TypeOK /\ RunQueueExact /\ PcState /\ current \in Pid
      /\ runq \in Seq(Pid) /\ IsInjective(runq)
      /\ Range(runq) = {p \in Pid \ {Idle, current} : state[p] = "RUNNABLE"}
  BY DEF IInv, TypeOK, RunQueueExact
<1>2. /\ runq' = (IF q = <<>> THEN q ELSE Tail(q))
      /\ current' = (IF q = <<>> THEN Idle ELSE Head(q))
      /\ UNCHANGED <<state, wait_state, parent, timers, waitpid, exiting, nr_process, kthread,
                     left, irq, halted>>
  BY DEF Schedule, family, frames, clock
<1>3. /\ q \in Seq(Pid) /\ IsInjective(q)
      /\ Range(q) = {p \in Pid \ {Idle} : state[p] = "RUNNABLE"}
  <2>1. Requeue \in BOOLEAN
    BY DEF Requeue
  <2>2. /\ When(Requeue, current) \in Seq(Pid) /\ IsInjective(When(Requeue, current))
        /\ Range(When(Requeue, current)) = IF Requeue THEN {current} ELSE {}
    BY <1>1, <2>1, WhenRange
  <2>3. Range(runq) \cap Range(When(Requeue, current)) = {}
    BY <1>1, <2>2
  <2>4. /\ q \in Seq(Pid) /\ IsInjective(q)
        /\ Range(q) = Range(runq) \cup Range(When(Requeue, current))
    BY <1>1, <2>2, <2>3, ConcatRange
  <2>5. QED
    BY <1>1, <2>2, <2>4 DEF Requeue
<1> HIDE DEF q
<1>4. /\ runq' \in Seq(Pid) /\ current' \in Pid /\ RunQueueExact'
      /\ state[current'] = "RUNNABLE"
  <2>1. CASE q = <<>>
    <3>1. Range(q) = {} /\ state[Idle] = "RUNNABLE" /\ Idle \in Pid
      BY <1>1, <2>1 DEF Range, PcState, Pid
    <3>2. QED
      BY <1>2, <1>3, <2>1, <3>1 DEF RunQueueExact
  <2>2. CASE q # <<>>
    <3>1. /\ Tail(q) \in Seq(Pid) /\ IsInjective(Tail(q)) /\ Head(q) \in Range(q)
          /\ Range(Tail(q)) = Range(q) \ {Head(q)}
      BY <1>3, <2>2, TailRange
    <3>2. QED
      BY <1>2, <1>3, <2>2, <3>1 DEF RunQueueExact
  <2>3. QED
    BY <2>1, <2>2
<1>5. /\ pc' \in [Pid -> PCs]
      /\ \A p \in Pid : p # current => pc'[p] = pc[p]
      /\ pc[current] = "idle" => pc'[current] = "idle"
      /\ pc[current] # "idle" =>
            /\ pc[current] \in SchedPoints
            /\ pc'[current] = AfterSched[pc[current]]
  BY <1>1 DEF Schedule, TypeOK, AfterSched, SchedPoints, PCs
<1>6. PcState'
  <2>1. \A p \in Pid : p # current \/ pc[current] = "idle" => pc'[p] = pc[p]
    BY <1>5
  <2>2. CASE pc[current] = "idle"
    BY <1>1, <1>2, <1>4, <2>1, <2>2 DEF PcState
  <2>3. CASE pc[current] # "idle"
    <3>1. /\ pc[current] = "yield_sched" => pc'[current] = "user"
          /\ pc[current] = "wait_sched" => pc'[current] = "waited"
          /\ pc[current] = "sleep_sched" => pc'[current] = "slept"
          /\ pc[current] = "exit_sched" => pc'[current] = "dead"
          /\ pc[current] = "init_sched" => pc'[current] = "do_wait"
          /\ pc[current] \in SchedPoints
      BY <1>5, <2>3 DEF AfterSched, SchedPoints
    <3>2. QED
      BY <1>1, <1>2, <1>4, <1>5, <2>3, <3>1 DEF PcState, SchedPoints
  <2>4. QED
    BY <2>2, <2>3
<1>7. TimersLive'
  <2>1. \A p \in Pid : pc[p] \in {"sleep_sched", "slept"} => pc'[p] \in {"sleep_sched", "slept"}
    BY <1>5 DEF AfterSched, SchedPoints
  <2>2. QED
    BY <1>2, <2>1, TimerOwners DEF TimersLive, IInv
<1>8. WaitersSleep' /\ Roots' /\ ParentAlive'
  BY <1>2 DEF IInv, WaitersSleep, Roots, ParentAlive
<1>9. NoMissedExit'
  BY <1>2 DEF IInv, NoMissedExit, Zombies, Awaited, Kids
<1>10. /\ time_slice' \in [Pid -> 0..MAX_TIME_SLICE]
       /\ need_resched' \in [Pid -> BOOLEAN]
  BY <1>1, BoundAssumption DEF Schedule, TypeOK, Refill
<1>11. TypeOK'
  BY <1>1, <1>2, <1>4, <1>5, <1>10 DEF TypeOK
<1>12. QED
  BY <1>4, <1>6, <1>7, <1>8, <1>9, <1>11 DEF IInv

LEMMA NewProcStep ==
    ASSUME IInv, NEW c \in User, NEW l \in {"user", "exec"}, NEW ret \in {"trapret", "do_wait"},
           pc[current] \in {"user", "init_start"}, NewProc(c, l, ret)
    PROVE  IInv'
<1>1. /\ current \in Pid /\ state[current] = "RUNNABLE" /\ wait_state[current] = "0"
      /\ current # Idle
  BY Running DEF SchedPoints
<1>2. /\ c \in Pid /\ c # Idle /\ c # Init /\ c # current /\ state[c] = "UNINIT"
      /\ pc[c] = "none" /\ wait_state[c] = "0"
  BY <1>1, PidAssumption DEF NewProc, Pid, IInv, PcState, WaitersSleep
<1>3. /\ <<c>> \in Seq(Pid \ {Idle}) /\ IsInjective(<<c>>) /\ Range(<<c>>) = {c}
  BY <1>2, SingleRange
<1>4. TypeOK /\ RunQueueExact /\ state \in [Pid -> States] /\ current' = current
  BY DEF IInv, TypeOK, States, NewProc
<1>5. Wakeup(state, <<c>>)
  BY DEF NewProc
<1>6. /\ RunQueueExact'
      /\ state' \in [Pid -> States]
      /\ wait_state' \in [Pid -> {"0", "CHILD", "TIMER"}]
      /\ runq' \in Seq(Pid)
      /\ time_slice' \in [Pid -> 0..MAX_TIME_SLICE]
      /\ \A p \in Pid : /\ state'[p] = IF p = c THEN "RUNNABLE" ELSE state[p]
                        /\ wait_state'[p] = IF p = c THEN "0" ELSE wait_state[p]
  <2>1. \A p \in Range(<<c>>) : state[p] # "RUNNABLE"
    BY <1>2, <1>3
  <2>2. current \notin Range(<<c>>)
    BY <1>2, <1>3
  <2>3. QED
    BY <1>3, <1>4, <1>5, <2>1, <2>2, WakeupKeeps
<1>7. /\ \A p \in Pid : parent'[p] = IF p = c THEN current ELSE parent[p]
      /\ \A p \in Pid : pc'[p] = IF p = current THEN ret ELSE IF p = c THEN l ELSE pc[p]
      /\ UNCHANGED <<waitpid, timers, left, irq, halted>>
  BY <1>2, <1>4 DEF NewProc, TypeOK, clock
<1>8. TypeOK'
  <2>1. /\ parent' \in [Pid -> Pid \cup {NULL}] /\ pc' \in [Pid -> PCs]
        /\ exiting' \in [Pid -> BOOLEAN] /\ need_resched' \in [Pid -> BOOLEAN]
        /\ kthread' \in [Pid -> BOOLEAN] /\ nr_process' \in Int
    <3>1. parent' \in [Pid -> Pid \cup {NULL}]
      BY <1>1, <1>4 DEF NewProc, TypeOK
    <3>2. pc' \in [Pid -> PCs]
      BY <1>1, <1>4 DEF NewProc, TypeOK, PCs
    <3>3. exiting' \in [Pid -> BOOLEAN] /\ need_resched' \in [Pid -> BOOLEAN]
      BY <1>4 DEF NewProc, TypeOK
    <3>4. kthread' \in [Pid -> BOOLEAN]
      BY <1>4, (l = "exec") \in BOOLEAN DEF NewProc, TypeOK
    <3>5. nr_process' \in Int
      BY <1>4 DEF NewProc, TypeOK
    <3>6. QED
      BY <3>1, <3>2, <3>3, <3>4, <3>5
  <2>2. QED
    BY <1>4, <1>6, <1>7, <2>1 DEF TypeOK, States
<1>9. WaitersSleep'
  <2>1. \A p \in Pid : wait_state'[p] # "0" <=> state'[p] = "SLEEPING"
    BY <1>2, <1>6 DEF IInv, WaitersSleep
  <2>2. \A i \in DOMAIN timers : state'[timers[i].proc] \in {"SLEEPING", "RUNNABLE"}
    BY <1>6, TimerOwners
  <2>3. QED
    BY <1>7, <2>1, <2>2 DEF WaitersSleep
<1>10. PcState'
  <2>1. \A p \in Pid : p # c => state'[p] = state[p]
    BY <1>6
  <2>2. \A p \in Pid : p # c /\ p # current => pc'[p] = pc[p]
    BY <1>7
  <2>3. state'[c] = "RUNNABLE" /\ pc'[c] = l /\ pc'[current] = ret
    BY <1>1, <1>2, <1>6, <1>7
  <2>4. Idle \in Pid /\ Init \in Pid
    BY DEF Pid
  <2>5. QED
    BY <1>1, <1>2, <1>4, <2>1, <2>2, <2>3, <2>4 DEF IInv, PcState
<1>11. TimersLive'
  BY <1>1, <1>2, <1>7, TimerOwners DEF IInv, TimersLive
<1>12. Roots'
  BY <1>2, <1>7 DEF IInv, Roots, Pid
<1>13. ParentAlive'
  <2>1. \A p \in Pid : state[p] \in {"SLEEPING", "RUNNABLE"} => state'[p] = state[p]
    BY <1>2, <1>6
  <2>2. parent'[c] = current /\ state'[current] = "RUNNABLE"
    BY <1>1, <1>2, <1>6, <1>7
  <2>3. \A p \in Pid : p # c => state'[p] = state[p] /\ parent'[p] = parent[p]
    BY <1>6, <1>7
  <2>4. QED
    BY <1>1, <2>1, <2>2, <2>3 DEF IInv, ParentAlive
<1>14. NoMissedExit'
  BY <1>2, <1>6, <1>7 DEF IInv, NoMissedExit, Zombies, Awaited, Kids
<1>15. QED
  BY <1>6, <1>8, <1>9, <1>10, <1>11, <1>12, <1>13, <1>14 DEF IInv

LEMMA DoKillStep ==
    ASSUME IInv, NEW k \in Pid, DoKill(k)
    PROVE  IInv'
<1> DEFINE c == Interruptible(wait_state[k])
           s == When(c, k)
<1>1. /\ current \in Pid /\ state[current] = "RUNNABLE" /\ wait_state[current] = "0"
      /\ current # Idle
  BY Running DEF SchedPoints, DoKill, At
<1>2. k # Idle /\ (c => state[k] = "SLEEPING") /\ c \in BOOLEAN
  BY DEF DoKill, Interruptible, IInv, WaitersSleep
<1>3. /\ s \in Seq(Pid \ {Idle}) /\ IsInjective(s) /\ Range(s) = IF c THEN {k} ELSE {}
  <2>1. c => k \in Pid \ {Idle}
    BY DEF DoKill
  <2> HIDE DEF c
  <2>2. QED
    BY <1>2, <2>1, WhenRange
<1>4. TypeOK /\ RunQueueExact /\ state \in [Pid -> States] /\ current' = current
  BY DEF IInv, TypeOK, States, DoKill
<1>5. Wakeup(state, s)
  BY DEF DoKill
<1> HIDE DEF c, s
<1>6. /\ RunQueueExact'
      /\ state' \in [Pid -> States]
      /\ wait_state' \in [Pid -> {"0", "CHILD", "TIMER"}]
      /\ runq' \in Seq(Pid)
      /\ time_slice' \in [Pid -> 0..MAX_TIME_SLICE]
      /\ \A p \in Pid :
            /\ state'[p] = IF p \in Range(s) THEN "RUNNABLE" ELSE state[p]
            /\ wait_state'[p] = IF p \in Range(s) THEN "0" ELSE wait_state[p]
  <2>1. \A p \in Range(s) : state[p] # "RUNNABLE"
    BY <1>2, <1>3
  <2>2. current \notin Range(s)
    BY <1>1, <1>2, <1>3
  <2>3. QED
    BY <1>3, <1>4, <1>5, <2>1, <2>2, WakeupKeeps
<1>7. /\ \A p \in Pid : pc'[p] = IF p = current THEN "trapret" ELSE pc[p]
      /\ pc[current] = "user"
      /\ UNCHANGED <<waitpid, timers, left, irq, halted, parent, nr_process, need_resched, kthread>>
  BY <1>4 DEF DoKill, At, Goto, TypeOK, clock, frames, family
<1>8. TypeOK'
  <2>1. pc' \in [Pid -> PCs] /\ exiting' \in [Pid -> BOOLEAN]
    BY <1>4 DEF DoKill, Goto, TypeOK, PCs
  <2>2. QED
    BY <1>4, <1>6, <1>7, <2>1 DEF TypeOK, States
<1>9. \A p \in Range(s) : p \in Pid /\ state[p] = "SLEEPING"
  BY <1>2, <1>3
<1>10. WaitersSleep'
  <2>1. \A p \in Pid : wait_state'[p] # "0" <=> state'[p] = "SLEEPING"
    BY <1>6 DEF IInv, WaitersSleep
  <2>2. \A i \in DOMAIN timers : state'[timers[i].proc] \in {"SLEEPING", "RUNNABLE"}
    BY <1>6, TimerOwners
  <2>3. QED
    BY <1>7, <2>1, <2>2 DEF WaitersSleep
<1>11. PcState'
  <2>1. PcState /\ Idle \in Pid /\ Init \in Pid
    BY DEF IInv, Pid
  <2>2. \A p \in Pid : /\ p # current => pc'[p] = pc[p]
                       /\ p = current => pc'[p] = "trapret" /\ pc[p] = "user"
    BY <1>7
  <2>3. \A p \in Pid : \/ state'[p] = state[p]
                       \/ p # current /\ state[p] = "SLEEPING" /\ state'[p] = "RUNNABLE"
    BY <1>1, <1>6, <1>9
  <2>4. QED
    BY <1>1, <1>4, <2>1, <2>2, <2>3 DEF PcState
<1>12. TimersLive'
  BY <1>7, TimerOwners DEF IInv, TimersLive
<1>13. Roots' /\ ParentAlive'
  BY <1>6, <1>7, <1>9 DEF IInv, Roots, ParentAlive
<1>14. NoMissedExit'
  <2>1. \A p \in Pid : wait_state'[p] = "CHILD" => wait_state[p] = "CHILD"
    BY <1>6
  <2>2. \A p \in Pid : state'[p] = "ZOMBIE" => state[p] = "ZOMBIE"
    BY <1>6
  <2>3. QED
    BY <1>7, <2>1, <2>2 DEF IInv, NoMissedExit, Zombies, Awaited, Kids
<1>15. QED
  BY <1>6, <1>8, <1>10, <1>11, <1>12, <1>13, <1>14 DEF IInv

LEMMA DoWaitReapStep ==
    ASSUME IInv, NEW c \in User, DoWaitReap(c)
    PROVE  IInv'
<1>1. /\ current \in Pid /\ state[current] = "RUNNABLE" /\ wait_state[current] = "0"
      /\ current # Idle
  BY Running DEF SchedPoints, DoWaitReap, At
<1>2. TypeOK /\ PcState
  BY DEF IInv
<1>3. /\ c \in Pid /\ c # Idle /\ c # Init /\ c # current /\ state[c] = "ZOMBIE"
      /\ pc[c] \in {"exit_sched", "dead"} /\ wait_state[c] = "0"
  BY <1>1, PidAssumption DEF DoWaitReap, Zombies, Pid, IInv, PcState, WaitersSleep
<1>4. /\ \A p \in Pid : p # c => state'[p] = state[p] /\ parent'[p] = parent[p]
      /\ \A p \in Pid : p # c /\ p # current => pc'[p] = pc[p] /\ waitpid'[p] = waitpid[p]
      /\ state'[c] = "UNINIT" /\ pc'[c] = "none"
      /\ pc'[current] \in {"trapret", "init_sched"} /\ pc[current] = "do_wait"
      /\ UNCHANGED <<wait_state, runq, need_resched, current, timers, left, irq, halted>>
  BY <1>1, <1>2, <1>3 DEF DoWaitReap, At, TypeOK, clock, Returned
<1>5. TypeOK'
  <2>1. state' \in [Pid -> {"UNINIT", "SLEEPING", "RUNNABLE", "ZOMBIE"}]
    BY <1>2 DEF DoWaitReap, TypeOK
  <2>2. exiting' \in [Pid -> BOOLEAN] /\ kthread' \in [Pid -> BOOLEAN]
    BY <1>2 DEF DoWaitReap, TypeOK
  <2>3. parent' \in [Pid -> Pid \cup {NULL}]
    BY <1>2 DEF DoWaitReap, TypeOK
  <2>4. nr_process' \in Int /\ time_slice' \in [Pid -> 0..MAX_TIME_SLICE]
    <3>1. nr_process' \in Int
      BY <1>2 DEF DoWaitReap, TypeOK
    <3>2. 0 \in 0..MAX_TIME_SLICE
      BY BoundAssumption
    <3>3. time_slice' \in [Pid -> 0..MAX_TIME_SLICE]
      BY <1>2, <3>2 DEF DoWaitReap, TypeOK
    <3>4. QED
      BY <3>1, <3>3
  <2>5. pc' \in [Pid -> PCs]
    BY <1>2 DEF DoWaitReap, TypeOK, PCs, SchedPoints, Returned
  <2>6. waitpid' \in [Pid -> Pid]
    BY <1>2 DEF DoWaitReap, TypeOK, AnyChild, Pid
  <2>7. QED
    BY <1>2, <1>4, <2>1, <2>2, <2>3, <2>4, <2>5, <2>6 DEF TypeOK
<1>6. RunQueueExact'
  <2>1. \A p \in Pid : state'[p] = "RUNNABLE" <=> state[p] = "RUNNABLE"
    BY <1>3, <1>4
  <2>2. QED
    BY <1>4, <2>1 DEF IInv, RunQueueExact
<1>7. \A i \in DOMAIN timers : timers[i].proc \in Pid /\ timers[i].proc # c /\ timers[i].proc # current
  BY <1>3, <1>4, TimerOwners
<1>8. WaitersSleep'
  <2>1. \A p \in Pid : wait_state'[p] # "0" <=> state'[p] = "SLEEPING"
    BY <1>3, <1>4 DEF IInv, WaitersSleep
  <2>2. \A i \in DOMAIN timers : state'[timers[i].proc] \in {"SLEEPING", "RUNNABLE"}
    BY <1>4, <1>7, TimerOwners
  <2>3. QED
    BY <1>4, <2>1, <2>2 DEF WaitersSleep
<1>9. PcState'
  <2>1. Idle \in Pid /\ Init \in Pid
    BY DEF Pid
  <2>2. QED
    BY <1>1, <1>2, <1>3, <1>4, <2>1 DEF PcState
<1>10. TimersLive'
  BY <1>4, <1>7 DEF IInv, TimersLive
<1>11. Roots'
  <2>1. Idle \in Pid /\ Init \in Pid /\ parent'[c] # c
    BY <1>2, <1>3, PidAssumption DEF Pid, DoWaitReap, TypeOK
  <2>2. QED
    BY <1>3, <1>4, <2>1 DEF IInv, Roots
<1>12. ParentAlive'
  <2>1. \A p \in Pid : state[p] \in {"SLEEPING", "RUNNABLE"} => state'[p] = state[p]
    BY <1>3, <1>4
  <2>2. QED
    BY <1>4, <2>1 DEF IInv, ParentAlive
<1>13. NoMissedExit'
  <2>1. \A p \in Pid : state'[p] = "ZOMBIE" => state[p] = "ZOMBIE" /\ parent'[p] = parent[p]
    BY <1>3, <1>4
  <2>2. \A p \in Pid : wait_state'[p] = "CHILD" => waitpid'[p] = waitpid[p]
    BY <1>1, <1>3, <1>4
  <2>3. QED
    BY <1>4, <2>1, <2>2 DEF IInv, NoMissedExit, Zombies, Awaited, Kids
<1>14. QED
  BY <1>5, <1>6, <1>8, <1>9, <1>10, <1>11, <1>12, <1>13 DEF IInv

\* do_wait and do_sleep put the current process to sleep.
LEMMA FallAsleep ==
    ASSUME IInv, TypeOK',
           pc[current] \in {"user", "do_wait"},
           NEW l \in {"wait_sched", "sleep_sched"}, Goto(l),
           NEW w \in {"CHILD", "TIMER"},
           state' = [state EXCEPT ![current] = "SLEEPING"],
           wait_state' = [wait_state EXCEPT ![current] = w],
           w = "CHILD" => Zombies(Awaited(current)) = {},
           UNCHANGED <<parent, runq, current, waitpid>>,
           \A i \in DOMAIN timers' :
              \/ timers'[i].proc = current /\ l = "sleep_sched"
              \/ \E j \in DOMAIN timers : timers'[i].proc = timers[j].proc,
           OneEach(timers')
    PROVE  IInv'
<1>1. /\ current \in Pid /\ state[current] = "RUNNABLE" /\ wait_state[current] = "0"
      /\ current # Idle
  BY Running DEF SchedPoints
<1>2. TypeOK /\ PcState
  BY DEF IInv
<1>3. /\ \A p \in Pid : p # current =>
            state'[p] = state[p] /\ pc'[p] = pc[p] /\ wait_state'[p] = wait_state[p]
      /\ state'[current] = "SLEEPING" /\ pc'[current] = l /\ wait_state'[current] = w
  BY <1>1, <1>2 DEF TypeOK, Goto
<1>4. RunQueueExact'
  BY <1>3 DEF IInv, RunQueueExact
<1>5. \A i \in DOMAIN timers' :
         \/ timers'[i].proc = current /\ l = "sleep_sched"
         \/ /\ timers'[i].proc \in Pid /\ timers'[i].proc # current
            /\ pc[timers'[i].proc] \in {"sleep_sched", "slept"}
            /\ state[timers'[i].proc] \in {"SLEEPING", "RUNNABLE"}
  BY TimerOwners
<1>6. WaitersSleep'
  <2>1. \A p \in Pid : wait_state'[p] # "0" <=> state'[p] = "SLEEPING"
    BY <1>1, <1>3 DEF IInv, WaitersSleep
  <2>2. \A i \in DOMAIN timers' : state'[timers'[i].proc] \in {"SLEEPING", "RUNNABLE"}
    BY <1>3, <1>5
  <2>3. QED
    BY <2>1, <2>2 DEF WaitersSleep
<1>7. PcState'
  <2>1. Idle \in Pid /\ Init \in Pid
    BY DEF Pid
  <2>2. QED
    BY <1>1, <1>2, <1>3, <2>1 DEF PcState
<1>8. TimersLive'
  <2>1. \A i \in DOMAIN timers' : pc'[timers'[i].proc] \in {"sleep_sched", "slept"}
    BY <1>3, <1>5
  <2>2. QED
    BY <2>1 DEF TimersLive, OneEach
<1>9. Roots' /\ ParentAlive'
  <2>1. \A p \in Pid : state[p] \in {"SLEEPING", "RUNNABLE"} => state'[p] \in {"SLEEPING", "RUNNABLE"}
    BY <1>3
  <2>2. QED
    BY <1>1, <1>3, <2>1 DEF IInv, Roots, ParentAlive
<1>10. NoMissedExit'
  <2>1. \A p \in Pid : state'[p] = "ZOMBIE" => state[p] = "ZOMBIE"
    BY <1>3
  <2>2. \A p \in Pid : wait_state'[p] = "CHILD" => Zombies(Awaited(p)) = {}
    BY <1>3 DEF IInv, NoMissedExit
  <2>3. QED
    BY <2>1, <2>2 DEF NoMissedExit, Zombies, Awaited, Kids
<1>11. QED
  BY <1>4, <1>6, <1>7, <1>8, <1>9, <1>10 DEF IInv

LEMMA SleepSteps ==
    ASSUME IInv, DoWaitSleep \/ \E t \in 1..SLEEP_MAX : DoSleep(t)
    PROVE  IInv'
<1>0. TypeOK /\ timers \in Seq(Timer) /\ OneEach(timers)
  BY TimerOwners DEF IInv
<1>1. CASE DoWaitSleep
  <2>1. TypeOK'
    BY <1>0, <1>1 DEF TypeOK, DoWaitSleep, Goto, family, frames, clock, PCs, SchedPoints
  <2>2. OneEach(timers') /\ timers' = timers
    BY <1>0, <1>1 DEF DoWaitSleep, clock
  <2>3. QED
    BY <1>1, <2>1, <2>2, FallAsleep DEF DoWaitSleep, At, family, frames
<1>2. CASE \E t \in 1..SLEEP_MAX : DoSleep(t)
  <2>1. PICK t \in 1..SLEEP_MAX : DoSleep(t)
    BY <1>2
  <2>2. t \in Nat
    OBVIOUS
  <2>3. current \in Pid \ {Idle} /\ pc[current] = "user"
    BY <2>1, Running DEF DoSleep, At, SchedPoints
  <2>4. \A i \in DOMAIN timers : timers[i].proc # current
    BY <2>3, TimerOwners
  <2>5. AddTimer(current, t)
    BY <2>1 DEF DoSleep
  <2>6. /\ timers' \in Seq(Timer) /\ OneEach(timers')
        /\ \A i \in DOMAIN timers' :
              timers'[i].proc = current \/ \E j \in DOMAIN timers : timers'[i].proc = timers[j].proc
    BY <1>0, <2>2, <2>3, <2>4, <2>5, AddTimerKeeps
  <2>7. TypeOK'
    <3>1. timers' \in Seq([proc : Pid \ {Idle}, expires : Int])
      BY <2>6 DEF Timer
    <3>2. left' \in [Pid -> Nat]
      BY <1>0, <2>1, <2>2 DEF TypeOK, DoSleep
    <3>3. QED
      BY <1>0, <2>1, <3>1, <3>2
         DEF TypeOK, DoSleep, Goto, family, frames, PCs, SchedPoints
  <2>8. QED
    BY <2>1, <2>3, <2>6, <2>7, FallAsleep DEF DoSleep, family, frames
<1>3. QED
  BY <1>1, <1>2

LEMMA SleptStep ==
    ASSUME IInv, Slept
    PROVE  IInv'
<1>1. /\ current \in Pid /\ state[current] = "RUNNABLE" /\ wait_state[current] = "0"
      /\ current # Idle /\ pc[current] = "slept"
  BY Running DEF SchedPoints, Slept, At
<1>2. TypeOK /\ PcState /\ timers \in Seq(Timer) /\ OneEach(timers)
  BY TimerOwners DEF IInv
<1>3. /\ timers' \in Seq(Timer) /\ OneEach(timers') /\ From(timers', timers)
      /\ \A i \in DOMAIN timers' : timers'[i].proc # current
  BY <1>2, DelTimerKeeps DEF Slept
<1>4. /\ \A p \in Pid : p # current => pc'[p] = pc[p]
      /\ pc'[current] = "trapret"
      /\ UNCHANGED <<state, wait_state, parent, runq, current, waitpid>>
  BY <1>1, <1>2 DEF TypeOK, Slept, Goto, family, frames
<1>5. TypeOK'
  <2>1. timers' \in Seq([proc : Pid \ {Idle}, expires : Int])
    BY <1>3 DEF Timer
  <2>2. QED
    BY <1>2, <2>1 DEF TypeOK, Slept, Goto, family, frames, PCs
<1>6. RunQueueExact' /\ Roots' /\ ParentAlive'
  BY <1>4 DEF IInv, RunQueueExact, Roots, ParentAlive
<1>7. \A i \in DOMAIN timers' :
         /\ timers'[i].proc \in Pid /\ timers'[i].proc # current
         /\ pc[timers'[i].proc] \in {"sleep_sched", "slept"}
         /\ state[timers'[i].proc] \in {"SLEEPING", "RUNNABLE"}
  BY <1>3, TimerOwners DEF From
<1>8. WaitersSleep'
  BY <1>4, <1>7 DEF IInv, WaitersSleep
<1>9. PcState'
  BY <1>1, <1>2, <1>4 DEF PcState
<1>10. TimersLive'
  BY <1>3, <1>4, <1>7 DEF TimersLive, OneEach
<1>11. NoMissedExit'
  BY <1>4 DEF IInv, NoMissedExit, Zombies, Awaited, Kids
<1>12. QED
  BY <1>5, <1>6, <1>8, <1>9, <1>10, <1>11 DEF IInv

\* do_exit wakes sleepers, never itself.
LEMMA ExitWakesRange ==
    ASSUME IInv, At("exit"), current # Init
    PROVE  LET p == parent[current]
               z == p # Init /\ wait_state[Init] = "CHILD" /\ Zombies(Kids(current)) # {}
           IN /\ ExitWakes \in Seq(Pid \ {Idle}) /\ IsInjective(ExitWakes)
              /\ Range(ExitWakes) = (IF wait_state[p] = "CHILD" THEN {p} ELSE {})
                                      \cup (IF z THEN {Init} ELSE {})
              /\ \A q \in Range(ExitWakes) : state[q] = "SLEEPING"
              /\ current \notin Range(ExitWakes)
<1> DEFINE p == parent[current]
           w == wait_state[p] = "CHILD"
           z == p # Init /\ wait_state[Init] = "CHILD" /\ Zombies(Kids(current)) # {}
           a == When(w, p)
           b == When(z, Init)
<1>1. /\ current \in Pid /\ state[current] = "RUNNABLE" /\ current # Idle
  BY Running DEF SchedPoints, At
<1>2. p \in Pid /\ p # current /\ Init \in Pid /\ Init # Idle
  BY <1>1, PidAssumption DEF IInv, ParentAlive, Roots, Pid
<1>3. /\ w => p # Idle /\ state[p] = "SLEEPING"
      /\ z => state[Init] = "SLEEPING" /\ p # Init
  BY <1>2 DEF IInv, WaitersSleep, PcState
<1>4. ExitWakes = a \o b
  BY DEF ExitWakes
<1>5. w \in BOOLEAN /\ z \in BOOLEAN
  OBVIOUS
<1> HIDE DEF p, w, z
<1>6. /\ a \in Seq(Pid \ {Idle}) /\ IsInjective(a) /\ Range(a) = IF w THEN {p} ELSE {}
  BY <1>2, <1>3, <1>5, WhenRange
<1>7. /\ b \in Seq(Pid \ {Idle}) /\ IsInjective(b) /\ Range(b) = IF z THEN {Init} ELSE {}
  BY <1>2, <1>3, <1>5, WhenRange
<1> HIDE DEF a, b
<1>8. Range(a) \cap Range(b) = {}
  BY <1>3, <1>6, <1>7
<1>9. /\ ExitWakes \in Seq(Pid \ {Idle}) /\ IsInjective(ExitWakes)
      /\ Range(ExitWakes) = Range(a) \cup Range(b)
  <2>1. /\ a \o b \in Seq(Pid \ {Idle}) /\ IsInjective(a \o b)
        /\ Range(a \o b) = Range(a) \cup Range(b)
    BY <1>6, <1>7, <1>8, ConcatRange
  <2>2. QED
    BY <1>4, <2>1
<1>10. \A q \in Range(ExitWakes) : state[q] = "SLEEPING" /\ q # current
  BY <1>1, <1>2, <1>3, <1>6, <1>7, <1>9
<1>11. Range(ExitWakes) = (IF w THEN {p} ELSE {}) \cup (IF z THEN {Init} ELSE {})
  BY <1>6, <1>7, <1>9
<1>12. QED
  BY <1>9, <1>10, <1>11 DEF p, w, z

LEMMA DoExitStep ==
    ASSUME IInv, DoExit
    PROVE  IInv'
<1> DEFINE st == [state EXCEPT ![current] = "ZOMBIE"]
           s == ExitWakes
           par == parent[current]
<1>1. /\ current \in Pid /\ state[current] = "RUNNABLE" /\ wait_state[current] = "0"
      /\ current # Idle /\ current # Init /\ pc[current] = "exit" /\ At("exit")
  BY Running DEF SchedPoints, DoExit, At
<1>2. TypeOK /\ RunQueueExact /\ PcState /\ current' = current
  BY DEF IInv, DoExit
<1>3. /\ st \in [Pid -> States] /\ st[current] = "ZOMBIE"
      /\ \A p \in Pid : p # current => st[p] = state[p]
  BY <1>1, <1>2 DEF TypeOK, States
<1>4. /\ s \in Seq(Pid \ {Idle}) /\ IsInjective(s)
      /\ \A q \in Range(s) : state[q] = "SLEEPING"
      /\ current \notin Range(s)
  BY <1>1, ExitWakesRange
<1>5. /\ wait_state[par] = "CHILD" => par \in Range(s)
      /\ par # Init /\ wait_state[Init] = "CHILD" /\ Zombies(Kids(current)) # {} => Init \in Range(s)
  BY <1>1, ExitWakesRange
<1>6. Wakeup(st, s)
  BY DEF DoExit
<1> HIDE DEF st, s
<1>7. /\ RunQueueExact'
      /\ state' \in [Pid -> States]
      /\ wait_state' \in [Pid -> {"0", "CHILD", "TIMER"}]
      /\ runq' \in Seq(Pid)
      /\ time_slice' \in [Pid -> 0..MAX_TIME_SLICE]
      /\ \A p \in Pid :
            /\ state'[p] = IF p \in Range(s) THEN "RUNNABLE" ELSE st[p]
            /\ wait_state'[p] = IF p \in Range(s) THEN "0" ELSE wait_state[p]
  BY <1>2, <1>3, <1>4, <1>6, WakeupKeeps
<1>8. /\ state'[current] = "ZOMBIE" /\ wait_state'[current] = "0"
      /\ \A p \in Pid : p # current /\ p \notin Range(s) =>
            state'[p] = state[p] /\ wait_state'[p] = wait_state[p]
      /\ \A p \in Pid : p \in Range(s) =>
            /\ p # current /\ state[p] = "SLEEPING"
            /\ state'[p] = "RUNNABLE" /\ wait_state'[p] = "0"
  BY <1>1, <1>3, <1>4, <1>7
<1>9. /\ \A p \in Pid : p # current => pc'[p] = pc[p]
      /\ pc'[current] = "exit_sched"
      /\ \A p \in Pid : parent'[p] = IF p \in Kids(current) THEN Init ELSE parent[p]
      /\ UNCHANGED <<waitpid, timers, left, irq, halted, exiting, nr_process, need_resched, kthread>>
  BY <1>1, <1>2 DEF DoExit, Goto, TypeOK, Reparented, frames, clock
<1>10. TypeOK'
  <2>1. pc' \in [Pid -> PCs]
    BY <1>2 DEF DoExit, Goto, TypeOK, PCs, SchedPoints
  <2>2. parent' \in [Pid -> Pid \cup {NULL}]
    BY <1>2 DEF DoExit, Reparented, TypeOK, Pid
  <2>3. QED
    BY <1>2, <1>7, <1>9, <2>1, <2>2 DEF TypeOK, States
<1>11. \A i \in DOMAIN timers : timers[i].proc \in Pid /\ timers[i].proc # current
  BY <1>1, TimerOwners
<1>12. WaitersSleep'
  <2>1. \A p \in Pid : wait_state'[p] # "0" <=> state'[p] = "SLEEPING"
    BY <1>8 DEF IInv, WaitersSleep
  <2>2. \A i \in DOMAIN timers : state'[timers[i].proc] \in {"SLEEPING", "RUNNABLE"}
    BY <1>8, <1>11, TimerOwners
  <2>3. QED
    BY <1>9, <2>1, <2>2 DEF WaitersSleep
<1>13. PcState'
  <2>1. Idle \in Pid /\ Init \in Pid
    BY DEF Pid
  <2>2. \A p \in Pid : p # current =>
           state'[p] = state[p] \/ (state[p] = "SLEEPING" /\ state'[p] = "RUNNABLE")
    BY <1>8
  <2>3. QED
    BY <1>1, <1>2, <1>8, <1>9, <2>1, <2>2 DEF PcState
<1>14. TimersLive'
  BY <1>9, <1>11 DEF IInv, TimersLive
<1>15. /\ Idle \notin Kids(current) /\ Init \notin Kids(current) /\ current \notin Kids(current)
       /\ Idle \in Pid /\ Init \in Pid
  BY <1>1, PidAssumption DEF IInv, Roots, Kids, Pid
<1>16. Roots'
  BY <1>9, <1>15 DEF IInv, Roots
<1>17. \A p \in Pid : p # current /\ state[p] \in {"SLEEPING", "RUNNABLE"} =>
          state'[p] \in {"SLEEPING", "RUNNABLE"}
  BY <1>8
<1>18. \A p \in Pid : state'[p] = "UNINIT" <=> state[p] = "UNINIT"
  BY <1>1, <1>8
<1>19. ParentAlive'
  <2>1. state[Init] \in {"SLEEPING", "RUNNABLE"}
    BY <1>2 DEF PcState
  <2>2. \A p \in Pid \ {Idle} : state[p] # "UNINIT" /\ p \notin Kids(current) => parent[p] # current
    BY DEF Kids
  <2>3. QED
    BY <1>1, <1>9, <1>15, <1>17, <1>18, <2>1, <2>2 DEF IInv, ParentAlive
<1>20. NoMissedExit'
  <2> SUFFICES ASSUME NEW p \in Pid, wait_state'[p] = "CHILD",
                      NEW c \in Pid, state'[c] = "ZOMBIE", parent'[c] = p,
                      waitpid[p] = AnyChild \/ c = waitpid[p]
               PROVE  FALSE
    BY <1>9 DEF NoMissedExit, Zombies, Awaited, Kids
  <2>1. wait_state[p] = "CHILD" /\ p \notin Range(s) /\ p # par
    BY <1>5, <1>8
  <2>2. CASE c = current
    BY <1>9, <1>15, <2>1, <2>2
  <2>3. CASE c # current
    <3>1. state[c] = "ZOMBIE"
      BY <1>8, <2>3
    <3>2. CASE c \in Kids(current)
      <4>1. p = Init /\ c \in Zombies(Kids(current))
        BY <1>9, <3>1, <3>2 DEF Zombies
      <4>2. QED
        BY <1>5, <2>1, <4>1
    <3>3. CASE c \notin Kids(current)
      <4>1. parent[c] = p
        BY <1>9, <3>3
      <4>2. c \in Zombies(Awaited(p))
        BY <3>1, <4>1 DEF Zombies, Awaited, Kids
      <4>3. QED
        BY <2>1, <4>2 DEF IInv, NoMissedExit
    <3>4. QED
      BY <3>2, <3>3
  <2>4. QED
    BY <2>2, <2>3
<1>21. QED
  BY <1>7, <1>10, <1>12, <1>13, <1>14, <1>16, <1>19, <1>20 DEF IInv

\* Steps of the timer interrupt but for the wakeups, and init's panic: nobody
\* changes state.
LEMMA QuietSteps ==
    ASSUME IInv, InitExit \/ Tick \/ ProcTick \/ UNCHANGED vars
    PROVE  IInv'
<1>0. TypeOK /\ current \in Pid /\ timers \in Seq(Timer) /\ OneEach(timers)
  BY TimerOwners DEF IInv, TypeOK
<1>1. CASE InitExit
  <2>1. TypeOK'
    BY <1>0, <1>1 DEF TypeOK, InitExit, family, frames, clock
  <2>2. QED
    BY <1>1, <2>1 DEF InitExit, IInv, RunQueueExact, WaitersSleep, PcState, TimersLive, Roots,
                      ParentAlive, NoMissedExit, Zombies, Awaited, Kids, family, frames, clock
<1>2. CASE Tick
  <2>1. /\ timers' = Shift(timers, 1, -1)
        /\ UNCHANGED <<state, wait_state, parent, runq, current, pc, waitpid>>
    BY <1>2 DEF Tick, family, frames
  <2>2. /\ timers' \in Seq(Timer) /\ Len(timers') = Len(timers)
        /\ \A i \in 1..Len(timers) : timers'[i].proc = timers[i].proc
    <3>1. 1 \in Nat \ {0} /\ -1 \in Int
      OBVIOUS
    <3>2. QED
      BY <1>0, <2>1, <3>1, ShiftKeeps
  <2>3. DOMAIN timers' = DOMAIN timers /\ \A i \in DOMAIN timers : timers'[i].proc = timers[i].proc
    BY <1>0, <2>2
  <2>4. TypeOK'
    <3>1. timers' \in Seq([proc : Pid \ {Idle}, expires : Int])
      BY <2>2 DEF Timer
    <3>2. left' \in [Pid -> Nat]
      BY <1>0, <1>2 DEF TypeOK, Tick
    <3>3. QED
      BY <1>0, <1>2, <3>1, <3>2 DEF TypeOK, Tick, family, frames
  <2>5. WaitersSleep' /\ TimersLive'
    BY <2>1, <2>3 DEF IInv, WaitersSleep, TimersLive
  <2>6. RunQueueExact' /\ PcState' /\ Roots' /\ ParentAlive'
    BY <2>1 DEF IInv, RunQueueExact, PcState, Roots, ParentAlive
  <2>7. NoMissedExit'
    BY <2>1 DEF IInv, NoMissedExit, Zombies, Awaited, Kids
  <2>8. QED
    BY <2>4, <2>5, <2>6, <2>7 DEF IInv
<1>3. CASE ProcTick
  <2>1. UNCHANGED <<state, wait_state, parent, runq, current, timers, waitpid>>
    BY <1>3 DEF ProcTick, family, frames
  <2>2. TypeOK'
    <3>1. time_slice' \in [Pid -> 0..MAX_TIME_SLICE]
      BY <1>0, <1>3, BoundAssumption DEF TypeOK, ProcTick, TickedSlice
    <3>2. need_resched' \in [Pid -> BOOLEAN] /\ pc' \in [Pid -> PCs]
      BY <1>0, <1>3 DEF TypeOK, ProcTick, Goto, PCs
    <3>3. QED
      BY <1>0, <1>3, <3>1, <3>2 DEF TypeOK, ProcTick, family, frames
  <2>3. CASE pc[current] = "user"
    <3>1. Goto("trapret")
      BY <1>3, <2>3 DEF ProcTick
    <3>2. \A q \in Pid : q # current => waitpid'[q] = waitpid[q]
      BY <2>1
    <3>3. QED
      BY <2>1, <2>2, <2>3, <3>1, <3>2, Move DEF Onward
  <2>4. CASE pc[current] # "user"
    <3>1. UNCHANGED pc
      BY <1>3, <2>4 DEF ProcTick
    <3>2. RunQueueExact' /\ WaitersSleep' /\ PcState' /\ TimersLive' /\ Roots' /\ ParentAlive'
      BY <2>1, <3>1 DEF IInv, RunQueueExact, WaitersSleep, PcState, TimersLive, Roots, ParentAlive
    <3>3. NoMissedExit'
      BY <2>1 DEF IInv, NoMissedExit, Zombies, Awaited, Kids
    <3>4. QED
      BY <2>2, <3>2, <3>3 DEF IInv
  <2>5. QED
    BY <2>3, <2>4
<1>4. CASE UNCHANGED vars
  BY <1>4 DEF vars, IInv, TypeOK, RunQueueExact, WaitersSleep, PcState, TimersLive, Roots,
              ParentAlive, NoMissedExit, Zombies, Awaited, Kids
<1>5. QED
  BY <1>1, <1>2, <1>3, <1>4

LEMMA ExpireTimerStep ==
    ASSUME IInv, ExpireTimer
    PROVE  IInv'
<1> DEFINE k == Head(timers).proc
           c == state[k] # "RUNNABLE"
           s == When(c, k)
<1>1. TypeOK /\ RunQueueExact /\ PcState /\ state \in [Pid -> States] /\ current \in Pid
  BY DEF IInv, TypeOK, States
<1>2. timers \in Seq(Timer) /\ OneEach(timers) /\ timers # <<>> /\ timers' = Tail(timers)
  BY TimerOwners DEF ExpireTimer, Expired
<1>3. /\ timers' \in Seq(Timer) /\ OneEach(timers') /\ From(timers', timers)
      /\ Head(timers) = timers[1] /\ 1 \in DOMAIN timers
  BY <1>2, TailTimers
<1>4. k \in Pid \ {Idle} /\ state[k] \in {"SLEEPING", "RUNNABLE"} /\ c \in BOOLEAN
  BY <1>3, TimerOwners
<1>5. /\ Wakeup(state, s) /\ current' = current
      /\ UNCHANGED <<pc, parent, waitpid, kthread, exiting, nr_process, need_resched, left, irq, halted>>
  BY DEF ExpireTimer, NotRunnable, family, frames
<1> HIDE DEF k
<1>6. /\ s \in Seq(Pid \ {Idle}) /\ IsInjective(s) /\ Range(s) = IF c THEN {k} ELSE {}
  <2> HIDE DEF c
  <2>1. QED
    BY <1>4, WhenRange
<1>7. s = <<current>> \/ current \notin Range(s)
  BY <1>6 DEF When
<1>8. \A p \in Range(s) : p \in Pid /\ state[p] = "SLEEPING" /\ state[p] # "RUNNABLE"
  BY <1>4, <1>6
<1> HIDE DEF c, s
<1>9. /\ RunQueueExact'
      /\ state' \in [Pid -> States]
      /\ wait_state' \in [Pid -> {"0", "CHILD", "TIMER"}]
      /\ runq' \in Seq(Pid)
      /\ time_slice' \in [Pid -> 0..MAX_TIME_SLICE]
      /\ \A p \in Pid :
            /\ state'[p] = IF p \in Range(s) THEN "RUNNABLE" ELSE state[p]
            /\ wait_state'[p] = IF p \in Range(s) THEN "0" ELSE wait_state[p]
  BY <1>1, <1>5, <1>6, <1>7, <1>8, WakeupKeeps
<1>10. TypeOK'
  <2>1. timers' \in Seq([proc : Pid \ {Idle}, expires : Int])
    BY <1>3 DEF Timer
  <2>2. QED
    BY <1>1, <1>5, <1>9, <2>1 DEF TypeOK, States
<1>11. \A i \in DOMAIN timers' :
          /\ timers'[i].proc \in Pid
          /\ pc[timers'[i].proc] \in {"sleep_sched", "slept"}
          /\ state[timers'[i].proc] \in {"SLEEPING", "RUNNABLE"}
  BY <1>3, TimerOwners DEF From
<1>12. WaitersSleep'
  <2>1. \A p \in Pid : wait_state'[p] # "0" <=> state'[p] = "SLEEPING"
    BY <1>8, <1>9 DEF IInv, WaitersSleep
  <2>2. \A i \in DOMAIN timers' : state'[timers'[i].proc] \in {"SLEEPING", "RUNNABLE"}
    BY <1>9, <1>11
  <2>3. QED
    BY <2>1, <2>2 DEF WaitersSleep
<1>13. PcState'
  <2>1. Idle \in Pid /\ Init \in Pid
    BY DEF Pid
  <2>2. \A p \in Pid :
           state'[p] = state[p] \/ (state[p] = "SLEEPING" /\ state'[p] = "RUNNABLE")
    BY <1>8, <1>9
  <2>3. QED
    BY <1>1, <1>5, <2>1, <2>2 DEF PcState
<1>14. TimersLive'
  BY <1>3, <1>5, <1>11 DEF TimersLive, OneEach
<1>15. Roots' /\ ParentAlive'
  BY <1>5, <1>8, <1>9 DEF IInv, Roots, ParentAlive
<1>16. NoMissedExit'
  <2>1. \A p \in Pid : wait_state'[p] = "CHILD" => wait_state[p] = "CHILD"
    BY <1>9
  <2>2. \A p \in Pid : state'[p] = "ZOMBIE" => state[p] = "ZOMBIE"
    BY <1>9
  <2>3. QED
    BY <1>5, <2>1, <2>2 DEF IInv, NoMissedExit, Zombies, Awaited, Kids
<1>17. QED
  BY <1>9, <1>10, <1>12, <1>13, <1>14, <1>15, <1>16 DEF IInv

LEMMA InitIInv ==
    ASSUME ProcInit
    PROVE  IInv
<1>1. Idle \in Pid /\ Init \in Pid /\ Idle # Init /\ Idle \notin User /\ Init \notin User
      /\ NULL \notin Pid
  BY PidAssumption DEF Pid
<1>2. /\ \A p \in Pid : state[p] = IF p \in User THEN "UNINIT" ELSE "RUNNABLE"
      /\ \A p \in Pid : wait_state[p] = "0"
      /\ \A p \in Pid : parent[p] = IF p = Init THEN Idle ELSE NULL
      /\ \A p \in User : p \in Pid /\ pc[p] = "none"
      /\ pc[Idle] = "idle" /\ pc[Init] = "init_start"
      /\ \A p \in Pid : p \in User \/ p = Idle \/ p = Init
  BY <1>1 DEF ProcInit, BootState, Pid
<1>3. runq = <<Init>> /\ current = Idle /\ timers = <<>>
  BY DEF ProcInit
<1>4. TypeOK
  <2>1. runq \in Seq(Pid) /\ timers \in Seq([proc : Pid \ {Idle}, expires : Int])
    BY <1>1, <1>3
  <2>2. pc \in [Pid -> PCs]
    BY DEF ProcInit, PCs
  <2>3. time_slice \in [Pid -> 0..MAX_TIME_SLICE]
    BY BoundAssumption DEF ProcInit
  <2>4. /\ state \in [Pid -> {"UNINIT", "SLEEPING", "RUNNABLE", "ZOMBIE"}]
        /\ wait_state \in [Pid -> {"0", "CHILD", "TIMER"}]
        /\ parent \in [Pid -> Pid \cup {NULL}]
        /\ waitpid \in [Pid -> Pid] /\ current \in Pid
    BY <1>1 DEF ProcInit, BootState, AnyChild
  <2>5. exiting \in [Pid -> BOOLEAN] /\ need_resched \in [Pid -> BOOLEAN]
        /\ kthread \in [Pid -> BOOLEAN]
    BY DEF ProcInit
  <2>6. nr_process \in Int /\ left \in [Pid -> Nat]
    BY DEF ProcInit
  <2>7. irq \in {"none", "timer"} /\ halted \in BOOLEAN
    BY Zenon DEF ProcInit
  <2>8. QED
    BY <2>1, <2>2, <2>3, <2>4, <2>5, <2>6, <2>7 DEF TypeOK
<1>5. RunQueueExact
  <2>1. IsInjective(<<Init>>) /\ Range(<<Init>>) = {Init}
    BY <1>1, SingleRange
  <2>2. {p \in Pid \ {Idle} : state[p] = "RUNNABLE"} = {Init}
    BY <1>1, <1>2
  <2>3. QED
    BY <1>3, <2>1, <2>2 DEF RunQueueExact
<1>6. PcState
  BY <1>1, <1>2, <1>3 DEF PcState
<1>7. DOMAIN timers = {}
  BY <1>3
<1>8. WaitersSleep /\ TimersLive
  BY <1>2, <1>7 DEF WaitersSleep, TimersLive
<1>9. Roots /\ ParentAlive
  BY <1>1, <1>2 DEF Roots, ParentAlive
<1>10. NoMissedExit
  BY <1>2 DEF NoMissedExit
<1>11. QED
  BY <1>4, <1>5, <1>6, <1>8, <1>9, <1>10 DEF IInv

LEMMA NextKeepsIInv ==
    ASSUME IInv, [Next]_vars
    PROVE  IInv'
<1>1. CASE Syscall
  <2>1. CASE \E c \in User : DoFork(c)
    BY <2>1, NewProcStep DEF DoFork, At
  <2>2. CASE \E p \in Pid : DoKill(p)
    BY <2>2, DoKillStep
  <2>3. QED
    BY <1>1, <2>1, <2>2, MoveSteps, SleepSteps DEF Syscall
<1>2. CASE KernelStep
  <2>1. CASE \E c \in User : DoWaitReap(c)
    BY <2>1, DoWaitReapStep
  <2>2. CASE \E c \in User : InitStart(c)
    BY <2>2, NewProcStep DEF InitStart, At
  <2>3. QED
    BY <1>2, <2>1, <2>2, ScheduleStep, MoveSteps, SleepSteps, DoExitStep, QuietSteps, SleptStep
       DEF KernelStep
<1>3. CASE Handler
  BY <1>3, ExpireTimerStep, QuietSteps DEF Handler
<1>4. CASE Tick \/ Panicked \/ UNCHANGED vars
  BY <1>4, QuietSteps DEF Panicked
<1>5. QED
  BY <1>1, <1>2, <1>3, <1>4 DEF Next

-----------------------------------------------------------------------------
(* The family: how many processes there are, and that all descend from     *)
(* init.                                                                   *)

Live == {p \in Pid : state[p] # "UNINIT"}

\* nr_process counts the processes that exist.
Counted == nr_process = Cardinality(Live)

\* Whatever processes one looks at, the parent of one of them is none of them: the
\* chain of parents of every process ends outside, at init.
Rooted ==
    /\ \A p \in User : parent[p] # Idle
    /\ \A S \in SUBSET (Live \cap User) : S # {} => \E p \in S : parent[p] \notin S

\* init is in its loop, waiting for any child, until it has none.
InitLoops ==
    /\ pc[Init] \in {"init_start", "do_wait", "wait_sched", "waited", "init_sched",
                     "init_end", "exit"}
    /\ waitpid[Init] = AnyChild
    /\ pc[Init] = "init_end" => current = Init /\ Kids(Init) = {}

FamilyInv == Counted /\ Rooted /\ InitLoops

\* do_fork makes c, and do_wait frees it.
Born(c) ==
    /\ c \notin Live /\ current \in Live /\ current # Idle
    /\ Live' = Live \cup {c}
    /\ parent' = [parent EXCEPT ![c] = current]
    /\ nr_process' = nr_process + 1

Gone(c) ==
    /\ c \in Live /\ pc[current] = "do_wait"
    /\ Live' = Live \ {c}
    /\ parent' = [parent EXCEPT ![c] = NULL]
    /\ nr_process' = nr_process - 1

\* The processes that exist stand somewhere, current among them.
LEMMA LivePlaces ==
    ASSUME IInv
    PROVE  /\ Live = {p \in Pid : pc[p] # "none"}
           /\ current \in Pid /\ pc[current] # "none"
BY DEF IInv, PcState, TypeOK, Live

\* Steps that make no process and free none.
LEMMA FamilyStays ==
    ASSUME IInv, IInv',
           pc' = pc \/ \E l \in PCs \ {"none"} : pc' = [pc EXCEPT ![current] = l]
    PROVE  Live' = Live
<1>1. Live = {p \in Pid : pc[p] # "none"} /\ current \in Pid /\ pc[current] # "none"
  BY LivePlaces
<1>2. Live' = {p \in Pid : pc'[p] # "none"}
  BY DEF IInv, PcState, Live
<1>3. \A p \in Pid : pc'[p] # "none" <=> pc[p] # "none"
  BY <1>1 DEF IInv, TypeOK
<1>4. QED
  BY <1>1, <1>2, <1>3

\* A process is made.
LEMMA FamilyGrows ==
    ASSUME IInv, IInv', NEW c \in User, NEW l \in PCs \ {"none"}, NEW r \in PCs \ {"none"},
           pc[current] \in {"user", "init_start"}, NewProc(c, l, r)
    PROVE  Born(c)
<1>1. Live = {p \in Pid : pc[p] # "none"} /\ current \in Pid /\ pc[current] # "none"
  BY LivePlaces
<1>2. Live' = {p \in Pid : pc'[p] # "none"}
  BY DEF IInv, PcState, Live
<1>3. c \in Pid /\ c \notin Live /\ c # current
  BY <1>1 DEF NewProc, Live, Pid
<1>4. pc' = [pc EXCEPT ![c] = l, ![current] = r]
  BY DEF NewProc
<1>5. \A p \in Pid : pc'[p] # "none" <=> pc[p] # "none" \/ p = c
  BY <1>1, <1>3, <1>4 DEF IInv, TypeOK
<1>6. Live' = Live \cup {c}
  BY <1>1, <1>2, <1>3, <1>5
<1>7. current # Idle
  BY <1>1 DEF IInv, PcState
<1>8. QED
  BY <1>1, <1>3, <1>6, <1>7 DEF Born, NewProc

\* What a step does to the family.
LEMMA FamilySteps ==
    ASSUME IInv, IInv', [Next]_vars
    PROVE  \/ /\ Live' = Live /\ nr_process' = nr_process
              /\ \/ parent' = parent
                 \/ parent' = Reparented /\ pc[current] = "exit" /\ current # Init
           \/ \E c \in User : Born(c) \/ Gone(c)
<1> DEFINE Goes == pc' = pc \/ \E l \in PCs \ {"none"} : pc' = [pc EXCEPT ![current] = l]
<1>1. CASE Syscall
  <2>1. ASSUME NEW c \in User, DoFork(c) PROVE Born(c)
    BY <2>1, FamilyGrows DEF DoFork, At, PCs
  <2>2. CASE ~\E c \in User : DoFork(c)
    <3>1. nr_process' = nr_process /\ parent' = parent
      BY <1>1, <2>2 DEF Syscall, NoEffect, SysExit, DoYield, DoKill, SysWait, DoSleep, family
    <3>2. Goes
      BY <1>1, <2>2 DEF Syscall, NoEffect, SysExit, DoYield, DoKill, SysWait, DoSleep, Goto,
                        PCs, SchedPoints
    <3>3. QED
      BY <3>1, <3>2, FamilyStays
  <2>3. QED
    BY <2>1, <2>2
<1>2. CASE KernelStep
  <2>1. ASSUME NEW c \in User, InitStart(c) PROVE Born(c)
    BY <2>1, FamilyGrows DEF InitStart, At, PCs
  <2>2. ASSUME NEW c \in User, DoWaitReap(c) PROVE Gone(c)
    <3>1. Live = {p \in Pid : pc[p] # "none"} /\ current \in Pid /\ pc[current] = "do_wait"
      BY <2>2, LivePlaces DEF DoWaitReap, At
    <3>2. Live' = {p \in Pid : pc'[p] # "none"}
      BY DEF IInv, PcState, Live
    <3>3. c \in Live /\ state[c] = "ZOMBIE"
      BY <2>2 DEF DoWaitReap, Zombies, Awaited, Kids, Live
    <3>4. c # current
      BY <3>1, <3>3 DEF IInv, PcState, Live
    <3>5. /\ pc' = [pc EXCEPT ![c] = "none", ![current] = Returned(TRUE)]
          /\ Returned(TRUE) # "none"
      BY <2>2 DEF DoWaitReap, Returned
    <3>6. \A p \in Pid : pc'[p] # "none" <=> pc[p] # "none" /\ p # c
      BY <3>1, <3>3, <3>4, <3>5 DEF IInv, TypeOK, Live
    <3>7. Live' = Live \ {c}
      BY <3>1, <3>2, <3>6
    <3>8. QED
      BY <2>2, <3>1, <3>3, <3>7 DEF Gone, DoWaitReap
  <2>3. CASE Schedule
    <3>1. nr_process' = nr_process /\ parent' = parent
      BY <2>3 DEF Schedule, family
    <3>2. Goes
      <4>1. \A l \in SchedPoints : AfterSched[l] \in PCs \ {"none"}
        BY DEF AfterSched, SchedPoints, PCs
      <4>2. QED
        BY <2>3, <4>1 DEF Schedule
    <3>3. QED
      BY <3>1, <3>2, FamilyStays
  <2>4. CASE DoExit
    <3>1. nr_process' = nr_process /\ parent' = Reparented /\ pc[current] = "exit" /\ current # Init
      BY <2>4 DEF DoExit, At
    <3>2. Goes
      BY <2>4 DEF DoExit, Goto, PCs, SchedPoints
    <3>3. QED
      BY <3>1, <3>2, FamilyStays
  <2>5. CASE \/ DoWaitSleep \/ DoWaitNone \/ Waited \/ InitExit \/ Slept \/ TrapReturn
             \/ InitEnd \/ UserMain
    <3>1. nr_process' = nr_process /\ parent' = parent
      BY <2>5 DEF DoWaitSleep, DoWaitNone, Waited, InitExit, Slept, TrapReturn, InitEnd,
                  UserMain, family
    <3>2. Goes
      BY <2>5 DEF DoWaitSleep, DoWaitNone, Waited, InitExit, Slept, TrapReturn, InitEnd,
                  UserMain, Goto, Returned, PCs, SchedPoints
    <3>3. QED
      BY <3>1, <3>2, FamilyStays
  <2>6. QED
    BY <1>2, <2>1, <2>2, <2>3, <2>4, <2>5 DEF KernelStep
<1>3. CASE Handler \/ Tick \/ Panicked \/ UNCHANGED vars
  <2>1. nr_process' = nr_process /\ parent' = parent
    BY <1>3 DEF Handler, ExpireTimer, ProcTick, Tick, Panicked, vars, family
  <2>2. Goes
    BY <1>3 DEF Handler, ExpireTimer, ProcTick, Tick, Panicked, vars, Goto, PCs, SchedPoints
  <2>3. QED
    BY <2>1, <2>2, FamilyStays
<1>4. QED
  BY <1>1, <1>2, <1>3 DEF Next

\* nr_process stays the number of processes.
LEMMA CountedStep ==
    ASSUME IInv, IInv', Counted, [Next]_vars
    PROVE  Counted'
<1>1. IsFiniteSet(Live)
  <2>1. IsFiniteSet(User \cup {Idle} \cup {Init})
    BY PidAssumption, FS_AddElement
  <2>2. Live \subseteq User \cup {Idle} \cup {Init}
    BY DEF Live, Pid
  <2>3. QED
    BY <2>1, <2>2, FS_Subset
<1>2. CASE Live' = Live /\ nr_process' = nr_process
  BY <1>2 DEF Counted
<1>3. ASSUME NEW c \in User, Born(c) PROVE Counted'
  <2>1. Cardinality(Live \cup {c}) = Cardinality(Live) + 1
    BY <1>1, <1>3, FS_AddElement DEF Born
  <2>2. QED
    BY <1>3, <2>1 DEF Born, Counted
<1>4. ASSUME NEW c \in User, Gone(c) PROVE Counted'
  <2>1. Cardinality(Live \ {c}) = Cardinality(Live) - 1
    BY <1>1, <1>4, FS_RemoveElement DEF Gone
  <2>2. QED
    BY <1>4, <2>1 DEF Gone, Counted
<1>5. QED
  BY <1>2, <1>3, <1>4, FamilySteps

\* No step makes a cycle of parents.
LEMMA RootedStep ==
    ASSUME IInv, IInv', Rooted, [Next]_vars
    PROVE  Rooted'
<1>1. parent \in [Pid -> Pid \cup {NULL}] /\ User \subseteq Pid /\ Init \notin User /\ Idle # Init
  BY PidAssumption DEF IInv, TypeOK, Pid
<1>2. CASE Live' = Live /\ parent' = parent
  BY <1>2 DEF Rooted
<1>3. CASE Live' = Live /\ parent' = Reparented
  <2>1. \A p \in User : parent'[p] = Init \/ parent'[p] = parent[p]
    BY <1>1, <1>3 DEF Reparented
  <2>2. \A p \in User : parent'[p] # Idle
    BY <2>1, <1>1 DEF Rooted
  <2>3. ASSUME NEW S \in SUBSET (Live \cap User), S # {}
        PROVE  \E p \in S : parent'[p] \notin S
    <3>1. PICK p \in S : parent[p] \notin S
      BY <2>3 DEF Rooted
    <3>2. QED
      BY <3>1, <2>1, <1>1
  <2>4. QED
    BY <1>3, <2>2, <2>3 DEF Rooted
<1>4. ASSUME NEW c \in User, Born(c) PROVE Rooted'
  <2>1. /\ parent'[c] = current /\ current # Idle /\ current # c /\ c \notin Live
        /\ \A p \in Pid \ {c} : parent'[p] = parent[p]
    BY <1>1, <1>4 DEF Born
  <2>2. \A p \in User : parent'[p] # Idle
    BY <2>1, <1>1 DEF Rooted
  <2>3. \A p \in Live \cap User : parent[p] # c
    <3>1. SUFFICES ASSUME NEW p \in Live \cap User, parent[p] = c PROVE FALSE
      OBVIOUS
    <3>2. p \in Pid \ {Idle} /\ state[p] # "UNINIT"
      BY PidAssumption DEF Live
    <3>3. state[c] \in {"SLEEPING", "RUNNABLE"}
      BY <3>1, <3>2 DEF IInv, ParentAlive
    <3>4. QED
      BY <3>3, <2>1, <1>1 DEF Live
  <2>4. ASSUME NEW S \in SUBSET (Live' \cap User), S # {}
        PROVE  \E p \in S : parent'[p] \notin S
    <3>1. S \ {c} \in SUBSET (Live \cap User)
      BY <1>4 DEF Born
    <3>2. CASE S \ {c} = {}
      BY <3>2, <2>1, <2>4
    <3>3. CASE S \ {c} # {}
      <4>1. PICK p \in S \ {c} : parent[p] \notin S \ {c}
        BY <3>1, <3>3 DEF Rooted
      <4>2. parent'[p] = parent[p] /\ parent[p] # c
        BY <3>1, <4>1, <2>1, <2>3, <1>1
      <4>3. QED
        BY <4>1, <4>2
    <3>4. QED
      BY <3>2, <3>3
  <2>5. QED
    BY <2>2, <2>4 DEF Rooted
<1>5. ASSUME NEW c \in User, Gone(c) PROVE Rooted'
  <2>1. /\ parent'[c] = NULL /\ Live' = Live \ {c}
        /\ \A p \in Pid \ {c} : parent'[p] = parent[p]
    BY <1>1, <1>5 DEF Gone
  <2>2. \A p \in User : parent'[p] # Idle
    BY <2>1, <1>1, PidAssumption DEF Rooted, Pid
  <2>3. ASSUME NEW S \in SUBSET (Live' \cap User), S # {}
        PROVE  \E p \in S : parent'[p] \notin S
    <3>1. S \in SUBSET (Live \cap User) /\ c \notin S
      BY <2>1
    <3>2. PICK p \in S : parent[p] \notin S
      BY <2>3, <3>1 DEF Rooted
    <3>3. parent'[p] = parent[p]
      BY <3>1, <2>1, <1>1
    <3>4. QED
      BY <3>2, <3>3
  <2>4. QED
    BY <2>2, <2>3 DEF Rooted
<1>6. QED
  BY <1>2, <1>3, <1>4, <1>5, FamilySteps

\* A step of another process leaves init where it is.
LEMMA InitStays ==
    ASSUME IInv, [Next]_vars, current # Init
    PROVE  pc'[Init] = pc[Init] /\ waitpid'[Init] = waitpid[Init]
<1>1. /\ Init \in Pid /\ Init \notin User /\ current \in Pid
      /\ pc \in [Pid -> PCs] /\ waitpid \in [Pid -> Pid]
  BY PidAssumption DEF IInv, TypeOK, Pid
<1>2. CASE Syscall
  BY <1>1, <1>2 DEF Syscall, DoFork, NewProc, NoEffect, SysExit, DoYield, DoKill, SysWait,
                    DoSleep, Goto, frames
<1>3. CASE KernelStep
  <2>1. CASE Schedule
    BY <1>1, <2>1 DEF Schedule, frames
  <2>2. CASE \E c \in User : DoWaitReap(c) \/ InitStart(c)
    BY <1>1, <2>2 DEF DoWaitReap, InitStart, NewProc
  <2>3. CASE DoWaitSleep \/ DoWaitNone \/ Waited \/ DoExit \/ InitExit
    BY <1>1, <2>3 DEF DoWaitSleep, DoWaitNone, Waited, DoExit, InitExit, Goto, frames
  <2>4. CASE Slept \/ TrapReturn \/ InitEnd \/ UserMain
    BY <1>1, <2>4 DEF Slept, TrapReturn, InitEnd, UserMain, Goto, frames
  <2>5. QED
    BY <1>3, <2>1, <2>2, <2>3, <2>4 DEF KernelStep
<1>4. CASE Handler \/ Tick \/ Panicked \/ UNCHANGED vars
  BY <1>1, <1>4 DEF Handler, ExpireTimer, ProcTick, Tick, Panicked, vars, Goto, frames
<1>5. QED
  BY <1>2, <1>3, <1>4 DEF Next

\* init_main keeps to its loop.
LEMMA InitLoopsStep ==
    ASSUME IInv, IInv', InitLoops, [Next]_vars
    PROVE  InitLoops'
<1>1. /\ Init \in Pid /\ Init \notin User /\ current \in Pid
      /\ pc \in [Pid -> PCs] /\ waitpid \in [Pid -> Pid]
  BY PidAssumption DEF IInv, TypeOK, Pid
<1>2. CASE current # Init
  BY <1>2, InitStays DEF InitLoops
<1> DEFINE Fine == /\ pc'[Init] \in {"init_start", "do_wait", "wait_sched", "waited",
                                      "init_sched", "exit"}
                   /\ waitpid'[Init] = AnyChild
<1>3. ASSUME current = Init, pc[Init] = "init_end", ~InitEnd PROVE InitLoops'
  <2>1. pc' = pc /\ waitpid' = waitpid /\ current' = current
    <3>1. CASE Handler \/ Tick \/ Panicked \/ UNCHANGED vars
      BY <1>1, <1>3, <3>1 DEF Handler, ExpireTimer, ProcTick, Tick, Panicked, vars, frames
    <3>2. ~Syscall
      BY <1>3 DEF Syscall, DoFork, NoEffect, SysExit, DoYield, DoKill, SysWait, DoSleep, At
    <3>3. ~KernelStep
      BY <1>3 DEF KernelStep, Schedule, DoWaitReap, DoWaitSleep, DoWaitNone, Waited, DoExit,
                  InitExit, Slept, TrapReturn, InitStart, UserMain, At, SchedPoints
    <3>4. QED
      BY <3>1, <3>2, <3>3 DEF Next
  <2>2. Live' = Live /\ parent' = parent
    <3>1. ASSUME NEW c \in User, Born(c) PROVE FALSE
      <4>1. c \in Pid /\ pc[c] = "none" /\ pc'[c] # "none"
        <5>1. c \in Pid
          BY DEF Pid
        <5>2. c \notin Live /\ c \in Live'
          BY <3>1 DEF Born
        <5>3. QED
          BY <5>1, <5>2 DEF IInv, PcState, Live
      <4>2. QED
        BY <4>1, <2>1
    <3>2. ASSUME NEW c \in User PROVE ~Gone(c)
      BY <1>3 DEF Gone
    <3>3. QED
      BY <3>1, <3>2, <1>3, FamilySteps
  <2>3. Kids(Init)' = Kids(Init)
    BY <2>2 DEF Kids, Live
  <2>4. QED
    BY <2>1, <2>3, <1>3 DEF InitLoops
<1>4. ASSUME current = Init, DoWaitNone PROVE InitLoops'
  <2>1. pc'[Init] = "init_end" /\ waitpid'[Init] = AnyChild /\ current' = Init
    BY <1>1, <1>4 DEF DoWaitNone, Goto, Returned
  <2>2. Kids(Init) = {}
    BY <1>4 DEF DoWaitNone, Awaited, InitLoops
  <2>3. Kids(Init)' = Kids(Init)
    BY <1>4 DEF DoWaitNone, Kids, family
  <2>4. QED
    BY <2>1, <2>2, <2>3 DEF InitLoops
<1>5. ASSUME current = Init, pc[Init] # "init_end", ~DoWaitNone PROVE Fine
  <2>1. /\ pc[Init] \in {"init_start", "do_wait", "wait_sched", "waited", "init_sched", "exit"}
        /\ waitpid[Init] = AnyChild
    BY <1>5 DEF InitLoops
  <2>2. ~Syscall
    BY <1>5, <2>1 DEF Syscall, DoFork, NoEffect, SysExit, DoYield, DoKill, SysWait, DoSleep, At
  <2>3. CASE Handler \/ Tick \/ Panicked \/ UNCHANGED vars
    BY <1>1, <1>5, <2>1, <2>3 DEF Handler, ExpireTimer, ProcTick, Tick, Panicked, vars, frames
  <2>4. CASE KernelStep
    <3>1. CASE Schedule
      BY <1>1, <1>5, <2>1, <3>1 DEF Schedule, frames, SchedPoints, AfterSched
    <3>2. CASE \E c \in User : DoWaitReap(c)
      <4>1. PICK c \in User : DoWaitReap(c)
        BY <3>2
      <4>2. QED
        BY <1>1, <1>5, <4>1 DEF DoWaitReap, Returned
    <3>3. CASE \E c \in User : InitStart(c)
      <4>1. PICK c \in User : InitStart(c)
        BY <3>3
      <4>2. QED
        BY <1>1, <1>5, <2>1, <4>1 DEF InitStart, NewProc
    <3>4. CASE DoWaitSleep \/ Waited \/ DoExit \/ InitExit
      BY <1>1, <1>5, <2>1, <3>4 DEF DoWaitSleep, Waited, DoExit, InitExit, Goto, frames
    <3>5. ~(Slept \/ TrapReturn \/ InitEnd \/ UserMain)
      BY <1>5, <2>1 DEF Slept, TrapReturn, InitEnd, UserMain, At
    <3>6. QED
      BY <1>5, <2>4, <3>1, <3>2, <3>3, <3>4, <3>5 DEF KernelStep
  <2>5. QED
    BY <2>2, <2>3, <2>4 DEF Next
<1>6. ASSUME current = Init, InitEnd PROVE Fine
  BY <1>1, <1>6 DEF InitEnd, Goto, frames, InitLoops
<1>7. Fine => InitLoops'
  BY DEF InitLoops
<1>8. QED
  BY <1>2, <1>3, <1>4, <1>5, <1>6, <1>7

\* idle and init are two.
LEMMA IdleAndInit == Cardinality({Idle, Init}) = 2
<1>1. {Idle, Init} = {Idle} \cup {Init} /\ Init \notin {Idle}
  BY PidAssumption
<1>2. IsFiniteSet({Idle}) /\ Cardinality({Idle}) = 1
  BY FS_Singleton
<1>3. Cardinality({Idle} \cup {Init}) = Cardinality({Idle}) + 1
  BY <1>1, <1>2, FS_AddElement
<1>4. QED
  BY <1>1, <1>2, <1>3

\* The family at boot: idle and init.
LEMMA InitFamily ==
    ASSUME ProcInit
    PROVE  FamilyInv
<1>1. Live = {Idle, Init}
  BY PidAssumption DEF ProcInit, BootState, Live, Pid
<1>2. Counted
  BY <1>1, IdleAndInit DEF Counted, ProcInit
<1>3. Rooted
  BY <1>1, PidAssumption DEF Rooted, ProcInit, Pid
<1>4. InitLoops
  BY PidAssumption DEF InitLoops, ProcInit, Pid
<1>5. QED
  BY <1>2, <1>3, <1>4 DEF FamilyInv

-----------------------------------------------------------------------------
(* The clock: the relative times of timer_list against the time each       *)
(* sleeper has left.                                                       *)

\* When the i-th timer is due, by what its owner asked for.
Due(i) == IF i = 0 THEN 0 ELSE left[timers[i].proc]

\* Each timer is set relative to the one before it.
Spaced ==
    \A i \in DOMAIN timers :
        timers[i].expires >= 0 /\ Due(i - 1) + timers[i].expires = Due(i)

\* Who sleeps in do_sleep has a timer.
SleepersTimed ==
    \A p \in Pid : wait_state[p] = "TIMER" => \E i \in DOMAIN timers : timers[i].proc = p

ClockInv == Spaced /\ SleepersTimed /\ (irq = "none" => ~Expired)

\* The parts of timer_list that the proofs below look at.
LEMMA TimerParts ==
    ASSUME IInv
    PROVE  /\ timers \in Seq(Timer) /\ OneEach(timers)
           /\ Len(timers) \in Nat /\ DOMAIN timers = 1..Len(timers)
           /\ left \in [Pid -> Nat]
           /\ \A i \in 1..Len(timers) :
                 /\ timers[i].proc \in Pid /\ timers[i].expires \in Int
                 /\ Due(i) \in Nat
           /\ Due(0) = 0
<1>1. timers \in Seq(Timer) /\ OneEach(timers) /\ left \in [Pid -> Nat]
  BY TimerOwners DEF IInv, TypeOK
<1>2. Len(timers) \in Nat /\ DOMAIN timers = 1..Len(timers)
  BY <1>1
<1>3. \A i \in 1..Len(timers) : timers[i] \in Timer
  BY <1>1
<1>4. \A r \in Timer : r.proc \in Pid /\ r.expires \in Int
  BY DEF Timer
<1>5. QED
  BY <1>1, <1>2, <1>3, <1>4 DEF Due

\* Expiry, the sum of the relative times, is the time each owner has left.
LEMMA ExpiryIsDue ==
    ASSUME IInv, Spaced
    PROVE  \A i \in 0..Len(timers) : Expiry(timers)[i] = Due(i)
<1> DEFINE n == Len(timers)
           P(e) == e = [i \in 0..n |-> IF i = 0 THEN 0 ELSE e[i - 1] + timers[i].expires]
           g == [i \in 0..n |-> Due(i)]
<1>1. n \in Nat /\ DOMAIN timers = 1..n
  BY TimerParts
<1>2. P(g)
  <2>1. \A i \in 0..n : Due(i) = IF i = 0 THEN 0 ELSE g[i - 1] + timers[i].expires
    <3>1. ASSUME NEW i \in 1..n PROVE Due(i) = g[i - 1] + timers[i].expires
      <4>1. i - 1 \in 0..n /\ g[i - 1] = Due(i - 1)
        BY <1>1
      <4>2. QED
        BY <4>1, <1>1 DEF Spaced
    <3>2. Due(0) = 0
      BY DEF Due
    <3>3. \A i \in 0..n : i # 0 => i \in 1..n
      BY <1>1
    <3>4. QED
      BY <3>1, <3>2, <3>3
  <2>2. QED
    BY <2>1
<1>3. Expiry(timers) = CHOOSE e : P(e)
  BY DEF Expiry
<1>4. PICK e : e = Expiry(timers) /\ P(e)
  <2> HIDE DEF P, g
  <2>1. QED
    BY <1>2, <1>3
<1>5. e[0] = 0 /\ \A i \in 1..n : e[i] = e[i - 1] + timers[i].expires
  BY <1>1, <1>4
<1> DEFINE T == {m \in Nat : m \in 0..n => e[m] = Due(m)}
<1>6. 0 \in T
  BY <1>5 DEF Due
<1>7. ASSUME NEW m \in Nat, m \in T PROVE m + 1 \in T
  <2>1. SUFFICES ASSUME m + 1 \in 0..n PROVE e[m + 1] = Due(m + 1)
    OBVIOUS
  <2>2. m + 1 \in 1..n /\ m \in 0..n /\ (m + 1) - 1 = m
    BY <2>1, <1>1
  <2>3. e[m] = Due(m)
    BY <2>2, <1>7
  <2>4. QED
    BY <2>2, <2>3, <1>1, <1>5 DEF Spaced
<1>8. Nat \subseteq T
  <2> HIDE DEF T
  <2>1. QED
    BY <1>6, <1>7, Induction
<1>9. ASSUME NEW i \in 0..n PROVE Expiry(timers)[i] = Due(i)
  <2>1. i \in T
    BY <1>1, <1>8
  <2>2. QED
    BY <2>1, <1>4
<1>10. QED
  BY <1>9

\* If the first timer has not run out, none has.
LEMMA NoneDue ==
    ASSUME IInv, Spaced, ~Expired
    PROVE  \A i \in DOMAIN timers : Due(i) >= 1 /\ (i = 1 => timers[i].expires >= 1)
<1> DEFINE n == Len(timers)
           T == {m \in Nat : m + 1 \in 1..n => Due(m + 1) >= 1}
<1>1. n \in Nat /\ DOMAIN timers = 1..n /\ timers \in Seq(Timer) /\ Due(0) = 0
      /\ \A i \in 1..n : timers[i].expires \in Int /\ Due(i) \in Nat
  BY TimerParts
<1>2. 1 \in 1..n => timers[1].expires >= 1 /\ Due(1) >= 1
  <2>1. SUFFICES ASSUME 1 \in 1..n PROVE timers[1].expires >= 1 /\ Due(1) >= 1
    OBVIOUS
  <2>2. timers # <<>> /\ Head(timers) = timers[1]
    BY <1>1, <2>1
  <2>3. timers[1].expires # 0
    BY <2>2 DEF Expired
  <2>4. timers[1].expires >= 0 /\ Due(1 - 1) + timers[1].expires = Due(1) /\ 1 - 1 = 0
    BY <1>1, <2>1 DEF Spaced
  <2>5. QED
    BY <2>1, <2>3, <2>4, <1>1
<1>3. 0 \in T
  BY <1>2
<1>4. ASSUME NEW m \in Nat, m \in T PROVE m + 1 \in T
  <2>1. SUFFICES ASSUME (m + 1) + 1 \in 1..n PROVE Due((m + 1) + 1) >= 1
    OBVIOUS
  <2>2. m + 1 \in 1..n /\ ((m + 1) + 1) - 1 = m + 1
    BY <2>1, <1>1
  <2>3. Due(m + 1) >= 1
    BY <2>2, <1>4
  <2>4. timers[(m + 1) + 1].expires >= 0 /\ Due(m + 1) + timers[(m + 1) + 1].expires = Due((m + 1) + 1)
    BY <2>1, <2>2, <1>1 DEF Spaced
  <2>5. QED
    BY <2>1, <2>2, <2>3, <2>4, <1>1
<1>5. Nat \subseteq T
  <2> HIDE DEF T
  <2>1. QED
    BY <1>3, <1>4, Induction
<1>6. ASSUME NEW i \in 1..n PROVE Due(i) >= 1
  <2>1. i - 1 \in Nat /\ (i - 1) + 1 = i
    BY <1>1
  <2>2. i - 1 \in T
    BY <2>1, <1>5
  <2>3. QED
    BY <2>1, <2>2
<1>7. QED
  BY <1>1, <1>2, <1>6

\* Moving a timer changes its time, and no other.
LEMMA ShiftTimes ==
    ASSUME NEW tl \in Seq(Timer), NEW k \in Nat \ {0}, NEW e \in Int
    PROVE  \A i \in 1..Len(tl) :
              Shift(tl, k, e)[i].expires = IF i = k THEN tl[i].expires + e ELSE tl[i].expires
<1>1. CASE k \notin DOMAIN tl
  BY <1>1 DEF Shift
<1>2. CASE k \in DOMAIN tl
  <2> DEFINE r == [tl[k] EXCEPT !.expires = tl[k].expires + e]
             u == [tl EXCEPT ![k] = r]
  <2>1. k \in 1..Len(tl) /\ tl[k] \in Timer
    BY <1>2
  <2>2. r \in Timer /\ r.expires = tl[k].expires + e
    BY <2>1 DEF Timer
  <2>3. u = Shift(tl, k, e)
    BY <1>2 DEF Shift
  <2> HIDE DEF r
  <2>4. /\ u \in Seq(Timer) /\ Len(u) = Len(tl)
        /\ \A j \in 1..Len(tl) : u[j] = IF j = k THEN r ELSE tl[j]
    BY <2>1, <2>2, ExceptSeq
  <2>5. \A i \in 1..Len(tl) : u[i].expires = IF i = k THEN tl[i].expires + e ELSE tl[i].expires
    BY <2>2, <2>4
  <2> HIDE DEF u
  <2>6. QED
    BY <2>3, <2>5
<1>3. QED
  BY <1>1, <1>2

\* do_sleep: add_timer puts the new timer among the others.
LEMMA DoSleepClock ==
    ASSUME IInv, IInv', ClockInv, NEW t \in Nat, DoSleep(t)
    PROVE  ClockInv'
<1> DEFINE n == Len(timers)
           p == current
<1>1. /\ timers \in Seq(Timer) /\ n \in Nat /\ DOMAIN timers = 1..n
      /\ left \in [Pid -> Nat]
      /\ \A i \in 1..n : /\ timers[i].proc \in Pid /\ timers[i].expires \in Int
                         /\ Due(i) \in Nat
      /\ Due(0) = 0
  BY TimerParts
<1>2. /\ t > 0 /\ AddTimer(p, t) /\ left' = [left EXCEPT ![p] = t] /\ irq' = irq /\ irq = "none"
      /\ wait_state' = [wait_state EXCEPT ![p] = "TIMER"] /\ pc[p] = "user"
  BY DEF DoSleep, At
<1>3. p \in Pid \ {Idle} /\ \A i \in 1..n : timers[i].proc # p
  <2>1. p \in Pid /\ p # Idle
    BY <1>2, Running DEF SchedPoints
  <2>2. QED
    BY <2>1, <1>1, <1>2, TimerOwners
<1>4. PICK k \in 0..n, d \in 0..t :
         /\ Place(t, k, d)
         /\ timers' = InsertAt(Shift(timers, k + 1, -d), k + 1, [proc |-> p, expires |-> d])
  BY <1>2 DEF AddTimer
<1>5. k \in Nat /\ d \in Nat /\ Due(k) + d = t /\ (k < n => t < Due(k + 1))
  <2>1. \A i \in 0..n : Expiry(timers)[i] = Due(i)
    BY ExpiryIsDue DEF ClockInv
  <2>2. k < n => k + 1 \in 0..n
    BY <1>1
  <2>3. QED
    BY <2>1, <2>2, <1>4 DEF Place
<1> DEFINE tl == Shift(timers, k + 1, -d)
           r == [proc |-> p, expires |-> d]
<1>6. k + 1 \in Nat \ {0} /\ -d \in Int
  BY <1>5
<1>7. /\ tl \in Seq(Timer) /\ Len(tl) = n
      /\ \A i \in 1..n : tl[i].proc = timers[i].proc
      /\ \A i \in 1..n : tl[i].expires = IF i = k + 1 THEN timers[i].expires + (-d)
                                           ELSE timers[i].expires
  BY <1>1, <1>6, ShiftKeeps, ShiftTimes
<1>8. r \in Timer /\ r.proc = p /\ r.expires = d
  BY <1>3, <1>5 DEF Timer
<1>9. timers' = InsertAt(tl, k + 1, r) /\ k + 1 \in 1..(Len(tl) + 1)
  BY <1>1, <1>4, <1>7
<1> HIDE DEF tl, r
<1>10. /\ timers' \in Seq(Timer) /\ Len(timers') = n + 1
       /\ \A i \in 1..(n + 1) :
             timers'[i] = IF i < k + 1 THEN tl[i] ELSE IF i = k + 1 THEN r ELSE tl[i - 1]
  <2>1. PICK m : m = k + 1 /\ m \in 1..(Len(tl) + 1) /\ timers' = InsertAt(tl, m, r)
    BY <1>9
  <2>2. IsInserted(timers', Timer, tl, m, r)
    <3>1. tl \in Seq(Timer) /\ r \in Timer /\ m \in 1..(Len(tl) + 1)
      BY <2>1, <1>7, <1>8
    <3>2. IsInserted(InsertAt(tl, m, r), Timer, tl, m, r)
      BY <3>1, InsertAtElements, Zenon
    <3>3. QED
      BY <2>1, <3>2, Zenon
  <2>3. QED
    BY <2>1, <2>2, <1>7 DEF IsInserted
<1>11. DOMAIN timers' = 1..(n + 1)
  BY <1>1, <1>10
<1>12. left'[p] = t /\ \A q \in Pid \ {p} : left'[q] = left[q]
  BY <1>1, <1>2, <1>3
<1>13. \A i \in 1..k : /\ i \in 1..n /\ timers'[i].proc = timers[i].proc
                       /\ timers'[i].expires = timers[i].expires
  <2>1. SUFFICES ASSUME NEW i \in 1..k
                 PROVE  /\ i \in 1..n /\ timers'[i].proc = timers[i].proc
                        /\ timers'[i].expires = timers[i].expires
    OBVIOUS
  <2>2. i \in 1..n /\ i \in 1..(n + 1) /\ i < k + 1 /\ i # k + 1
    BY <1>1, <1>5
  <2>3. timers'[i] = tl[i]
    BY <2>2, <1>10
  <2>4. QED
    BY <2>2, <2>3, <1>7
<1>14. timers'[k + 1].proc = p /\ timers'[k + 1].expires = d
  <2>1. k + 1 \in 1..(n + 1) /\ ~(k + 1 < k + 1)
    BY <1>1, <1>5
  <2>2. timers'[k + 1] = r
    BY <2>1, <1>10
  <2>3. QED
    BY <2>2, <1>8
<1>15. \A i \in 1..(n + 1) : i > k + 1 =>
          /\ i - 1 \in 1..n /\ timers'[i].proc = timers[i - 1].proc
          /\ timers'[i].expires = IF i = k + 2 THEN timers[i - 1].expires - d
                                  ELSE timers[i - 1].expires
  <2>1. SUFFICES ASSUME NEW i \in 1..(n + 1), i > k + 1
                 PROVE  /\ i - 1 \in 1..n /\ timers'[i].proc = timers[i - 1].proc
                        /\ timers'[i].expires = IF i = k + 2 THEN timers[i - 1].expires - d
                                                ELSE timers[i - 1].expires
    OBVIOUS
  <2>2. i - 1 \in 1..n /\ (i - 1 = k + 1 <=> i = k + 2)
    BY <2>1, <1>1, <1>5
  <2>3. timers'[i] = tl[i - 1]
    BY <2>1, <1>1, <1>5, <1>10
  <2>4. QED
    BY <2>2, <2>3, <1>1, <1>5, <1>7
<1>16. /\ \A i \in 0..k : Due(i)' = Due(i)
       /\ Due(k + 1)' = t
       /\ \A i \in 1..(n + 1) : i > k + 1 => Due(i)' = Due(i - 1)
  <2>1. ASSUME NEW i \in 0..k PROVE Due(i)' = Due(i)
    <3>1. CASE i = 0
      BY <3>1 DEF Due
    <3>2. CASE i # 0
      <4>1. i \in 1..k
        BY <3>2, <1>5
      <4>2. left'[timers[i].proc] = left[timers[i].proc]
        BY <4>1, <1>1, <1>3, <1>12, <1>13
      <4>3. QED
        BY <3>2, <4>1, <4>2, <1>13 DEF Due
    <3>3. QED
      BY <3>1, <3>2
  <2>2. Due(k + 1)' = t
    BY <1>5, <1>12, <1>14 DEF Due
  <2>3. ASSUME NEW i \in 1..(n + 1), i > k + 1 PROVE Due(i)' = Due(i - 1)
    <3>1. i # 0 /\ i - 1 # 0 /\ i - 1 \in 1..n
      BY <2>3, <1>5, <1>15
    <3>2. left'[timers[i - 1].proc] = left[timers[i - 1].proc]
      BY <3>1, <1>1, <1>3, <1>12
    <3>3. QED
      BY <2>3, <3>1, <3>2, <1>15 DEF Due
  <2>4. QED
    BY <2>1, <2>2, <2>3
<1>17. \A i \in 1..n : timers[i].expires >= 0 /\ Due(i - 1) + timers[i].expires = Due(i)
  BY <1>1 DEF ClockInv, Spaced
<1>18. Spaced'
  <2>1. SUFFICES ASSUME NEW i \in 1..(n + 1)
                 PROVE  timers'[i].expires >= 0 /\ Due(i - 1)' + timers'[i].expires = Due(i)'
    BY <1>11 DEF Spaced
  <2>2. CASE i <= k
    <3>1. i \in 1..k /\ i \in 0..k /\ i - 1 \in 0..k
      BY <2>2, <1>5
    <3>2. QED
      BY <3>1, <1>13, <1>16, <1>17
  <2>3. CASE i = k + 1
    <3>1. i - 1 = k /\ k \in 0..k
      BY <2>3, <1>5
    <3>2. Due(k)' = Due(k) /\ Due(i)' = t
      BY <2>3, <3>1, <1>16
    <3>3. QED
      BY <2>3, <3>1, <3>2, <1>5, <1>14
  <2>4. CASE i = k + 2
    <3>1. i > k + 1 /\ i - 1 = k + 1 /\ k < n /\ k + 1 \in 1..n /\ (k + 1) - 1 = k
      BY <2>4, <1>1, <1>5
    <3>2. Due(i - 1)' = t /\ Due(i)' = Due(k + 1)
      BY <3>1, <1>16
    <3>3. timers'[i].expires = timers[k + 1].expires - d
      BY <2>4, <3>1, <1>15
    <3>4. Due(k) + timers[k + 1].expires = Due(k + 1) /\ t < Due(k + 1)
      BY <3>1, <1>5, <1>17
    <3>5. Due(k) \in Nat /\ Due(k + 1) \in Nat /\ timers[k + 1].expires \in Int
      BY <3>1, <1>1, <1>5
    <3>6. PICK x \in Nat, y \in Nat, e \in Int :
             x = Due(k) /\ y = Due(k + 1) /\ e = timers[k + 1].expires
      BY <3>5, Zenon
    <3>7. x + e = y /\ t < y /\ d = t - x /\ t \in Nat
      BY <3>4, <3>6, <1>5
    <3>8. e - d >= 0 /\ t + (e - d) = y
      BY <3>7
    <3>9. QED
      BY <3>2, <3>3, <3>6, <3>8
  <2>5. CASE i > k + 2
    <3>1. i > k + 1 /\ i - 1 > k + 1 /\ i # k + 2 /\ i - 1 \in 1..n /\ i - 1 \in 1..(n + 1)
      BY <2>5, <1>1, <1>5
    <3>2. QED
      BY <3>1, <1>15, <1>16, <1>17
  <2>6. QED
    BY <2>2, <2>3, <2>4, <2>5, <1>1, <1>5
<1>19. ~Expired'
  <2>1. Head(timers') = timers'[1] /\ 1 \in 1..(n + 1)
    BY <1>1, <1>10
  <2>2. CASE k = 0
    BY <2>1, <2>2, <1>1, <1>2, <1>5, <1>14 DEF Expired
  <2>3. CASE k # 0
    <3>1. 1 \in 1..k /\ 1 \in DOMAIN timers
      BY <2>3, <1>1, <1>5
    <3>2. timers[1].expires >= 1
      BY <3>1, <1>2, NoneDue DEF ClockInv
    <3>3. timers'[1].expires # 0
      BY <3>1, <3>2, <1>1, <1>13
    <3>4. QED
      BY <2>1, <3>3 DEF Expired
  <2>4. QED
    BY <2>2, <2>3
<1>20. SleepersTimed'
  <2>1. SUFFICES ASSUME NEW q \in Pid, wait_state'[q] = "TIMER"
                 PROVE  \E i \in 1..(n + 1) : timers'[i].proc = q
    BY <1>11 DEF SleepersTimed
  <2>2. CASE q = p
    <3>1. k + 1 \in 1..(n + 1)
      BY <1>1, <1>5
    <3>2. QED
      BY <2>2, <3>1, <1>14
  <2>3. CASE q # p
    <3>1. wait_state[q] = "TIMER"
      BY <2>1, <2>3, <1>2 DEF IInv, TypeOK
    <3>2. PICK i \in 1..n : timers[i].proc = q
      BY <3>1, <1>1 DEF ClockInv, SleepersTimed
    <3>3. CASE i <= k
      <4>1. i \in 1..k /\ i \in 1..(n + 1)
        BY <3>3, <1>1, <1>5
      <4>2. QED
        BY <3>2, <4>1, <1>13
    <3>4. CASE i > k
      <4>1. i + 1 \in 1..(n + 1) /\ i + 1 > k + 1 /\ (i + 1) - 1 = i
        BY <3>4, <1>1, <1>5
      <4>2. timers'[i + 1].proc = q
        BY <3>2, <4>1, <1>15
      <4>3. QED
        BY <4>1, <4>2
    <3>5. QED
      BY <3>3, <3>4, <1>5
  <2>4. QED
    BY <2>2, <2>3
<1>21. QED
  BY <1>18, <1>19, <1>20 DEF ClockInv

\* do_sleep returns: del_timer gives the ticks of the timer, if it is still there, to its
\* successor.
LEMMA SleptClock ==
    ASSUME IInv, IInv', ClockInv, Slept
    PROVE  ClockInv'
<1> DEFINE n == Len(timers)
           p == current
<1>1. /\ timers \in Seq(Timer) /\ OneEach(timers) /\ n \in Nat /\ DOMAIN timers = 1..n
      /\ left \in [Pid -> Nat]
      /\ \A i \in 1..n : /\ timers[i].proc \in Pid /\ timers[i].expires \in Int
                         /\ Due(i) \in Nat
      /\ Due(0) = 0
  BY TimerParts
<1>2. /\ DelTimer(p) /\ left' = [left EXCEPT ![p] = 0] /\ irq' = irq /\ irq = "none"
      /\ wait_state' = wait_state /\ pc[p] = "slept"
  BY DEF Slept, At
<1>3. p \in Pid /\ wait_state[p] = "0"
  BY <1>2, Running DEF SchedPoints
<1>4. \A q \in Pid \ {p} : left'[q] = left[q]
  BY <1>1, <1>2
<1>5. \A i \in 1..n : timers[i].expires >= 0 /\ Due(i - 1) + timers[i].expires = Due(i)
  BY <1>1 DEF ClockInv, Spaced
<1>6. \A i \in 1..n : i = 1 => timers[i].expires >= 1
  BY <1>1, <1>2, NoneDue DEF ClockInv
<1>7. CASE \A i \in 1..n : timers[i].proc # p
  <2>1. timers' = timers
    BY <1>1, <1>2, <1>7 DEF DelTimer
  <2>2. ASSUME NEW i \in 0..n PROVE Due(i)' = Due(i)
    <3>1. CASE i = 0
      BY <3>1 DEF Due
    <3>2. CASE i # 0
      <4>1. i \in 1..n
        BY <3>2, <1>1
      <4>2. left'[timers[i].proc] = left[timers[i].proc]
        BY <4>1, <1>1, <1>4, <1>7
      <4>3. QED
        BY <3>2, <4>2, <2>1 DEF Due
    <3>3. QED
      BY <3>1, <3>2
  <2>3. Spaced'
    <3>1. \A i \in 1..n : i \in 0..n /\ i - 1 \in 0..n
      BY <1>1
    <3>2. QED
      BY <3>1, <2>1, <2>2, <1>1, <1>5 DEF Spaced
  <2>4. SleepersTimed' /\ ~Expired'
    BY <2>1, <1>2 DEF ClockInv, SleepersTimed, Expired
  <2>5. QED
    BY <2>3, <2>4 DEF ClockInv
<1>8. CASE ~\A i \in 1..n : timers[i].proc # p
  <2>1. PICK k \in 1..n :
           /\ timers[k].proc = p
           /\ timers' = RemoveAt(Shift(timers, k + 1, timers[k].expires), k)
    BY <1>1, <1>2, <1>8 DEF DelTimer
  <2> DEFINE e == timers[k].expires
             tl == Shift(timers, k + 1, e)
  <2>2. k + 1 \in Nat \ {0} /\ e \in Int /\ k \in Nat \ {0}
    BY <1>1
  <2>3. /\ tl \in Seq(Timer) /\ Len(tl) = n
        /\ \A i \in 1..n : tl[i].proc = timers[i].proc
        /\ \A i \in 1..n : tl[i].expires = IF i = k + 1 THEN timers[i].expires + e
                                             ELSE timers[i].expires
    BY <1>1, <2>2, ShiftKeeps, ShiftTimes
  <2>4. timers' = RemoveAt(tl, k) /\ k \in 1..Len(tl)
    BY <2>1, <2>3
  <2> HIDE DEF tl
  <2>5. /\ timers' \in Seq(Timer) /\ Len(timers') = Len(tl) - 1
        /\ \A i \in 1..(Len(tl) - 1) : timers'[i] = IF i < k THEN tl[i] ELSE tl[i + 1]
    BY <2>3, <2>4, RemoveAtElements
  <2>6. DOMAIN timers' = 1..(n - 1) /\ Len(timers') = n - 1
    BY <1>1, <2>3, <2>5
  <2>7. ASSUME NEW i \in 1..(n - 1), i < k
        PROVE  /\ i \in 1..n /\ timers'[i].proc = timers[i].proc
               /\ timers'[i].expires = timers[i].expires
    <3>1. i \in 1..n /\ i # k + 1 /\ timers'[i] = tl[i]
      BY <1>1, <2>2, <2>3, <2>5, <2>7
    <3>2. QED
      BY <3>1, <2>3
  <2>8. ASSUME NEW i \in 1..(n - 1), ~(i < k)
        PROVE  /\ i + 1 \in 1..n /\ i + 1 # k /\ timers'[i].proc = timers[i + 1].proc
               /\ timers'[i].expires = IF i = k THEN timers[i + 1].expires + e
                                       ELSE timers[i + 1].expires
    <3>1. i + 1 \in 1..n /\ i + 1 # k /\ (i + 1 = k + 1 <=> i = k) /\ timers'[i] = tl[i + 1]
      BY <1>1, <2>2, <2>3, <2>5, <2>8
    <3>2. QED
      BY <3>1, <2>3
  <2>9. \A i \in 1..n : i # k => timers[i].proc # p /\ left'[timers[i].proc] = left[timers[i].proc]
    BY <1>1, <1>4, <2>1 DEF OneEach
  <2>10. ASSUME NEW i \in 0..(n - 1)
         PROVE  Due(i)' = IF i < k THEN Due(i) ELSE Due(i + 1)
    <3>1. CASE i = 0
      BY <3>1, <2>2 DEF Due
    <3>2. CASE i # 0 /\ i < k
      <4>1. i \in 1..(n - 1) /\ i # k
        BY <3>2, <1>1, <2>2
      <4>2. timers'[i].proc = timers[i].proc /\ i \in 1..n
        BY <3>2, <4>1, <2>7
      <4>3. QED
        BY <3>2, <4>1, <4>2, <2>9 DEF Due
    <3>3. CASE i # 0 /\ ~(i < k)
      <4>1. i \in 1..(n - 1) /\ i + 1 # 0
        BY <3>3, <1>1
      <4>2. timers'[i].proc = timers[i + 1].proc /\ i + 1 \in 1..n /\ i + 1 # k
        BY <3>3, <4>1, <2>8
      <4>3. QED
        BY <3>3, <4>1, <4>2, <2>9 DEF Due
    <3>4. QED
      BY <3>1, <3>2, <3>3
  <2>11. Spaced'
    <3>1. SUFFICES ASSUME NEW i \in 1..(n - 1)
                   PROVE  timers'[i].expires >= 0 /\ Due(i - 1)' + timers'[i].expires = Due(i)'
      BY <2>6 DEF Spaced
    <3>2. i \in 0..(n - 1) /\ i - 1 \in 0..(n - 1) /\ i \in 1..n
      BY <1>1
    <3>3. CASE i < k
      <4>1. i - 1 < k
        BY <3>3, <2>2
      <4>2. QED
        BY <3>2, <3>3, <4>1, <2>7, <2>10, <1>5
    <3>4. CASE i = k
      <4>1. i - 1 < k /\ i + 1 \in 1..n /\ (i + 1) - 1 = i
        BY <3>4, <2>2, <1>1
      <4>2. Due(i - 1)' = Due(i - 1) /\ Due(i)' = Due(i + 1)
        BY <3>2, <3>4, <4>1, <2>2, <2>10
      <4>3. timers'[i].expires = timers[i + 1].expires + timers[i].expires
        BY <3>4, <2>2, <2>8
      <4>4. /\ Due(i - 1) + timers[i].expires = Due(i) /\ timers[i].expires >= 0
            /\ Due(i) + timers[i + 1].expires = Due(i + 1) /\ timers[i + 1].expires >= 0
        BY <3>2, <4>1, <1>5
      <4>5. Due(i - 1) \in Nat /\ timers[i].expires \in Int /\ timers[i + 1].expires \in Int
        BY <3>2, <4>1, <1>1
      <4>6. QED
        BY <4>2, <4>3, <4>4, <4>5
    <3>5. CASE i > k
      <4>1. ~(i < k) /\ i # k /\ ~(i - 1 < k) /\ i + 1 \in 1..n /\ (i - 1) + 1 = i /\ (i + 1) - 1 = i
        BY <3>5, <2>2, <1>1
      <4>2. Due(i - 1)' = Due(i) /\ Due(i)' = Due(i + 1)
        BY <3>2, <4>1, <2>10
      <4>3. timers'[i].expires = timers[i + 1].expires
        BY <4>1, <2>8
      <4>4. QED
        BY <4>1, <4>2, <4>3, <1>5
    <3>6. QED
      BY <3>3, <3>4, <3>5, <2>2
  <2>12. ~Expired'
    <3>1. SUFFICES ASSUME timers' # <<>> PROVE Head(timers').expires # 0
      BY DEF Expired
    <3>2. 1 \in 1..(n - 1) /\ Head(timers') = timers'[1]
      BY <3>1, <2>5, <2>6, <1>1
    <3>3. 1 \in 1..n /\ timers[1].expires >= 1 /\ timers[1].expires \in Int
      BY <3>2, <1>1, <1>6
    <3>4. CASE 1 < k
      BY <3>2, <3>3, <3>4, <2>7
    <3>5. CASE ~(1 < k)
      <4>1. k = 1 /\ 1 + 1 \in 1..n
        BY <3>2, <3>5, <2>2, <1>1
      <4>2. timers'[1].expires = timers[1 + 1].expires + timers[1].expires
        BY <3>2, <3>5, <4>1, <2>8
      <4>3. timers[1 + 1].expires >= 0 /\ timers[1 + 1].expires \in Int
        BY <4>1, <1>1, <1>5
      <4>4. QED
        BY <3>2, <3>3, <4>2, <4>3
    <3>6. QED
      BY <3>4, <3>5
  <2>13. SleepersTimed'
    <3>1. SUFFICES ASSUME NEW q \in Pid, wait_state[q] = "TIMER"
                   PROVE  \E i \in 1..(n - 1) : timers'[i].proc = q
      BY <1>2, <2>6 DEF SleepersTimed
    <3>2. PICK i \in 1..n : timers[i].proc = q
      BY <3>1, <1>1 DEF ClockInv, SleepersTimed
    <3>3. i # k
      BY <3>1, <3>2, <2>1, <1>3
    <3>4. CASE i < k
      <4>1. i \in 1..(n - 1)
        BY <3>4, <1>1, <2>2
      <4>2. QED
        BY <3>2, <3>4, <4>1, <2>7
    <3>5. CASE i > k
      <4>1. i - 1 \in 1..(n - 1) /\ ~(i - 1 < k) /\ (i - 1) + 1 = i
        BY <3>5, <1>1, <2>2
      <4>2. timers'[i - 1].proc = timers[i].proc
        BY <4>1, <2>8
      <4>3. QED
        BY <3>2, <4>1, <4>2
    <3>6. QED
      BY <3>3, <3>4, <3>5, <2>2
  <2>14. QED
    BY <2>11, <2>12, <2>13 DEF ClockInv
<1>9. QED
  BY <1>7, <1>8

\* A tick: the first timer and everybody's time left get one less.
LEMMA TickClock ==
    ASSUME IInv, IInv', ClockInv, Tick
    PROVE  ClockInv'
<1> DEFINE n == Len(timers)
<1>1. /\ timers \in Seq(Timer) /\ n \in Nat /\ DOMAIN timers = 1..n
      /\ left \in [Pid -> Nat]
      /\ \A i \in 1..n : /\ timers[i].proc \in Pid /\ timers[i].expires \in Int
                         /\ Due(i) \in Nat
      /\ Due(0) = 0
  BY TimerParts
<1>2. /\ timers' = Shift(timers, 1, -1) /\ irq' = "timer" /\ wait_state' = wait_state
      /\ left' = [p \in Pid |-> IF left[p] > 0 THEN left[p] - 1 ELSE 0] /\ irq = "none"
  BY DEF Tick
<1>3. /\ timers' \in Seq(Timer) /\ Len(timers') = n
      /\ \A i \in 1..n : timers'[i].proc = timers[i].proc
      /\ \A i \in 1..n : timers'[i].expires = IF i = 1 THEN timers[i].expires + (-1)
                                               ELSE timers[i].expires
  <2>1. 1 \in Nat \ {0} /\ -1 \in Int
    OBVIOUS
  <2>2. QED
    BY <2>1, <1>1, <1>2, ShiftKeeps, ShiftTimes
<1>4. DOMAIN timers' = 1..n
  BY <1>1, <1>3
<1>5. \A i \in 1..n : Due(i) >= 1 /\ (i = 1 => timers[i].expires >= 1)
  BY <1>1, <1>2, NoneDue DEF ClockInv
<1>6. Due(0)' = 0 /\ \A i \in 1..n : Due(i)' = Due(i) - 1
  BY <1>1, <1>2, <1>3, <1>5 DEF Due
<1>7. ASSUME NEW i \in 1..n
      PROVE  timers'[i].expires >= 0 /\ Due(i - 1)' + timers'[i].expires = Due(i)'
  <2>1. timers[i].expires >= 0 /\ Due(i - 1) + timers[i].expires = Due(i)
    BY <1>1 DEF ClockInv, Spaced
  <2>2. CASE i = 1
    <3>1. i - 1 = 0
      BY <2>2
    <3>2. QED
      BY <2>1, <2>2, <3>1, <1>1, <1>3, <1>5, <1>6
  <2>3. CASE i # 1
    <3>1. i - 1 \in 1..n
      BY <2>3, <1>1
    <3>2. Due(i - 1)' = Due(i - 1) - 1 /\ Due(i)' = Due(i) - 1
      BY <3>1, <1>6
    <3>3. timers'[i].expires = timers[i].expires
      BY <2>3, <1>3
    <3>4. Due(i - 1) \in Nat /\ Due(i) \in Nat /\ timers[i].expires \in Int
      BY <3>1, <1>1
    <3>5. QED
      BY <2>1, <3>2, <3>3, <3>4
  <2>4. QED
    BY <2>2, <2>3
<1>8. Spaced'
  BY <1>4, <1>7 DEF Spaced
<1>9. SleepersTimed'
  <2>1. DOMAIN timers = 1..n /\ SleepersTimed
    BY <1>1 DEF ClockInv
  <2>2. \A i \in 1..n : timers'[i].proc = timers[i].proc
    BY <1>3
  <2>3. QED
    BY <2>1, <2>2, <1>2, <1>4 DEF SleepersTimed
<1>10. QED
  BY <1>2, <1>8, <1>9 DEF ClockInv

\* The first timer fires: its owner has no time left, and is awake.
LEMMA ExpireClock ==
    ASSUME IInv, IInv', ClockInv, ExpireTimer
    PROVE  /\ ClockInv'
           /\ \A p \in Pid : wait_state[p] = "TIMER" /\ wait_state'[p] # "TIMER" => left[p] = 0
<1> DEFINE n == Len(timers)
<1>1. /\ timers \in Seq(Timer) /\ n \in Nat /\ DOMAIN timers = 1..n
      /\ left \in [Pid -> Nat]
      /\ \A i \in 1..n : /\ timers[i].proc \in Pid /\ timers[i].expires \in Int
                         /\ Due(i) \in Nat
      /\ Due(0) = 0
  BY TimerParts
<1>2. /\ timers # <<>> /\ Head(timers).expires = 0 /\ timers' = Tail(timers)
      /\ left' = left /\ irq = "timer" /\ irq' = irq
      /\ Wakeup(state, NotRunnable(Head(timers).proc))
  BY DEF ExpireTimer, Expired
<1>3. /\ n >= 1 /\ 1 \in 1..n /\ Head(timers) = timers[1]
      /\ timers' \in Seq(Timer) /\ Len(timers') = n - 1
      /\ \A i \in 1..(n - 1) : timers'[i] = timers[i + 1]
  BY <1>1, <1>2
<1>4. DOMAIN timers' = 1..(n - 1)
  BY <1>1, <1>3
<1>5. PICK h : h = timers[1].proc
  OBVIOUS
<1>6. \A i \in 1..n : timers[i].expires >= 0 /\ Due(i - 1) + timers[i].expires = Due(i)
  BY <1>1 DEF ClockInv, Spaced
<1>7. Due(1) = 0 /\ left[h] = 0
  <2>1. Due(1 - 1) + timers[1].expires = Due(1) /\ 1 - 1 = 0
    BY <1>3, <1>6
  <2>2. QED
    BY <2>1, <1>1, <1>2, <1>3, <1>5 DEF Due
<1>8. /\ wait_state'[h] = "0"
      /\ \A p \in Pid \ {h} : wait_state'[p] = wait_state[p]
  <2>1. h \in Pid
    BY <1>1, <1>3, <1>5
  <2>2. CASE state[h] # "RUNNABLE"
    <3>1. NotRunnable(h) = <<h>>
      BY <2>2 DEF NotRunnable, When
    <3>2. Range(<<h>>) = {h}
      BY SingleRange
    <3>3. wait_state' = [p \in Pid |-> IF p \in {h} THEN "0" ELSE wait_state[p]]
      BY <3>1, <3>2, <1>2, <1>3, <1>5 DEF Wakeup
    <3>4. QED
      BY <2>1, <3>3
  <2>3. CASE state[h] = "RUNNABLE"
    <3>1. NotRunnable(h) = <<>>
      BY <2>3 DEF NotRunnable, When
    <3>2. Range(<<>>) = {}
      BY DEF Range
    <3>3. wait_state' = [p \in Pid |-> wait_state[p]]
      BY <3>1, <3>2, <1>2, <1>3, <1>5 DEF Wakeup
    <3>4. wait_state[h] = "0"
      BY <2>1, <2>3 DEF IInv, WaitersSleep
    <3>5. QED
      BY <2>1, <3>3, <3>4
  <2>4. QED
    BY <2>2, <2>3
<1>9. ASSUME NEW i \in 0..(n - 1) PROVE Due(i)' = Due(i + 1)
  <2>1. CASE i = 0
    <3>1. i + 1 = 1
      BY <2>1
    <3>2. QED
      BY <2>1, <3>1, <1>7 DEF Due
  <2>2. CASE i # 0
    <3>1. i \in 1..(n - 1) /\ i + 1 # 0
      BY <2>2, <1>1
    <3>2. QED
      BY <2>2, <3>1, <1>2, <1>3 DEF Due
  <2>3. QED
    BY <2>1, <2>2
<1>10. Spaced'
  <2>1. SUFFICES ASSUME NEW i \in 1..(n - 1)
                 PROVE  timers'[i].expires >= 0 /\ Due(i - 1)' + timers'[i].expires = Due(i)'
    BY <1>4 DEF Spaced
  <2>2. /\ i \in 0..(n - 1) /\ i - 1 \in 0..(n - 1) /\ i + 1 \in 1..n
        /\ (i - 1) + 1 = i /\ (i + 1) - 1 = i
    BY <1>1
  <2>3. Due(i)' = Due(i + 1) /\ Due(i - 1)' = Due(i) /\ timers'[i] = timers[i + 1]
    BY <2>2, <1>3, <1>9
  <2>4. QED
    BY <2>2, <2>3, <1>6
<1>11. SleepersTimed'
  <2>1. SUFFICES ASSUME NEW q \in Pid, wait_state'[q] = "TIMER"
                 PROVE  \E i \in 1..(n - 1) : timers'[i].proc = q
    BY <1>4 DEF SleepersTimed
  <2>2. q # h /\ wait_state[q] = "TIMER"
    BY <2>1, <1>8
  <2>3. PICK i \in 1..n : timers[i].proc = q
    BY <2>2, <1>1 DEF ClockInv, SleepersTimed
  <2>4. i - 1 \in 1..(n - 1) /\ (i - 1) + 1 = i
    BY <2>2, <2>3, <1>1, <1>5
  <2>5. QED
    BY <2>3, <2>4, <1>3
<1>12. QED
  BY <1>2, <1>7, <1>8, <1>10, <1>11 DEF ClockInv

\* A step that does nothing about timers.
SameClock ==
    /\ timers' = timers /\ left' = left /\ (irq' = irq \/ ~Expired)
    /\ \A p \in Pid : wait_state'[p] = "TIMER" => wait_state[p] = "TIMER"

\* A sleep ends in time, or by a kill.
InTime ==
    \A p \in Pid : wait_state[p] = "TIMER" /\ wait_state'[p] # "TIMER" => left[p] = 0 \/ exiting'[p]

\* Whom a wakeup takes out of a wait.
LEMMA WakeupWaits ==
    ASSUME NEW st, NEW s, Wakeup(st, s)
    PROVE  \A p \in Pid : wait_state'[p] = IF p \in Range(s) THEN "0" ELSE wait_state[p]
BY DEF Wakeup

\* A new process waits for nothing, and did not before.
LEMMA NewProcClock ==
    ASSUME IInv, NEW c \in User, NEW l, NEW r, NewProc(c, l, r)
    PROVE  SameClock /\ InTime
<1>1. c \in Pid /\ wait_state[c] = "0"
  BY DEF NewProc, IInv, WaitersSleep, Pid
<1>2. Range(<<c>>) = {c}
  BY SingleRange
<1>3. \A p \in Pid : wait_state'[p] = IF p \in {c} THEN "0" ELSE wait_state[p]
  BY <1>2, WakeupWaits DEF NewProc
<1>4. timers' = timers /\ left' = left /\ irq' = irq
  BY DEF NewProc, clock
<1>5. QED
  BY <1>1, <1>3, <1>4 DEF SameClock, InTime

\* do_kill: whoever it wakes is exiting.
LEMMA DoKillClock ==
    ASSUME IInv, NEW k \in Pid, DoKill(k)
    PROVE  SameClock /\ InTime
<1>1. Range(When(Interruptible(wait_state[k]), k)) \subseteq {k}
  <2>1. Interruptible(wait_state[k]) \in BOOLEAN
    BY DEF Interruptible
  <2>2. QED
    BY <2>1, WhenRange
<1>2. \A p \in Pid \ {k} : wait_state'[p] = wait_state[p]
  BY <1>1, WakeupWaits DEF DoKill
<1>3. wait_state'[k] = "0" \/ wait_state'[k] = wait_state[k]
  BY WakeupWaits DEF DoKill
<1>4. exiting'[k]
  BY DEF DoKill, IInv, TypeOK
<1>5. timers' = timers /\ left' = left /\ irq' = irq
  BY DEF DoKill, clock
<1>6. QED
  BY <1>2, <1>3, <1>4, <1>5 DEF SameClock, InTime

\* do_exit wakes only those that wait for a child.
LEMMA DoExitClock ==
    ASSUME IInv, DoExit
    PROVE  SameClock /\ InTime
<1>1. \A q \in Range(ExitWakes) : wait_state[q] = "CHILD"
  <2>1. At("exit") /\ current # Init
    BY DEF DoExit
  <2>2. QED
    BY <2>1, ExitWakesRange
<1>2. \A p \in Pid : wait_state'[p] = IF p \in Range(ExitWakes) THEN "0" ELSE wait_state[p]
  BY WakeupWaits DEF DoExit
<1>3. timers' = timers /\ left' = left /\ irq' = irq
  BY DEF DoExit, clock
<1>4. QED
  BY <1>1, <1>2, <1>3 DEF SameClock, InTime

\* do_wait puts only its caller to sleep.
LEMMA DoWaitSleepClock ==
    ASSUME IInv, DoWaitSleep
    PROVE  SameClock /\ InTime
<1>1. wait_state[current] = "0" /\ current \in Pid
  BY Running DEF DoWaitSleep, At, SchedPoints
<1>2. \A p \in Pid : wait_state'[p] = IF p = current THEN "CHILD" ELSE wait_state[p]
  BY <1>1 DEF DoWaitSleep, IInv, TypeOK
<1>3. timers' = timers /\ left' = left /\ irq' = irq
  BY DEF DoWaitSleep, clock
<1>4. QED
  BY <1>1, <1>2, <1>3 DEF SameClock, InTime

\* do_sleep itself ends no sleep.
LEMMA DoSleepInTime ==
    ASSUME IInv, NEW t, DoSleep(t)
    PROVE  InTime
<1>1. \A p \in Pid : wait_state'[p] = wait_state[p] \/ wait_state'[p] = "TIMER"
  BY DEF DoSleep, IInv, TypeOK
<1>2. QED
  BY <1>1 DEF InTime

\* What a step does to the clock.
LEMMA ClockSteps ==
    ASSUME IInv, IInv', ClockInv, [Next]_vars
    PROVE  (SameClock \/ ClockInv') /\ InTime
<1> DEFINE Same == timers' = timers /\ left' = left /\ irq' = irq /\ wait_state' = wait_state
<1>1. Same => SameClock /\ InTime
  BY DEF SameClock, InTime
<1>2. CASE Syscall
  <2>1. ASSUME NEW c \in User, DoFork(c) PROVE SameClock /\ InTime
    BY <2>1, NewProcClock DEF DoFork
  <2>2. ASSUME NEW p \in Pid, DoKill(p) PROVE SameClock /\ InTime
    BY <2>2, DoKillClock
  <2>3. ASSUME NEW t \in 1..SLEEP_MAX, DoSleep(t) PROVE ClockInv' /\ InTime
    <3>1. t \in Nat
      BY BoundAssumption
    <3>2. QED
      BY <2>3, <3>1, DoSleepClock, DoSleepInTime
  <2>4. CASE NoEffect \/ SysExit \/ DoYield \/ \E p \in Pid : SysWait(p)
    <3>1. Same
      BY <2>4 DEF NoEffect, SysExit, DoYield, SysWait, clock
    <3>2. QED
      BY <3>1, <1>1
  <2>5. QED
    BY <1>2, <2>1, <2>2, <2>3, <2>4 DEF Syscall
<1>3. CASE KernelStep
  <2>1. ASSUME NEW c \in User, InitStart(c) PROVE SameClock /\ InTime
    BY <2>1, NewProcClock DEF InitStart
  <2>2. CASE Slept
    <3>1. InTime
      BY <2>2 DEF Slept, InTime
    <3>2. QED
      BY <2>2, <3>1, SleptClock
  <2>3. CASE \/ Schedule \/ (\E c \in User : DoWaitReap(c)) \/ DoWaitNone \/ Waited
             \/ InitExit \/ TrapReturn \/ InitEnd \/ UserMain
    <3>1. Same
      BY <2>3 DEF Schedule, DoWaitReap, DoWaitNone, Waited, InitExit, TrapReturn, InitEnd,
                  UserMain, clock
    <3>2. QED
      BY <3>1, <1>1
  <2>4. QED
    BY <1>3, <2>1, <2>2, <2>3, DoExitClock, DoWaitSleepClock DEF KernelStep
<1>4. CASE ExpireTimer
  BY <1>4, ExpireClock DEF InTime
<1>5. CASE ProcTick
  <2>1. timers' = timers /\ left' = left /\ ~Expired /\ wait_state' = wait_state
    BY <1>5 DEF ProcTick
  <2>2. QED
    BY <2>1 DEF SameClock, InTime
<1>6. CASE Tick
  <2>1. InTime
    BY <1>6 DEF Tick, InTime
  <2>2. QED
    BY <1>6, <2>1, TickClock
<1>7. CASE Panicked \/ UNCHANGED vars
  <2>1. Same
    BY <1>7 DEF Panicked, vars
  <2>2. QED
    BY <2>1, <1>1
<1>8. QED
  BY <1>2, <1>3, <1>4, <1>5, <1>6, <1>7 DEF Next, Handler

\* The clock's invariant is preserved.
LEMMA NextKeepsClock ==
    ASSUME IInv, ClockInv, [Next]_vars
    PROVE  IInv' /\ ClockInv' /\ InTime
<1>1. IInv'
  BY NextKeepsIInv
<1>2. (SameClock \/ ClockInv') /\ InTime
  BY <1>1, ClockSteps
<1>3. SameClock => ClockInv'
  <2>1. SUFFICES ASSUME SameClock PROVE ClockInv'
    OBVIOUS
  <2>2. Spaced'
    BY <2>1 DEF SameClock, ClockInv, Spaced, Due
  <2>3. SleepersTimed'
    BY <2>1 DEF SameClock, ClockInv, SleepersTimed
  <2>4. irq' = "none" => ~Expired'
    BY <2>1 DEF SameClock, ClockInv, Expired
  <2>5. QED
    BY <2>2, <2>3, <2>4 DEF ClockInv
<1>4. QED
  BY <1>1, <1>2, <1>3

\* At boot nobody sleeps.
LEMMA InitClock ==
    ASSUME ProcInit
    PROVE  ClockInv
<1>1. timers = <<>> /\ DOMAIN timers = {} /\ \A p \in Pid : wait_state[p] # "TIMER"
  BY DEF ProcInit
<1>2. QED
  BY <1>1 DEF ClockInv, Spaced, SleepersTimed, Expired

-----------------------------------------------------------------------------
(* The theorems.                                                           *)

\* The inductive invariant holds in every reachable state.
THEOREM Invariant == Spec => []IInv
<1>1. ProcInit => IInv
  BY InitIInv
<1>2. IInv /\ [Next]_vars => IInv'
  BY NextKeepsIInv
<1>3. QED
  BY <1>1, <1>2, PTL DEF Spec

\* Every variable of the process manager keeps its type, for any set of pids.
THEOREM TypeCorrect == Spec => []TypeOK
<1>1. IInv => TypeOK
  BY DEF IInv
<1>2. QED
  BY <1>1, Invariant, PTL

\* No wakeup of wakeup_proc is lost or doubled, and schedule() never picks a
\* process that is asleep, dead or gone.
THEOREM QueueIsExact == Spec => []RunQueueExact
<1>1. IInv => RunQueueExact
  BY DEF IInv
<1>2. QED
  BY <1>1, Invariant, PTL

\* wakeup_proc is never called on a zombie: what do_exit, do_kill and
\* run_timer_list wake is asleep.
THEOREM OnlySleepersWait == Spec => []WaitersSleep
<1>1. IInv => WaitersSleep
  BY DEF IInv
<1>2. QED
  BY <1>1, Invariant, PTL

\* do_exit never dereferences a parent that is gone.
THEOREM ParentsLive == Spec => []ParentAlive
<1>1. IInv => ParentAlive
  BY DEF IInv
<1>2. QED
  BY <1>1, Invariant, PTL

\* Nobody sleeps in do_wait beside a zombie it could collect.
THEOREM NoExitIsMissed == Spec => []NoMissedExit
<1>1. IInv => NoMissedExit
  BY DEF IInv
<1>2. QED
  BY <1>1, Invariant, PTL

\* The assertions of init_main hold: when do_wait finds no child any more, every other
\* process has been collected, whatever was forked, killed and orphaned before.
THEOREM InitIsLast == Spec => []InitEndsAlone
<1>1. IInv /\ FamilyInv /\ [Next]_vars => IInv' /\ FamilyInv'
  BY NextKeepsIInv, CountedStep, RootedStep, InitLoopsStep DEF FamilyInv
<1>2. IInv /\ FamilyInv => InitEndsAlone
  <2>1. SUFFICES ASSUME IInv, FamilyInv, pc[Init] = "init_end" PROVE InitEndsAlone!2
    BY DEF InitEndsAlone
  <2>2. Kids(Init) = {}
    BY <2>1 DEF FamilyInv, InitLoops
  <2>3. Live \cap User = {}
    <3>1. SUFFICES ASSUME Live \cap User # {} PROVE FALSE
      OBVIOUS
    <3>2. PICK p \in Live \cap User : parent[p] \notin Live \cap User
      BY <2>1, <3>1 DEF FamilyInv, Rooted
    <3>3. /\ p \in Pid \ {Idle} /\ state[p] # "UNINIT" /\ parent[p] # Idle
      BY <2>1, PidAssumption DEF Live, FamilyInv, Rooted
    <3>4. parent[p] \in Pid /\ state[parent[p]] # "UNINIT"
      BY <2>1, <3>3 DEF IInv, ParentAlive
    <3>5. parent[p] = Init
      BY <3>2, <3>3, <3>4 DEF Live, Pid
    <3>6. QED
      BY <2>2, <3>3, <3>5 DEF Kids
  <2>4. \A p \in User : state[p] = "UNINIT"
    BY <2>3 DEF Live, Pid
  <2>5. Live = {Idle, Init}
    BY <2>1, <2>3 DEF Live, Pid, IInv, PcState
  <2>6. QED
    BY <2>1, <2>4, <2>5, IdleAndInit DEF FamilyInv, Counted
<1>3. ProcInit => IInv /\ FamilyInv
  BY InitIInv, InitFamily
<1>4. QED
  BY <1>1, <1>2, <1>3, PTL DEF Spec

\* However add_timer, del_timer and run_timer_list interleave, the relative times of the
\* list add up to what each sleeper has left, and every sleeper has a timer.
THEOREM TimersAreExact == Spec => []TimersExact
<1>1. ProcInit => IInv /\ ClockInv
  BY InitIInv, InitClock
<1>2. IInv /\ ClockInv /\ [Next]_vars => IInv' /\ ClockInv'
  BY NextKeepsClock
<1>3. IInv /\ ClockInv => TimersExact
  <2>1. SUFFICES ASSUME IInv, ClockInv PROVE TimersExact
    OBVIOUS
  <2>2. ASSUME NEW i \in DOMAIN timers
        PROVE  timers[i].expires >= 0 /\ Expiry(timers)[i] = left[timers[i].proc]
    <3>1. i \in 0..Len(timers) /\ i # 0
      BY <2>1, TimerParts
    <3>2. Expiry(timers)[i] = Due(i)
      BY <2>1, <3>1, ExpiryIsDue DEF ClockInv
    <3>3. QED
      BY <2>1, <3>1, <3>2 DEF ClockInv, Spaced, Due
  <2>3. QED
    BY <2>1, <2>2 DEF TimersExact, ClockInv, SleepersTimed
<1>4. QED
  BY <1>1, <1>2, <1>3, PTL DEF Spec

\* do_sleep never returns early: only the expiry of the sleeper's own timer, at the time
\* it asked for, or a kill ends its sleep.
THEOREM SleepsLastLongEnough == Spec => SleepNotCutShort
<1>1. ProcInit => IInv /\ ClockInv
  BY InitIInv, InitClock
<1>2. IInv /\ ClockInv /\ [Next]_vars => IInv' /\ ClockInv'
  BY NextKeepsClock
<1>3. IInv /\ ClockInv /\ [Next]_vars =>
         [\A p \in Pid : wait_state[p] = "TIMER" /\ wait_state'[p] # "TIMER" =>
                            left[p] = 0 \/ exiting'[p]]_vars
  BY NextKeepsClock DEF InTime
<1>4. QED
  BY <1>1, <1>2, <1>3, PTL DEF Spec, SleepNotCutShort
=============================================================================

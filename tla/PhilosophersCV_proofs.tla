----------------------- MODULE PhilosophersCV_proofs ------------------------
(***************************************************************************)
(* For any number of philosophers over the monitor of kern/sync/monitor.c: *)
(* one thread at a time is active in the monitor, no signal is lost, and   *)
(* neighbours do not eat together.                                         *)
(***************************************************************************)
EXTENDS PhilosophersCV, SeqLemmas, FiniteSetTheorems

\* Where a thread may be asleep, outside the monitor, and inside it.
Waiting == {"hungry", "put_left", "cond_waited", "cond_signalled"}
Outside == {"think", "eat", "cond_wait", "cond_signal"}
Inside == Waiting \cup {"tested", "take_leave", "put_right", "put_leave"}
State == {"THINKING", "HUNGRY", "EATING"}

TypeOK ==
    /\ value \in [MonSem -> Nat]
    /\ queue \in [MonSem -> Seq(Phil)]
    /\ asleep \subseteq Phil
    /\ next_count \in Int
    /\ count \in [Phil -> Int]
    /\ pc \in [Phil -> Inside \cup Outside]
    /\ cvp = [i \in Phil |-> i]
    /\ state_condvar \in [Phil -> State]
    /\ iter \in [Phil -> Nat]
    /\ ret \in [Phil -> Inside \cup Outside]

\* The semaphore a thread asleep at l waits for.
Blocks(i, l) ==
    IF l \in {"hungry", "put_left"} THEN mutex
    ELSE IF l = "cond_signalled" THEN next ELSE cvsem(i)

\* The queues hold the threads asleep, each the queue of the semaphore it called down
\* on.
Queues ==
    /\ \A i \in asleep : pc[i] \in Waiting
    /\ \A s \in MonSem : IsInjective(queue[s])
    /\ \A s \in MonSem, i \in Phil : i \in Range(queue[s]) <=> i \in asleep /\ Blocks(i, pc[i]) = s

\* There is one right to run in the monitor: it is the unit of one of the semaphores,
\* or a thread has it.
OneToken ==
    /\ \A s \in MonSem : value[s] <= 1
    /\ \A s, r \in MonSem : value[s] > 0 /\ value[r] > 0 => s = r
    /\ \A s \in MonSem : value[s] > 0 => Active = {}
    /\ \A i, j \in Active : i = j
    /\ Active # {} \/ \E s \in MonSem : value[s] > 0

\* What the thread's place says of its state; a waiter whom a signal has let eat has
\* its unit, or has been woken.
Places ==
    \A i \in Phil :
        /\ pc[i] \in {"think", "hungry", "put_right", "put_leave", "cond_signal",
                      "cond_signalled"} => state_condvar[i] = "THINKING"
        /\ pc[i] = "tested" => state_condvar[i] \in {"HUNGRY", "EATING"}
        /\ pc[i] \in {"take_leave", "eat", "put_left"} => state_condvar[i] = "EATING"
        /\ pc[i] = "cond_wait" =>
              state_condvar[i] = IF value[cvsem(i)] = 0 THEN "HUNGRY" ELSE "EATING"
        /\ pc[i] = "cond_waited" =>
              state_condvar[i] = IF i \in asleep THEN "HUNGRY" ELSE "EATING"
        /\ pc[i] # "cond_wait" => value[cvsem(i)] = 0
        /\ pc[i] \in {"cond_signal", "cond_signalled"} => ret[i] \in {"put_right", "put_leave"}
        /\ count[i] = IF pc[i] \in {"cond_wait", "cond_waited"} THEN 1 ELSE 0

\* No two neighbours are let eat.
Apart == \A i \in Phil : state_condvar[i] = "EATING" => state_condvar[LEFT(i)] # "EATING"

\* The inductive invariant.
IInv == TypeOK /\ Queues /\ OneToken /\ Places /\ Apart

-----------------------------------------------------------------------------
\* Left and right neighbours are inverse to each other, and nobody is its own.
LEMMA Neighbours ==
    ASSUME TableAssumption, NEW i \in Phil
    PROVE  /\ LEFT(i) \in Phil /\ RIGHT(i) \in Phil
           /\ LEFT(RIGHT(i)) = i /\ RIGHT(LEFT(i)) = i
           /\ LEFT(i) # i /\ RIGHT(i) # i
<1>1. ASSUME NEW j \in Phil
      PROVE  LEFT(j) = IF j = 0 THEN N - 1 ELSE j - 1
  BY DEF TableAssumption, Phil, LEFT
<1>2. ASSUME NEW j \in Phil
      PROVE  RIGHT(j) = IF j = N - 1 THEN 0 ELSE j + 1
  BY DEF TableAssumption, Phil, RIGHT
<1>3. QED
  BY <1>1, <1>2 DEF TableAssumption, Phil

\* The semaphores of the monitor are distinct.
LEMMA Semaphores ==
    /\ mutex \in MonSem /\ next \in MonSem /\ mutex # next
    /\ \A i \in Phil : cvsem(i) \in MonSem /\ cvsem(i) # mutex /\ cvsem(i) # next
    /\ \A i, j \in Phil : cvsem(i) = cvsem(j) => i = j
BY DEF MonSem, mutex, next, cvsem

\* At first everybody thinks, and mutex has the only unit.
LEMMA InitIInv ==
    ASSUME TableAssumption, PhilInit
    PROVE  IInv
<1>1. /\ value = [s \in MonSem |-> IF s = mutex THEN 1 ELSE 0]
      /\ queue = [s \in MonSem |-> <<>>] /\ asleep = {}
      /\ next_count = 0 /\ count = [i \in Phil |-> 0]
  BY DEF PhilInit, MonInit, SemInit
<1>2. TypeOK
  BY <1>1 DEF PhilInit, TypeOK, Inside, Outside, Waiting, State
<1>3. Queues
  <2>1. \A s \in MonSem : queue[s] = <<>>
    BY <1>1
  <2>2. \A s \in MonSem : Range(queue[s]) = {} /\ IsInjective(queue[s])
    BY <2>1 DEF Range, IsInjective
  <2>3. QED
    BY <2>2, <1>1 DEF Queues
<1>4. OneToken
  <2>1. Active = {}
    BY DEF PhilInit, Active
  <2>2. QED
    BY <2>1, <1>1, Semaphores DEF OneToken
<1>5. Places /\ Apart
  BY <1>1, Semaphores, Neighbours DEF PhilInit, Places, Apart
<1>6. QED
  BY <1>2, <1>3, <1>4, <1>5 DEF IInv

\* A step to l changes one thread's place.
LEMMA GotoEffect ==
    ASSUME TypeOK, NEW i \in Phil, NEW l \in Inside \cup Outside, Goto(i, l)
    PROVE  /\ pc' \in [Phil -> Inside \cup Outside]
           /\ pc'[i] = l /\ \A j \in Phil \ {i} : pc'[j] = pc[j]
BY DEF TypeOK, Goto

\* A thread calls down(s): it takes the unit of s and is active, or it is asleep on s.
LEMMA Acquire ==
    ASSUME TypeOK, Queues, OneToken, NEW i \in Phil, NEW l \in Waiting, NEW s \in MonSem,
           pc[i] \in Outside, i \notin asleep, Blocks(i, l) = s, Down(i, s), Goto(i, l)
    PROVE  /\ value' \in [MonSem -> Nat] /\ queue' \in [MonSem -> Seq(Phil)]
           /\ asleep' \subseteq Phil /\ \A j \in Phil \ {i} : j \in asleep' <=> j \in asleep
           /\ \A r \in MonSem \ {s} : value'[r] = value[r]
           /\ value'[s] = 0
           /\ i \in asleep' <=> value[s] = 0
           /\ Queues' /\ OneToken'
<1>1. /\ pc' \in [Phil -> Inside \cup Outside]
      /\ pc'[i] = l /\ \A j \in Phil \ {i} : pc'[j] = pc[j]
  BY GotoEffect DEF Inside
<1>2. i \notin Active /\ \A j \in Active : j \in Phil /\ j \notin asleep
  BY DEF Active, Outside
<1>3. CASE value[s] > 0
  <2>1. value' = [value EXCEPT ![s] = @ - 1] /\ queue' = queue /\ asleep' = asleep
    BY <1>3 DEF Down
  <2>2. value[s] = 1
    BY <1>3 DEF TypeOK, OneToken
  <2>3. /\ value' \in [MonSem -> Nat] /\ value'[s] = 0
        /\ \A r \in MonSem \ {s} : value'[r] = value[r] /\ value'[r] = 0
    <3>1. /\ value' \in [MonSem -> Nat] /\ value'[s] = 0
          /\ \A r \in MonSem \ {s} : value'[r] = value[r]
      BY <2>1, <2>2 DEF TypeOK
    <3>2. \A r \in MonSem \ {s} : value[r] = 0
      BY <1>3 DEF OneToken, TypeOK
    <3>3. QED
      BY <3>1, <3>2
  <2>4. Active' = {i}
    <3>1. Active = {}
      BY <1>3 DEF OneToken
    <3>2. ASSUME NEW j \in Phil \ {i} PROVE j \notin Active'
      BY <3>1, <3>2, <2>1, <1>1 DEF Active
    <3>3. i \in Active'
      BY <2>1, <1>1 DEF Active, Waiting
    <3>4. Active' \subseteq Phil
      BY DEF Active
    <3>5. QED
      BY <3>2, <3>3, <3>4
  <2>5. OneToken'
    BY <2>3, <2>4 DEF OneToken
  <2>6. Queues'
    <3>1. \A j \in asleep : j \in Phil /\ j # i
      BY DEF TypeOK
    <3>2. QED
      BY <3>1, <2>1, <1>1 DEF Queues
  <2>7. QED
    BY <2>1, <2>2, <2>3, <2>5, <2>6 DEF TypeOK
<1>4. CASE ~(value[s] > 0)
  <2>1. /\ queue' = [queue EXCEPT ![s] = Append(@, i)]
        /\ asleep' = asleep \cup {i} /\ value' = value
    BY <1>4 DEF Down
  <2>2. value[s] = 0
    BY <1>4 DEF TypeOK
  <2>3. queue[s] \in Seq(Phil) /\ i \notin Range(queue[s]) /\ IsInjective(queue[s])
    BY DEF TypeOK, Queues
  <2>4. /\ Append(queue[s], i) \in Seq(Phil)
        /\ Range(Append(queue[s], i)) = Range(queue[s]) \cup {i}
        /\ IsInjective(Append(queue[s], i))
    BY <2>3, AppendRange
  <2>5. /\ queue' \in [MonSem -> Seq(Phil)]
        /\ queue'[s] = Append(queue[s], i)
        /\ \A r \in MonSem \ {s} : queue'[r] = queue[r]
    BY <2>1, <2>4 DEF TypeOK
  <2>6. Queues'
    <3>1. \A j \in asleep' : pc'[j] \in Waiting
      BY <2>1, <1>1 DEF Queues, TypeOK
    <3>2. \A r \in MonSem : IsInjective(queue'[r])
      BY <2>4, <2>5 DEF Queues
    <3>3. ASSUME NEW r \in MonSem, NEW j \in Phil
          PROVE  j \in Range(queue'[r]) <=> j \in asleep' /\ Blocks(j, pc'[j]) = r
      <4>1. CASE j = i
        BY <4>1, <2>1, <2>4, <2>5, <1>1 DEF Queues
      <4>2. CASE j # i
        BY <4>2, <2>1, <2>4, <2>5, <1>1 DEF Queues
      <4>3. QED
        BY <4>1, <4>2
    <3>4. QED
      BY <3>1, <3>2, <3>3 DEF Queues, Blocks
  <2>7. Active' = Active
    BY <2>1, <1>1, <1>2 DEF Active
  <2>8. OneToken'
    BY <2>1, <2>7 DEF OneToken
  <2>9. QED
    BY <2>1, <2>2, <2>5, <2>6, <2>8 DEF TypeOK
<1>5. QED
  BY <1>3, <1>4

\* The active thread calls up(s) and is active no more: the right to run is the unit of
\* s, or the first thread asleep on s has it.
LEMMA Release ==
    ASSUME TypeOK, Queues, OneToken, NEW i \in Phil, NEW l \in Outside, NEW s \in MonSem,
           i \in Active, Up(s), Goto(i, l)
    PROVE  /\ value' \in [MonSem -> Nat] /\ queue' \in [MonSem -> Seq(Phil)]
           /\ asleep' \subseteq asleep
           /\ \A r \in MonSem \ {s} : value'[r] = value[r]
           /\ \/ value'[s] = 1 /\ asleep' = asleep /\ queue[s] = <<>>
              \/ /\ value'[s] = 0
                 /\ \E w \in asleep : asleep' = asleep \ {w} /\ Blocks(w, pc[w]) = s
           /\ Queues' /\ OneToken'
<1>1. /\ pc' \in [Phil -> Inside \cup Outside]
      /\ pc'[i] = l /\ \A j \in Phil \ {i} : pc'[j] = pc[j]
  BY GotoEffect
<1>2. i \notin asleep /\ (\A j \in Active : j = i) /\ \A r \in MonSem : value[r] = 0
  BY DEF Active, OneToken, TypeOK
<1>3. i \notin Active'
  BY <1>1 DEF Active, Outside
<1>4. CASE queue[s] = <<>>
  <2>1. value' = [value EXCEPT ![s] = @ + 1] /\ queue' = queue /\ asleep' = asleep
    BY <1>4 DEF Up
  <2>2. /\ value' \in [MonSem -> Nat] /\ value'[s] = 1
        /\ \A r \in MonSem \ {s} : value'[r] = value[r] /\ value'[r] = 0
    BY <2>1, <1>2 DEF TypeOK
  <2>3. Active' = {}
    <3>1. ASSUME NEW j \in Phil \ {i} PROVE j \notin Active'
      BY <3>1, <2>1, <1>1, <1>2 DEF Active
    <3>2. Active' \subseteq Phil
      BY DEF Active
    <3>3. QED
      BY <3>1, <3>2, <1>3
  <2>4. OneToken'
    BY <2>2, <2>3 DEF OneToken
  <2>5. Queues'
    <3>1. \A j \in asleep : j \in Phil /\ j # i
      BY <1>2 DEF TypeOK
    <3>2. QED
      BY <3>1, <2>1, <1>1, <1>2 DEF Queues
  <2>6. QED
    BY <2>1, <2>2, <2>4, <2>5, <1>4 DEF TypeOK
<1>5. CASE queue[s] # <<>>
  <2>1. PICK w : w = Head(queue[s])
    OBVIOUS
  <2>2. /\ queue' = [queue EXCEPT ![s] = Tail(@)]
        /\ asleep' = asleep \ {w} /\ value' = value
    BY <1>5, <2>1 DEF Up
  <2>3. queue[s] \in Seq(Phil) /\ IsInjective(queue[s])
    BY DEF TypeOK, Queues
  <2>4. /\ Tail(queue[s]) \in Seq(Phil) /\ IsInjective(Tail(queue[s]))
        /\ w \in Range(queue[s])
        /\ Range(Tail(queue[s])) = Range(queue[s]) \ {w}
    BY <1>5, <2>1, <2>3, TailRange
  <2>5. w \in Phil
    BY <2>3, <2>4 DEF Range
  <2>6. w \in asleep /\ Blocks(w, pc[w]) = s /\ pc[w] \in Waiting /\ w # i
    BY <2>4, <2>5, <1>2 DEF Queues
  <2>7. /\ queue' \in [MonSem -> Seq(Phil)]
        /\ queue'[s] = Tail(queue[s])
        /\ \A r \in MonSem \ {s} : queue'[r] = queue[r]
    BY <2>2, <2>4 DEF TypeOK
  <2>8. Active' = {w}
    <3>1. ASSUME NEW j \in Phil \ {i}, j # w PROVE j \notin Active'
      BY <3>1, <2>2, <1>1, <1>2 DEF Active
    <3>2. Active' \subseteq Phil
      BY DEF Active
    <3>3. w \in Active'
      BY <2>2, <2>5, <2>6, <1>1 DEF Active, Waiting
    <3>4. QED
      BY <3>1, <3>2, <3>3, <1>3
  <2>9. OneToken'
    BY <2>2, <2>8, <1>2 DEF OneToken
  <2>10. Queues'
    <3>1. \A j \in asleep' : pc'[j] \in Waiting
      BY <2>2, <1>1, <1>2 DEF Queues, TypeOK
    <3>2. \A r \in MonSem : IsInjective(queue'[r])
      BY <2>4, <2>7 DEF Queues
    <3>3. ASSUME NEW r \in MonSem, NEW j \in Phil
          PROVE  j \in Range(queue'[r]) <=> j \in asleep' /\ Blocks(j, pc'[j]) = r
      <4>1. CASE j = w
        BY <4>1, <2>2, <2>4, <2>6, <2>7, <1>1 DEF Queues
      <4>2. CASE j # w /\ j # i
        BY <4>2, <2>2, <2>4, <2>7, <1>1 DEF Queues
      <4>3. CASE j = i
        BY <4>3, <2>2, <2>4, <2>7, <1>2 DEF Queues
      <4>4. QED
        BY <4>1, <4>2, <4>3
    <3>4. QED
      BY <3>1, <3>2, <3>3 DEF Queues, Blocks
  <2>11. QED
    BY <2>2, <2>6, <2>7, <2>9, <2>10, <1>2 DEF TypeOK
<1>6. QED
  BY <1>4, <1>5

\* The active thread goes on inside the monitor.
LEMMA Move ==
    ASSUME TypeOK, Queues, OneToken, NEW i \in Phil, NEW l \in Inside,
           i \in Active, Goto(i, l), UNCHANGED <<value, queue, asleep>>
    PROVE  Queues' /\ OneToken'
<1>1. /\ pc' \in [Phil -> Inside \cup Outside]
      /\ pc'[i] = l /\ \A j \in Phil \ {i} : pc'[j] = pc[j]
  BY GotoEffect
<1>2. i \notin asleep /\ \A j \in asleep : j \in Phil /\ j # i
  BY DEF Active, TypeOK
<1>3. Active' = Active
  BY <1>1, <1>2 DEF Active, Inside, Waiting
<1>4. OneToken'
  BY <1>3 DEF OneToken
<1>5. Queues'
  BY <1>1, <1>2 DEF Queues
<1>6. QED
  BY <1>4, <1>5

\* j, hungry with no neighbour eating in st, is let eat.
LEMMA ApartKept ==
    ASSUME TableAssumption, NEW st \in [Phil -> State], NEW j \in Phil, CanEat(st, j),
           \A k \in Phil : st[k] = "EATING" => st[LEFT(k)] # "EATING",
           state_condvar' = [st EXCEPT ![j] = "EATING"]
    PROVE  Apart'
<1>1. st[j] = "HUNGRY" /\ st[LEFT(j)] # "EATING" /\ st[RIGHT(j)] # "EATING"
  BY DEF CanEat
<1>2. state_condvar'[j] = "EATING" /\ \A k \in Phil \ {j} : state_condvar'[k] = st[k]
  OBVIOUS
<1>3. SUFFICES ASSUME NEW k \in Phil, state_condvar'[k] = "EATING"
               PROVE  state_condvar'[LEFT(k)] # "EATING"
  BY DEF Apart
<1>4. LEFT(k) \in Phil /\ LEFT(k) # k /\ RIGHT(LEFT(k)) = k
  BY Neighbours
<1>5. CASE k = j
  BY <1>1, <1>2, <1>4, <1>5
<1>6. CASE k # j /\ LEFT(k) = j
  BY <1>1, <1>2, <1>3, <1>4, <1>6
<1>7. CASE k # j /\ LEFT(k) # j
  BY <1>2, <1>3, <1>4, <1>7
<1>8. QED
  BY <1>5, <1>6, <1>7

\* phi_test_condvar: i, in the monitor, becomes hungry and tests itself, or puts down
\* its forks and tests its neighbours, signalling those that it lets eat.
LEMMA TestStep ==
    ASSUME TableAssumption, IInv, NEW i \in Phil, NEW j \in Phil, NEW new, NEW l,
           \/ pc[i] = "hungry" /\ new = "HUNGRY" /\ l = "tested" /\ j = i
           \/ pc[i] = "put_left" /\ new = "THINKING" /\ l = "put_right" /\ j # i
           \/ pc[i] = "put_right" /\ new = "THINKING" /\ l = "put_leave" /\ j # i,
           i \notin asleep, Test([state_condvar EXCEPT ![i] = new], i, j, l), iter' = iter
    PROVE  IInv'
<1>1. TypeOK /\ Queues /\ OneToken /\ Places /\ Apart
  BY DEF IInv
<1>2. i \in Active /\ (\A k \in Active : k = i) /\ \A r \in MonSem : value[r] = 0
  BY <1>1 DEF Active, OneToken, TypeOK
<1>3. PICK st : st = [state_condvar EXCEPT ![i] = new]
  OBVIOUS
<1>4. /\ st \in [Phil -> State]
      /\ st[i] = new /\ new # "EATING" /\ \A k \in Phil \ {i} : st[k] = state_condvar[k]
  BY <1>1, <1>3 DEF TypeOK, State
<1>5. ASSUME NEW k \in Phil, st[k] = "EATING" PROVE st[LEFT(k)] # "EATING"
  <2>1. LEFT(k) \in Phil
    BY Neighbours
  <2>2. QED
    BY <2>1, <1>1, <1>4, <1>5 DEF Apart
<1>6. /\ ret' \in [Phil -> Inside \cup Outside] /\ ret'[i] = l
      /\ \A k \in Phil \ {i} : ret'[k] = ret[k]
  BY <1>1 DEF Test, TypeOK, Inside, Waiting
<1>7. /\ l \in Inside /\ l \notin {"cond_wait", "cond_waited", "cond_signalled"}
      /\ pc[i] \notin {"cond_wait", "cond_waited"}
  BY DEF Inside
<1>8. CASE CanEat(st, j) /\ count[j] > 0
  <2>1. /\ state_condvar' = [st EXCEPT ![j] = "EATING"]
        /\ next_count' = next_count + 1 /\ Up(cvsem(j)) /\ Goto(i, "cond_signal")
        /\ count' = count /\ cvp' = cvp
    BY <1>3, <1>8 DEF Test, CondSignal
  <2>2. Apart'
    BY <2>1, <1>4, <1>5, <1>8, ApartKept
  <2>3. pc[j] \in {"cond_wait", "cond_waited"} /\ j # i /\ st[j] = "HUNGRY"
    BY <1>1, <1>7, <1>8 DEF Places, CanEat
  <2>4. /\ state_condvar' \in [Phil -> State] /\ state_condvar'[j] = "EATING"
        /\ state_condvar'[i] = new
        /\ \A k \in Phil \ {i, j} : state_condvar'[k] = state_condvar[k]
    BY <2>1, <2>3, <1>4 DEF State
  <2>5. /\ pc' \in [Phil -> Inside \cup Outside]
        /\ pc'[i] = "cond_signal" /\ \A k \in Phil \ {i} : pc'[k] = pc[k]
    BY <2>1, <1>1, GotoEffect DEF Outside
  <2>6. /\ value' \in [MonSem -> Nat] /\ queue' \in [MonSem -> Seq(Phil)]
        /\ asleep' \subseteq asleep
        /\ \A r \in MonSem \ {cvsem(j)} : value'[r] = value[r]
        /\ \/ value'[cvsem(j)] = 1 /\ asleep' = asleep /\ queue[cvsem(j)] = <<>>
           \/ /\ value'[cvsem(j)] = 0
              /\ \E w \in asleep : asleep' = asleep \ {w} /\ Blocks(w, pc[w]) = cvsem(j)
        /\ Queues' /\ OneToken'
    BY <2>1, <1>1, <1>2, Semaphores, Release DEF Outside
  <2>7. TypeOK'
    BY <2>1, <2>4, <2>5, <2>6, <1>1, <1>6 DEF TypeOK
  <2>8. \A k \in Phil \ {j} : value'[cvsem(k)] = value[cvsem(k)]
    BY <2>6, Semaphores
  <2>9. \/ value'[cvsem(j)] = 1 /\ asleep' = asleep /\ pc[j] = "cond_wait"
        \/ value'[cvsem(j)] = 0 /\ asleep' = asleep \ {j} /\ pc[j] = "cond_waited"
    <3>1. CASE value'[cvsem(j)] = 1 /\ asleep' = asleep /\ queue[cvsem(j)] = <<>>
      <4>1. Range(queue[cvsem(j)]) = {}
        BY <3>1 DEF Range
      <4>2. pc[j] = "cond_waited" => j \notin asleep
        BY <4>1, <1>1, Semaphores DEF Queues, Blocks
      <4>3. pc[j] # "cond_waited"
        BY <4>2, <2>3, <1>2 DEF Active
      <4>4. QED
        BY <3>1, <4>3, <2>3
    <3>2. ASSUME value'[cvsem(j)] = 0, NEW w \in asleep, asleep' = asleep \ {w},
                 Blocks(w, pc[w]) = cvsem(j)
          PROVE  w = j /\ pc[j] = "cond_waited"
      <4>1. w \in Phil /\ pc[w] \in Waiting
        BY <1>1 DEF TypeOK, Queues
      <4>2. pc[w] = "cond_waited" /\ cvsem(w) = cvsem(j)
        BY <3>2, <4>1, Semaphores DEF Blocks, Waiting
      <4>3. QED
        BY <4>1, <4>2, Semaphores
    <3>3. QED
      BY <2>6, <3>1, <3>2
  <2>10. Places'
    <3>1. SUFFICES ASSUME NEW k \in Phil PROVE Places!(k)'
      BY DEF Places
    <3>2. CASE k = i
      BY <3>2, <2>1, <2>3, <2>4, <2>5, <2>8, <1>1, <1>2, <1>6, <1>7, Semaphores DEF Places
    <3>3. CASE k = j
      BY <3>3, <2>1, <2>3, <2>4, <2>5, <2>9, <1>1 DEF Places
    <3>4. CASE k # i /\ k # j
      BY <3>4, <2>1, <2>4, <2>5, <2>8, <2>9, <1>1, <1>6 DEF Places
    <3>5. QED
      BY <3>2, <3>3, <3>4
  <2>11. QED
    BY <2>2, <2>6, <2>7, <2>10 DEF IInv
<1>9. CASE ~(CanEat(st, j) /\ count[j] > 0)
  <2>1. /\ state_condvar' = st \/ (CanEat(st, j) /\ state_condvar' = [st EXCEPT ![j] = "EATING"])
        /\ Goto(i, l)
        /\ UNCHANGED <<value, queue, asleep, next_count, count, cvp>>
    BY <1>3, <1>9 DEF Test, CondSignal
  <2>2. Apart'
    BY <2>1, <1>4, <1>5, ApartKept DEF Apart
  <2>3. /\ pc' \in [Phil -> Inside \cup Outside]
        /\ pc'[i] = l /\ \A k \in Phil \ {i} : pc'[k] = pc[k]
    BY <2>1, <1>1, <1>7, GotoEffect
  <2>4. Queues' /\ OneToken'
    BY <2>1, <1>1, <1>2, <1>7, Move
  <2>5. CanEat(st, j) => j = i
    <3>1. SUFFICES ASSUME CanEat(st, j), j # i PROVE FALSE
      OBVIOUS
    <3>2. state_condvar[j] = "HUNGRY" /\ ~(count[j] > 0)
      BY <3>1, <1>4, <1>9 DEF CanEat
    <3>3. pc[j] \notin {"cond_wait", "cond_waited"}
      BY <3>2, <1>1 DEF Places
    <3>4. pc[j] = "tested"
      BY <3>2, <3>3, <1>1 DEF Places, TypeOK, Inside, Outside, Waiting
    <3>5. j \in Active
      BY <3>4, <1>1 DEF Active, Queues, Waiting
    <3>6. QED
      BY <3>1, <3>5, <1>2
  <2>6. /\ state_condvar' \in [Phil -> State]
        /\ \A k \in Phil \ {i} : state_condvar'[k] = state_condvar[k]
        /\ state_condvar'[i] = new \/ (new = "HUNGRY" /\ state_condvar'[i] = "EATING")
    BY <2>1, <2>5, <1>4 DEF CanEat, State
  <2>7. TypeOK'
    BY <2>1, <2>3, <2>6, <1>1, <1>6 DEF TypeOK
  <2>8. Places'
    <3>1. SUFFICES ASSUME NEW k \in Phil PROVE Places!(k)'
      BY DEF Places
    <3>2. CASE k = i
      BY <3>2, <2>1, <2>3, <2>6, <1>1, <1>2, <1>6, <1>7, Semaphores DEF Places
    <3>3. CASE k # i
      BY <3>3, <2>1, <2>3, <2>6, <1>1, <1>6 DEF Places
    <3>4. QED
      BY <3>2, <3>3
  <2>9. QED
    BY <2>2, <2>4, <2>7, <2>8 DEF IInv
<1>10. QED
  BY <1>8, <1>9

\* Entering the monitor, and the downs of cond_wait and cond_signal.
LEMMA DownStep ==
    ASSUME TableAssumption, IInv, NEW i \in Phil, NEW l, NEW s,
           \/ pc[i] = "think" /\ l = "hungry" /\ s = mutex
           \/ pc[i] = "eat" /\ l = "put_left" /\ s = mutex
           \/ pc[i] = "cond_wait" /\ l = "cond_waited" /\ s = cvsem(i)
           \/ pc[i] = "cond_signal" /\ l = "cond_signalled" /\ s = next,
           i \notin asleep, Down(i, s), Goto(i, l), iter' \in [Phil -> Nat],
           UNCHANGED <<next_count, count, cvp, state_condvar, ret>>
    PROVE  IInv'
<1>1. TypeOK /\ Queues /\ OneToken /\ Places /\ Apart
  BY DEF IInv
<1>2. l \in Waiting /\ s \in MonSem /\ pc[i] \in Outside /\ Blocks(i, l) = s
  BY Semaphores DEF Waiting, Outside, Blocks
<1>3. /\ pc' \in [Phil -> Inside \cup Outside]
      /\ pc'[i] = l /\ \A k \in Phil \ {i} : pc'[k] = pc[k]
  BY <1>1, <1>2, GotoEffect DEF Inside
<1>4. /\ value' \in [MonSem -> Nat] /\ queue' \in [MonSem -> Seq(Phil)]
      /\ asleep' \subseteq Phil /\ \A j \in Phil \ {i} : j \in asleep' <=> j \in asleep
      /\ \A r \in MonSem \ {s} : value'[r] = value[r]
      /\ value'[s] = 0
      /\ i \in asleep' <=> value[s] = 0
      /\ Queues' /\ OneToken'
  BY <1>1, <1>2, Acquire
<1>5. TypeOK'
  BY <1>1, <1>3, <1>4 DEF TypeOK
<1>6. Places'
  <2>1. SUFFICES ASSUME NEW k \in Phil PROVE Places!(k)'
    BY DEF Places
  <2>2. CASE k = i
    <3>1. value'[cvsem(i)] = 0
      BY <1>1, <1>4, Semaphores DEF Places
    <3>2. l = "cond_waited" => state_condvar[i] = IF i \in asleep' THEN "HUNGRY" ELSE "EATING"
      BY <1>1, <1>4 DEF Places
    <3>3. QED
      BY <2>2, <3>1, <3>2, <1>1, <1>3 DEF Places
  <2>3. CASE k # i
    <3>1. value'[cvsem(k)] = value[cvsem(k)]
      BY <2>3, <1>4, Semaphores
    <3>2. QED
      BY <2>3, <3>1, <1>1, <1>3, <1>4 DEF Places
  <2>4. QED
    BY <2>2, <2>3
<1>7. Apart'
  BY <1>1 DEF Apart
<1>8. QED
  BY <1>4, <1>5, <1>6, <1>7 DEF IInv

\* Leaving the monitor, and giving it up in cond_wait.
LEMMA UpStep ==
    ASSUME TableAssumption, IInv, NEW i \in Phil, NEW l,
           \/ pc[i] = "take_leave" /\ l = "eat" /\ count' = count /\ cvp' = cvp
           \/ pc[i] = "put_leave" /\ l = "think" /\ count' = count /\ cvp' = cvp
           \/ /\ pc[i] = "tested" /\ state_condvar[i] = "HUNGRY" /\ l = "cond_wait"
              /\ count' = [count EXCEPT ![i] = @ + 1] /\ cvp' = [cvp EXCEPT ![i] = i],
           i \notin asleep, Up(Successor), Goto(i, l),
           UNCHANGED <<next_count, iter, state_condvar, ret>>
    PROVE  IInv'
<1>1. TypeOK /\ Queues /\ OneToken /\ Places /\ Apart
  BY DEF IInv
<1>2. PICK s : s = Successor
  OBVIOUS
<1>3. s \in {mutex, next} /\ s \in MonSem
  BY <1>2, Semaphores DEF Successor
<1>4. i \in Active /\ l \in Outside
  BY DEF Active, Outside
<1>5. \A r \in MonSem : value[r] = 0
  <2>1. \A r \in MonSem : value[r] \in Nat /\ (value[r] > 0 => Active = {})
    BY <1>1 DEF OneToken, TypeOK
  <2>2. QED
    BY <2>1, <1>4
<1>6. /\ pc' \in [Phil -> Inside \cup Outside]
      /\ pc'[i] = l /\ \A k \in Phil \ {i} : pc'[k] = pc[k]
  BY <1>1, <1>4, GotoEffect
<1>7. /\ value' \in [MonSem -> Nat] /\ queue' \in [MonSem -> Seq(Phil)]
      /\ asleep' \subseteq asleep
      /\ \A r \in MonSem \ {s} : value'[r] = value[r]
      /\ \/ value'[s] = 1 /\ asleep' = asleep /\ queue[s] = <<>>
         \/ /\ value'[s] = 0
            /\ \E w \in asleep : asleep' = asleep \ {w} /\ Blocks(w, pc[w]) = s
      /\ Queues' /\ OneToken'
  <2>1. Up(s)
    BY <1>2
  <2>2. QED
    BY <2>1, <1>1, <1>3, <1>4, Release
<1>8. \A k \in Phil : value'[cvsem(k)] = value[cvsem(k)] /\ value[cvsem(k)] = 0
  BY <1>3, <1>5, <1>7, Semaphores
<1>9. \A k \in Phil : pc[k] = "cond_waited" => (k \in asleep' <=> k \in asleep)
  <2>1. SUFFICES ASSUME NEW k \in Phil, pc[k] = "cond_waited", k \in asleep PROVE k \in asleep'
    BY <1>7
  <2>2. Blocks(k, pc[k]) # s
    BY <2>1, <1>3, Semaphores DEF Blocks
  <2>3. QED
    BY <2>1, <2>2, <1>7
<1>10. /\ cvp' = cvp /\ count' \in [Phil -> Int]
       /\ \A k \in Phil \ {i} : count'[k] = count[k]
       /\ count'[i] = IF l = "cond_wait" THEN 1 ELSE 0
  <2>1. cvp' = cvp
    BY <1>1 DEF TypeOK
  <2>2. count[i] = 0
    BY <1>1 DEF Places
  <2>3. QED
    BY <2>1, <2>2, <1>1 DEF TypeOK
<1>11. TypeOK'
  BY <1>1, <1>6, <1>7, <1>10 DEF TypeOK
<1>12. Places'
  <2>1. SUFFICES ASSUME NEW k \in Phil PROVE Places!(k)'
    BY DEF Places
  <2>2. CASE k = i
    BY <2>2, <1>1, <1>6, <1>8, <1>10 DEF Places
  <2>3. CASE k # i
    BY <2>3, <1>1, <1>6, <1>8, <1>9, <1>10 DEF Places
  <2>4. QED
    BY <2>2, <2>3
<1>13. Apart'
  BY <1>1 DEF Apart
<1>14. QED
  BY <1>7, <1>11, <1>12, <1>13 DEF IInv

\* The steps inside the monitor: not waiting, and the ends of cond_wait and cond_signal.
LEMMA InsideStep ==
    ASSUME TableAssumption, IInv, NEW i \in Phil, NEW l,
           \/ /\ pc[i] = "tested" /\ state_condvar[i] # "HUNGRY" /\ l = "take_leave"
              /\ count' = count /\ next_count' = next_count
           \/ /\ pc[i] = "cond_waited" /\ l = "take_leave"
              /\ count' = [count EXCEPT ![i] = @ - 1] /\ next_count' = next_count
           \/ /\ pc[i] = "cond_signalled" /\ l = ret[i]
              /\ count' = count /\ next_count' = next_count - 1,
           i \notin asleep, Goto(i, l),
           UNCHANGED <<value, queue, asleep, cvp, iter, state_condvar, ret>>
    PROVE  IInv'
<1>1. TypeOK /\ Queues /\ OneToken /\ Places /\ Apart
  BY DEF IInv
<1>2. l \in {"take_leave", "put_right", "put_leave"} /\ l \in Inside /\ i \in Active
  BY <1>1 DEF Places, Inside, Active
<1>3. /\ pc' \in [Phil -> Inside \cup Outside]
      /\ pc'[i] = l /\ \A k \in Phil \ {i} : pc'[k] = pc[k]
  BY <1>1, <1>2, GotoEffect
<1>4. Queues' /\ OneToken'
  BY <1>1, <1>2, Move
<1>5. /\ count' \in [Phil -> Int] /\ next_count' \in Int
      /\ \A k \in Phil \ {i} : count'[k] = count[k]
      /\ count'[i] = 0
  <2>1. count[i] = IF pc[i] = "cond_waited" THEN 1 ELSE 0
    BY <1>1 DEF Places
  <2>2. QED
    BY <2>1, <1>1 DEF TypeOK
<1>6. TypeOK'
  BY <1>1, <1>3, <1>5 DEF TypeOK
<1>7. Places'
  <2>1. SUFFICES ASSUME NEW k \in Phil PROVE Places!(k)'
    BY DEF Places
  <2>2. CASE k = i
    BY <2>2, <1>1, <1>2, <1>3, <1>5 DEF Places
  <2>3. CASE k # i
    BY <2>3, <1>1, <1>3, <1>5 DEF Places
  <2>4. QED
    BY <2>2, <2>3
<1>8. Apart'
  BY <1>1 DEF Apart
<1>9. QED
  BY <1>4, <1>6, <1>7, <1>8 DEF IInv

\* Every step preserves the invariant.
LEMMA NextIInv ==
    ASSUME TableAssumption, IInv, [Next]_vars
    PROVE  IInv'
<1>1. TypeOK
  BY DEF IInv
<1>2. ASSUME NEW i \in Phil, Step(i) PROVE IInv'
  <2>1. CASE TakeEnter(i)
    <3>1. iter' \in [Phil -> Nat]
      BY <2>1, <1>1 DEF TakeEnter, TypeOK
    <3>2. QED
      BY <2>1, <3>1, DownStep DEF TakeEnter, At, Enter
  <2>2. CASE Hungry(i)
    BY <2>2, TestStep DEF Hungry, At
  <2>3. CASE WaitIfHungry(i)
    <3>1. CASE state_condvar[i] = "HUNGRY"
      BY <2>3, <3>1, UpStep DEF WaitIfHungry, At, CondWait, table
    <3>2. CASE state_condvar[i] # "HUNGRY"
      BY <2>3, <3>2, InsideStep DEF WaitIfHungry, At, table
    <3>3. QED
      BY <3>1, <3>2
  <2>4. CASE TakeLeave(i)
    BY <2>4, UpStep DEF TakeLeave, At, Leave, table
  <2>5. CASE PutEnter(i)
    BY <2>5, <1>1, DownStep DEF PutEnter, At, Enter, table, TypeOK
  <2>6. CASE PutLeft(i)
    BY <2>6, Neighbours, TestStep DEF PutLeft, At
  <2>7. CASE PutRight(i)
    <3>1. pc[i] = "put_right" /\ i \notin asleep /\ state_condvar[i] = "THINKING"
      BY <2>7 DEF PutRight, At, IInv, Places
    <3>2. state_condvar = [state_condvar EXCEPT ![i] = "THINKING"]
      BY <3>1, <1>1 DEF TypeOK
    <3>3. QED
      BY <2>7, <3>1, <3>2, Neighbours, TestStep DEF PutRight
  <2>8. CASE PutLeave(i)
    BY <2>8, UpStep DEF PutLeave, At, Leave, table
  <2>9. CASE MonStep(i)
    <3>1. cvp[i] = i
      BY <1>1 DEF TypeOK
    <3>2. CASE CondWaitDown(i)
      BY <2>9, <3>1, <3>2, <1>1, DownStep DEF MonStep, CondWaitDown, At, table, TypeOK
    <3>3. CASE CondWaitEnd(i, "take_leave")
      BY <2>9, <3>1, <3>3, InsideStep DEF MonStep, CondWaitEnd, At, table
    <3>4. CASE CondSignalDown(i)
      BY <2>9, <3>4, <1>1, DownStep DEF MonStep, CondSignalDown, At, table, TypeOK
    <3>5. CASE CondSignalEnd(i, ret[i])
      BY <2>9, <3>5, InsideStep DEF MonStep, CondSignalEnd, At, table
    <3>6. QED
      BY <2>9, <3>2, <3>3, <3>4, <3>5 DEF MonStep
  <2>10. QED
    BY <1>2, <2>1, <2>2, <2>3, <2>4, <2>5, <2>6, <2>7, <2>8, <2>9 DEF Step
<1>3. CASE UNCHANGED vars
  <2>1. UNCHANGED <<value, queue, asleep, next_count, count, pc, cvp, state_condvar, iter, ret>>
    BY <1>3 DEF vars
  <2>2. Active' = Active
    BY <2>1 DEF Active
  <2>3. QED
    BY <2>1, <2>2 DEF IInv, TypeOK, Queues, OneToken, Places, Apart
<1>4. QED
  BY <1>2, <1>3 DEF Next

\* The inductive invariant holds in every reachable state.
THEOREM Invariant ==
    ASSUME TableAssumption
    PROVE  Spec => []IInv
<1>1. PhilInit => IInv
  BY InitIInv
<1>2. IInv /\ [Next]_vars => IInv'
  BY NextIInv
<1>3. QED
  BY <1>1, <1>2, PTL DEF Spec

\* The token of the monitor is with one thread at most.
LEMMA IInvOneActive ==
    ASSUME IInv
    PROVE  OneActive
<1>1. CASE Active = {}
  BY <1>1, FS_EmptySet DEF OneActive
<1>2. CASE Active # {}
  <2>1. PICK i \in Active : Active = {i}
    BY <1>2 DEF IInv, OneToken
  <2>2. Cardinality(Active) = 1
    BY <2>1, FS_Singleton
  <2>3. QED
    BY <2>2 DEF OneActive
<1>3. QED
  BY <1>1, <1>2

\* "Only one process at a time may be be active in a monitor": cond_signal hands the
\* monitor to the thread it wakes, and leaving hands it back, for any number of threads.
THEOREM MonitorExcludes ==
    ASSUME TableAssumption
    PROVE  Spec => []OneActive
<1>1. IInv => OneActive
  BY IInvOneActive
<1>2. QED
  BY <1>1, Invariant, PTL

\* Who eats while it waits has been passed its unit.
LEMMA IInvSignals ==
    ASSUME TableAssumption, IInv
    PROVE  SignalReaches
<1>1. SUFFICES ASSUME NEW i \in Phil, count[i] > 0, state_condvar[i] = "EATING"
               PROVE  \/ i \notin asleep /\ pc[i] = "cond_waited"
                      \/ pc[i] = "cond_wait" /\ value[cvsem(i)] = 1
  BY DEF SignalReaches
<1>2. value[cvsem(i)] \in Nat /\ value[cvsem(i)] <= 1
  BY <1>1, Semaphores DEF IInv, TypeOK, OneToken
<1>3. QED
  BY <1>1, <1>2 DEF IInv, Places

\* A philosopher that is let eat while it waits has the unit of its condition variable,
\* or has been woken: cond_signal never misses the window between the up and the down
\* of cond_wait.
THEOREM NoSignalLost ==
    ASSUME TableAssumption
    PROVE  Spec => []SignalReaches
<1>1. IInv => SignalReaches
  BY IInvSignals
<1>2. QED
  BY <1>1, Invariant, PTL

\* Who eats is recorded as EATING, and no two neighbours are.
LEMMA IInvExcludes ==
    ASSUME IInv
    PROVE  NeighboursExclude
<1>1. SUFFICES ASSUME NEW i \in Eating
               PROVE  state_condvar[i] = "EATING" /\ LEFT(i) \notin Eating
  BY DEF NeighboursExclude
<1>2. \A k \in Eating : k \in Phil /\ state_condvar[k] = "EATING"
  BY <1>1 DEF IInv, Places, Eating, At
<1>3. QED
  BY <1>1, <1>2 DEF IInv, Apart

\* No two neighbours eat at once, and who eats is recorded as EATING.
THEOREM NeighboursNeverEat ==
    ASSUME TableAssumption
    PROVE  Spec => []NeighboursExclude
<1>1. IInv => NeighboursExclude
  BY IInvExcludes
<1>2. QED
  BY <1>1, Invariant, PTL
=============================================================================

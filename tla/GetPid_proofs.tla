--------------------------- MODULE GetPid_proofs ----------------------------
(***************************************************************************)
(* For every MAX_PID > MAX_PROCESS, get_pid returns a pid that no process  *)
(* has, and the code implements the pid allocator.  The invariant is       *)
(* SafeInterval, which outlives any number of forks and exits between two  *)
(* scans, with the fact that no pid is on proc_list twice.                 *)
(***************************************************************************)
EXTENDS GetPid, SeqLemmas

\* The inductive invariant.
IInv == TypeOK /\ FreshPid /\ SafeInterval /\ IsInjective(proc_list)

\* Before the first fork the list is empty and every pid is safe.
LEMMA InitIInv == GetPidInit => IInv
<1> SUFFICES ASSUME GetPidInit PROVE IInv
  OBVIOUS
<1>1. proc_list \in Seq(1..(MAX_PID - 1)) /\ Len(proc_list) = 0 /\ DOMAIN proc_list = {}
  BY DEF GetPidInit
<1>2. Range(proc_list) = {} /\ IsInjective(proc_list)
  BY <1>1 DEF Range, IsInjective
<1>3. QED
  BY <1>1, <1>2, PidBounds DEF GetPidInit, IInv, TypeOK, FreshPid, SafeInterval

\* Every step of get_pid, and every fork and exit around it, keeps IInv.
LEMMA NextIInv == IInv /\ [Next]_vars => IInv'
<1> SUFFICES ASSUME IInv, [Next]_vars PROVE IInv'
  OBVIOUS
<1> USE PidBounds
<1>0. /\ TypeOK /\ FreshPid /\ SafeInterval /\ IsInjective(proc_list)
      /\ Len(proc_list) \in Nat
      /\ DOMAIN proc_list = 1..Len(proc_list)
      /\ \A i \in 1..Len(proc_list) : proc_list[i] \in 1..(MAX_PID - 1)
  BY DEF IInv, TypeOK
<1>r. \A p \in Range(proc_list) : p \in 1..(MAX_PID - 1)
  BY <1>0 DEF Range
<1>1. CASE Enter
  <2>1. TypeOK' /\ IsInjective(proc_list)'
    BY <1>0, <1>1 DEF Enter, TypeOK, IsInjective
  <2>2. FreshPid'
    BY <1>0, <1>r, <1>1 DEF Enter, TypeOK, FreshPid, SafeInterval
  <2>3. SafeInterval'
    BY <1>0, <1>r, <1>1 DEF Enter, TypeOK, SafeInterval
  <2>4. QED
    BY <2>1, <2>2, <2>3 DEF IInv
<1>2. CASE Scan
  <2>1. pc' = "scan" /\ proc_list' = proc_list
    BY <1>2 DEF Scan
  <2>2. FreshPid' /\ IsInjective(proc_list)'
    BY <1>0, <2>1 DEF FreshPid, IsInjective
  <2>3. CASE Taken
    <3>1. TypeOK'
      BY <1>0, <1>2, <2>3 DEF Scan, Taken, TypeOK, SafeInterval
    <3>2. SafeInterval'
      BY <1>0, <1>2, <2>3 DEF Scan, Taken, TypeOK, SafeInterval
    <3>3. QED
      BY <2>2, <3>1, <3>2 DEF IInv
  <2>4. CASE Passed
    <3>1. TypeOK'
      BY <1>0, <1>2, <2>4 DEF Scan, Passed, TypeOK, SafeInterval
    <3>2. SafeInterval'
      <4>1. /\ last_pid' = last_pid /\ pos' = pos + 1 /\ pos \in 1..Len(proc_list)
            /\ next_safe' = IF proc_list[pos] > last_pid /\ next_safe > proc_list[pos]
                            THEN proc_list[pos] ELSE next_safe
            /\ proc_list[pos] # last_pid /\ last_pid < next_safe
            /\ \A i \in 1..(pos - 1) : proc_list[i] < last_pid \/ proc_list[i] >= next_safe
        BY <1>0, <1>2, <2>4 DEF Scan, Passed, TypeOK, SafeInterval
      <4>2. last_pid \in Int /\ next_safe \in Int /\ next_safe' \in Int
        BY <1>0, <4>1 DEF TypeOK
      <4>3. last_pid' < next_safe' /\ next_safe' <= next_safe /\ pos' <= Len(proc_list) + 1
        BY <1>0, <4>1, <4>2
      <4>4. ASSUME NEW i \in 1..(pos' - 1)
            PROVE  proc_list[i] < last_pid' \/ proc_list[i] >= next_safe'
        <5>1. i \in 1..Len(proc_list) /\ (i \in 1..(pos - 1) \/ i = pos)
          BY <1>0, <4>1
        <5>2. QED
          BY <1>0, <4>1, <4>2, <4>3, <5>1
      <4>5. QED
        BY <2>1, <4>3, <4>4 DEF SafeInterval
    <3>3. QED
      BY <2>2, <3>1, <3>2 DEF IInv
  <2>5. QED
    BY <1>2, <2>3, <2>4 DEF Scan
<1>3. CASE ScanEnd
  <2>1. TypeOK' /\ IsInjective(proc_list)'
    BY <1>0, <1>3 DEF ScanEnd, TypeOK, IsInjective
  <2>2. \A i \in 1..Len(proc_list) : proc_list[i] < last_pid \/ proc_list[i] >= next_safe
    BY <1>0, <1>3 DEF ScanEnd, TypeOK, SafeInterval
  <2>a. \A p \in Range(proc_list) : p < last_pid \/ p >= next_safe
    BY <2>2, <1>0 DEF Range
  <2>b. /\ pc' = "found" /\ UNCHANGED <<proc_list, last_pid, next_safe, pos>>
        /\ last_pid \in Int /\ next_safe \in Int /\ last_pid < next_safe
        /\ next_safe <= MAX_PID
    BY <1>0, <1>3 DEF ScanEnd, TypeOK, SafeInterval
  <2>c. last_pid < MAX_PID /\ last_pid \notin Range(proc_list)
    BY <1>r, <2>a, <2>b
  <2>d. \A p \in Range(proc_list) : p <= last_pid \/ p >= next_safe
    BY <1>r, <2>a, <2>b
  <2>3. FreshPid' /\ SafeInterval'
    BY <2>b, <2>c, <2>d DEF FreshPid, SafeInterval
  <2>4. QED
    BY <2>1, <2>3 DEF IInv
<1>4. CASE Link
  <2>1. last_pid \in 1..(MAX_PID - 1) /\ last_pid \notin Range(proc_list)
    BY <1>0, <1>4 DEF Link, TypeOK, FreshPid
  <2>2. /\ proc_list' \in Seq(1..(MAX_PID - 1))
        /\ Range(proc_list') = Range(proc_list) \cup {last_pid}
        /\ Len(proc_list') = Len(proc_list) + 1
        /\ proc_list'[1] = last_pid
        /\ \A i \in 1..Len(proc_list) : proc_list'[i + 1] = proc_list[i]
    BY <2>1, <1>0, <1>4, RangeCons DEF Link, TypeOK
  <2>3. TypeOK'
    BY <1>0, <1>4, <2>2 DEF Link, TypeOK
  <2>4. FreshPid'
    BY <1>4 DEF Link, FreshPid
  <2>5. SafeInterval'
    <3>1. \A p \in Range(proc_list) : p <= last_pid \/ p >= next_safe
      BY <1>0, <1>4 DEF Link, SafeInterval
    <3>2. \A p \in Range(proc_list') : p <= last_pid \/ p >= next_safe
      BY <3>1, <2>1, <2>2
    <3>3. QED
      BY <3>2, <1>4 DEF Link, SafeInterval
  <2>6. IsInjective(proc_list)'
    <3>1. DOMAIN proc_list' = 1..(Len(proc_list) + 1)
      BY <2>2, <1>0
    <3>2. \A i \in DOMAIN proc_list' :
             IF i = 1 THEN proc_list'[i] = last_pid
             ELSE i - 1 \in DOMAIN proc_list /\ proc_list'[i] = proc_list[i - 1]
      BY <2>2, <3>1, <1>0
    <3>3. QED
      BY <3>1, <3>2, <2>1, <1>0 DEF IsInjective, Range
  <2>7. QED
    BY <2>3, <2>4, <2>5, <2>6 DEF IInv
<1>5. ASSUME NEW k \in DOMAIN proc_list, Unlink(k) PROVE IInv'
  <2>1. /\ proc_list' = RemoveAt(proc_list, k) /\ k \in 1..Len(proc_list)
        /\ pc = "out" /\ UNCHANGED <<last_pid, next_safe, pos, pc>>
    BY <1>0, <1>5 DEF Unlink
  <2>2. proc_list' \in Seq(1..(MAX_PID - 1))
    BY <1>0, <2>1, RemoveAtElements DEF TypeOK
  <2>3. IsInjective(proc_list') /\ Range(proc_list') = Range(proc_list) \ {proc_list[k]}
    BY <1>0, <2>1, RemoveAtRange DEF TypeOK
  <2>4. TypeOK' /\ FreshPid'
    BY <1>0, <2>1, <2>2 DEF TypeOK, FreshPid
  <2>5. SafeInterval'
    BY <1>0, <2>1, <2>3 DEF SafeInterval
  <2>6. QED
    BY <2>3, <2>4, <2>5 DEF IInv
<1>6. CASE UNCHANGED vars
  BY <1>0, <1>6 DEF vars, IInv, TypeOK, FreshPid, SafeInterval, IsInjective
<1>7. QED
  BY <1>1, <1>2, <1>3, <1>4, <1>5, <1>6 DEF Next

\* The type invariant of get_pid's variables, for every bound.
THEOREM TypeCorrect == Spec => []TypeOK
<1>1. IInv => TypeOK
  BY DEF IInv
<1>2. QED
  BY <1>1, InitIInv, NextIInv, PTL DEF Spec

\* get_pid never returns a pid in use: do_fork gives every process a pid of its
\* own, however many processes came and went and however often last_pid wrapped.
THEOREM PidsAreFresh == Spec => []FreshPid
<1>1. IInv => FreshPid
  BY DEF IInv
<1>2. QED
  BY <1>1, InitIInv, NextIInv, PTL DEF Spec

\* The interval (last_pid, next_safe) that get_pid trusts without a scan holds
\* no pid in use.
THEOREM IntervalIsSafe == Spec => []SafeInterval
<1>1. IInv => SafeInterval
  BY DEF IInv
<1>2. QED
  BY <1>1, InitIInv, NextIInv, PTL DEF Spec

\* get_pid with set_links and remove_links implements the pid allocator.
THEOREM RefinesAllocator == Spec => ImplementsAllocator
<1>1. GetPidInit => Alloc!AllocInit
  BY DEF GetPidInit, Alloc!AllocInit, Range
<1>2. IInv /\ [Next]_vars => [Alloc!AllocNext]_(Range(proc_list))
  <2> SUFFICES ASSUME IInv, [Next]_vars
               PROVE  Alloc!AllocNext \/ Range(proc_list') = Range(proc_list)
    OBVIOUS
  <2> USE PidBounds
  <2>0. /\ TypeOK /\ FreshPid /\ IsInjective(proc_list)
        /\ Len(proc_list) \in Nat
        /\ DOMAIN proc_list = 1..Len(proc_list)
        /\ \A i \in 1..Len(proc_list) : proc_list[i] \in 1..(MAX_PID - 1)
    BY DEF IInv, TypeOK
  <2>1. CASE Link
    <3>1. last_pid \in 1..(MAX_PID - 1) /\ last_pid \notin Range(proc_list)
      BY <2>0, <2>1 DEF Link, TypeOK, FreshPid
    <3>2. Range(proc_list') = Range(proc_list) \cup {last_pid}
      BY <3>1, <2>0, <2>1, RangeCons DEF Link, TypeOK
    <3>3. Alloc!Take(last_pid)
      BY <3>1, <3>2 DEF Alloc!Take
    <3>4. QED
      BY <3>1, <3>3 DEF Alloc!AllocNext
  <2>2. ASSUME NEW k \in DOMAIN proc_list, Unlink(k) PROVE Alloc!AllocNext
    <3>1. proc_list' = RemoveAt(proc_list, k) /\ k \in 1..Len(proc_list)
      BY <2>0, <2>2 DEF Unlink
    <3>2. Range(proc_list') = Range(proc_list) \ {proc_list[k]}
      BY <2>0, <3>1, RemoveAtRange DEF TypeOK
    <3>3. Alloc!Release(proc_list[k])
      BY <3>2, <2>2 DEF Alloc!Release, Range
    <3>4. QED
      BY <3>1, <3>3, <2>0 DEF Alloc!AllocNext
  <2>3. CASE Enter \/ Scan \/ ScanEnd \/ UNCHANGED vars
    BY <2>3 DEF Enter, Scan, ScanEnd, vars
  <2>4. QED
    BY <2>1, <2>2, <2>3 DEF Next
<1>3. QED
  BY <1>1, <1>2, InitIInv, NextIInv, PTL DEF Spec, ImplementsAllocator, Alloc!AllocSpec
=============================================================================

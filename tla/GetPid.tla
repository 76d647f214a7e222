------------------------------- MODULE GetPid -------------------------------
(***************************************************************************)
(* get_pid of kern/process/proc.c, one step per process it looks at, and   *)
(* what surrounds it: set_links puts the new process at the front of       *)
(* proc_list, remove_links takes a process off it.  get_pid runs with      *)
(* interrupts off, so the list is still while it scans; it changes at will *)
(* between two calls, and the static variables last_pid and next_safe      *)
(* carry over what the last scan found.                                    *)
(***************************************************************************)
EXTENDS Integers, SequencesExt

CONSTANTS MAX_PID, MAX_PROCESS

\* static_assert(MAX_PID > MAX_PROCESS) of get_pid; idle and init exist.
ASSUME PidBounds ==
    /\ MAX_PROCESS \in Nat /\ MAX_PROCESS >= 2
    /\ MAX_PID \in Nat /\ MAX_PID > MAX_PROCESS

VARIABLES
    proc_list,   \* the pids on proc_list, front first (idle is not on it)
    last_pid, next_safe,
    pos,         \* le: the process the scan looks at next
    pc           \* "out": get_pid is not running

vars == <<proc_list, last_pid, next_safe, pos, pc>>

GetPidInit ==
    /\ proc_list = <<>>
    /\ last_pid = MAX_PID /\ next_safe = MAX_PID
    /\ pos = 1
    /\ pc = "out"

\* nr_process counts idle as well.
nr_process == Len(proc_list) + 1

\* do_fork calls get_pid: the next pid is taken without a scan while it lies
\* below next_safe.
Enter ==
    /\ pc = "out"
    /\ nr_process < MAX_PROCESS
    /\ LET n == last_pid + 1
       IN IF n >= MAX_PID
          THEN last_pid' = 1 /\ next_safe' = MAX_PID /\ pc' = "scan"
          ELSE /\ last_pid' = n
               /\ IF n >= next_safe
                  THEN next_safe' = MAX_PID /\ pc' = "scan"
                  ELSE UNCHANGED next_safe /\ pc' = "found"
    /\ pos' = 1
    /\ UNCHANGED proc_list

\* Mutant: one pid too many is believed to be free.
TakenOff ==
    /\ proc_list[pos] = last_pid
    /\ LET n == last_pid + 1
       IN IF n > next_safe
          THEN /\ last_pid' = IF n >= MAX_PID THEN 1 ELSE n
               /\ next_safe' = MAX_PID
               /\ pos' = 1
          ELSE /\ last_pid' = n
               /\ pos' = pos + 1
               /\ UNCHANGED next_safe

\* Mutant: starting over forgets to move to the next candidate.
TakenStuck ==
    /\ proc_list[pos] = last_pid
    /\ LET n == last_pid + 1
       IN IF n >= next_safe
          THEN last_pid' = last_pid /\ next_safe' = MAX_PID /\ pos' = 1
          ELSE last_pid' = n /\ pos' = pos + 1 /\ UNCHANGED next_safe

\* The candidate is taken: try the next one, and start over if that is not
\* known to be free.
Taken ==
    /\ proc_list[pos] = last_pid
    /\ LET n == last_pid + 1
       IN IF n >= next_safe
          THEN /\ last_pid' = IF n >= MAX_PID THEN 1 ELSE n
               /\ next_safe' = MAX_PID
               /\ pos' = 1
          ELSE /\ last_pid' = n
               /\ pos' = pos + 1
               /\ UNCHANGED next_safe

\* Mutant: the interval is bounded by pids below the candidate as well.
PassedBelow ==
    /\ proc_list[pos] # last_pid
    /\ next_safe' = IF next_safe > proc_list[pos] THEN proc_list[pos] ELSE next_safe
    /\ pos' = pos + 1
    /\ UNCHANGED last_pid

\* Any other pid bounds the interval of pids known to be free.
Passed ==
    /\ proc_list[pos] # last_pid
    /\ next_safe' = IF proc_list[pos] > last_pid /\ next_safe > proc_list[pos]
                    THEN proc_list[pos] ELSE next_safe
    /\ pos' = pos + 1
    /\ UNCHANGED last_pid

Scan ==
    /\ pc = "scan"
    /\ pos <= Len(proc_list)
    /\ Taken \/ Passed
    /\ UNCHANGED <<proc_list, pc>>

ScanEnd ==
    /\ pc = "scan"
    /\ pos > Len(proc_list)
    /\ pc' = "found"
    /\ UNCHANGED <<proc_list, last_pid, next_safe, pos>>

\* do_fork: proc->pid = get_pid(), set_links.
Link ==
    /\ pc = "found"
    /\ proc_list' = <<last_pid>> \o proc_list
    /\ pos' = 1
    /\ pc' = "out"
    /\ UNCHANGED <<last_pid, next_safe>>

\* do_wait has found a zombie, which is never init: remove_links.
Unlink(i) ==
    /\ pc = "out"
    /\ proc_list[i] # 1
    /\ proc_list' = RemoveAt(proc_list, i)
    /\ UNCHANGED <<last_pid, next_safe, pos, pc>>

Next ==
    \/ Enter \/ Scan \/ ScanEnd \/ Link
    \/ \E i \in DOMAIN proc_list : Unlink(i)

Spec == GetPidInit /\ [][Next]_vars

\* get_pid is sequential code with interrupts off: it runs on.
FairSpec == Spec /\ WF_vars(Scan \/ ScanEnd \/ Link)

-----------------------------------------------------------------------------
(* Properties.                                                             *)

\* The pids and the cursor stay in range.
TypeOK ==
    /\ proc_list \in Seq(1..(MAX_PID - 1))
    /\ last_pid \in 1..MAX_PID
    /\ next_safe \in 1..MAX_PID
    /\ pos \in Nat \ {0}
    /\ pc \in {"out", "scan", "found"}

\* get_pid returns a pid no process has, so find_proc finds one process per pid.
FreshPid == pc = "found" => last_pid < MAX_PID /\ last_pid \notin Range(proc_list)

\* What makes it so: no process has a pid strictly between last_pid and
\* next_safe, whatever came and went since the scan that set them; during a
\* scan this holds of the processes looked at, none of which is the candidate.
SafeInterval ==
    /\ pc # "scan" => \A p \in Range(proc_list) : p <= last_pid \/ p >= next_safe
    /\ pc = "scan" =>
          /\ last_pid < next_safe
          /\ pos <= Len(proc_list) + 1
          /\ \A i \in 1..(pos - 1) : proc_list[i] < last_pid \/ proc_list[i] >= next_safe

\* The scan ends, because some pid is free: there are more pids than processes.
ScanEnds == pc = "scan" ~> pc = "found"

Alloc == INSTANCE PidAllocator WITH live <- Range(proc_list)

\* get_pid, set_links and remove_links implement the allocator of pids.
ImplementsAllocator == Alloc!AllocSpec
=============================================================================

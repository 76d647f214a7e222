---------------------------- MODULE PidAllocator ----------------------------
(***************************************************************************)
(* What do_fork and do_wait expect of pids (kern/process/proc.c): a new    *)
(* process gets a pid in 1..MAX_PID-1 that no process on proc_list has,    *)
(* and keeps it until do_wait takes the process off the list.              *)
(***************************************************************************)
EXTENDS Integers

CONSTANT MAX_PID

VARIABLE live    \* the pids of the processes on proc_list

AllocInit == live = {}

Take(p) == p \notin live /\ live' = live \cup {p}

Release(p) == p \in live /\ live' = live \ {p}

AllocNext == \E p \in 1..(MAX_PID - 1) : Take(p) \/ Release(p)

AllocSpec == AllocInit /\ [][AllocNext]_live
=============================================================================

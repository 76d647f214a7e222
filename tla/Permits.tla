------------------------------ MODULE Permits -------------------------------
(***************************************************************************)
(* What a counting semaphore promises: no more than Permits threads hold   *)
(* one at a time.  With one permit it is a lock.                           *)
(***************************************************************************)
EXTENDS Integers, FiniteSets

CONSTANTS Thread, PermitCount

VARIABLE holders

PermitsInit == holders = {}

Acquire(t) ==
    /\ t \notin holders
    /\ Cardinality(holders) < PermitCount
    /\ holders' = holders \cup {t}

Release(t) == t \in holders /\ holders' = holders \ {t}

\* A holder may leave just as the permit passes to another thread.
PassOn(t, u) ==
    /\ t \in holders /\ u \notin holders
    /\ holders' = (holders \ {t}) \cup {u}

PermitsNext ==
    \E t \in Thread : Acquire(t) \/ Release(t) \/ \E u \in Thread : PassOn(t, u)

PermitsSpec == PermitsInit /\ [][PermitsNext]_holders
=============================================================================

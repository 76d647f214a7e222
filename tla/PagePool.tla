------------------------------ MODULE PagePool ------------------------------
(***************************************************************************)
(* What a first-fit page allocator promises, without its free list: a      *)
(* request for n pages gets the lowest n free pages in a row, and is       *)
(* refused only if there are no n free pages in a row.                     *)
(***************************************************************************)
EXTENDS Integers, FiniteSetsExt

CONSTANTS
    NPAGE,      \* pages 1..NPAGE
    Headroom    \* pages at the top of memory that no request is allowed to reach

VARIABLES
    free,       \* the free pages
    ret         \* the page the last request returned, 0 for NULL

poolvars == <<free, ret>>

Run(b, n) == b .. b + n - 1

Fits(n) == {b \in 1..NPAGE : Run(b, n) \subseteq free}

PoolInit == free = 1..NPAGE /\ ret = 0

Take(n) ==
    /\ Fits(n) # {}
    /\ Min(Fits(n)) + n - 1 <= NPAGE - Headroom
    /\ ret' = Min(Fits(n))
    /\ free' = free \ Run(ret', n)

Refuse(n) ==
    /\ Fits(n) = {}
    /\ ret' = 0
    /\ UNCHANGED free

Give(b, n) ==
    /\ Run(b, n) \subseteq 1..NPAGE \ free
    /\ free' = free \cup Run(b, n)
    /\ UNCHANGED ret

PoolNext ==
    \E n \in 1..NPAGE : Take(n) \/ Refuse(n) \/ \E b \in 1..NPAGE : Give(b, n)

PoolSpec == PoolInit /\ [][PoolNext]_poolvars
=============================================================================

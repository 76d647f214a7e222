------------------------------- MODULE BestFit -------------------------------
(***************************************************************************)
(* The best-fit page allocator of lab2, kern/mm/best_fit_pmm.c.  Its free  *)
(* list, its initialisation and best_fit_free_pages are those of the       *)
(* first-fit allocator; best_fit_alloc_pages goes through the whole list   *)
(* and takes the smallest block that is large enough.                      *)
(***************************************************************************)
EXTENDS FirstFit

\* Mutant: the search stops at the first block that is large enough, as
\* default_alloc_pages does.
SmallestStopped(n) ==
    LET fits == SelectSeq(Blocks(links), LAMBDA p : property[p] >= n)
    IN IF fits = <<>> THEN 0 ELSE fits[1]

\* The block that the loop ends with: min_size is lowered by every block that is
\* large enough and smaller, and 0 stands for page == NULL.
Smallest(n) ==
    LET bs == Blocks(links)
        best[i \in 0..Len(bs)] ==
            IF i = 0 THEN [page |-> 0, size |-> nr_free + 1]
            ELSE IF property[bs[i]] >= n /\ property[bs[i]] < best[i-1].size
                 THEN [page |-> bs[i], size |-> property[bs[i]]]
            ELSE best[i-1]
    IN best[Len(bs)].page

BestAlloc(n) ==
    LET page == Smallest(n)
        cut  == ListDel(links, page)
    IN /\ n <= nr_free
       /\ page # 0
       /\ page + n - 1 <= NPAGE - Headroom
       /\ IF property[page] > n
          THEN /\ property' = [property EXCEPT ![page + n] = Rest(page, n)]
               /\ heads' = (heads \cup {page + n}) \ {page}
               /\ links' = Split(cut, links.prev[page], page + n)
          ELSE /\ heads' = heads \ {page}
               /\ links' = cut
               /\ UNCHANGED property
       /\ nr_free' = nr_free - n
       /\ held' = held \cup page .. page + n - 1
       /\ ret' = page

BestAllocFailed(n) ==
    /\ n > nr_free \/ Smallest(n) = 0
    /\ ret' = 0
    /\ UNCHANGED <<links, property, heads, nr_free, held>>

BestNext ==
    \E n \in Page :
        \/ BestAlloc(n)
        \/ BestAllocFailed(n)
        \/ \E base \in Page : FreePages(base, n)

BestSpec == FirstFitInit /\ [][BestNext]_vars

-----------------------------------------------------------------------------
(* Properties.                                                             *)

\* The maximal runs of pages nobody holds, as <<first page, length>>.
Gaps ==
    {g \in Page \X Page :
        /\ g[1] .. g[1] + g[2] - 1 \subseteq Page \ held
        /\ g[1] - 1 \notin Page \ held
        /\ g[1] + g[2] \notin Page \ held}

\* The step serves a request from the start of the smallest gap it fits in, the
\* lowest of these if there are several, and refuses it only if it fits in none.
BestFits ==
    \A n \in Page :
        LET fits == {g \in Gaps : g[2] >= n}
        IN /\ BestAlloc(n) =>
                 \E g \in fits : /\ ret' = g[1]
                                 /\ held' = held \cup g[1] .. g[1] + n - 1
                                 /\ held \cap g[1] .. g[1] + n - 1 = {}
                                 /\ \A f \in fits : g[2] < f[2] \/ (g[2] = f[2] /\ g[1] <= f[1])
           /\ BestAllocFailed(n) => fits = {}

\* The best-fit allocator serves a request from the smallest gap between what clients
\* hold, the lowest of these, and refuses it only if it fits in none, although it sees
\* only the blocks of its list and never the gaps.
BestFitting == [][BestFits]_vars
=============================================================================

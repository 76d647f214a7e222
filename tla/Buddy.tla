-------------------------------- MODULE Buddy --------------------------------
(***************************************************************************)
(* The buddy allocator of lab2, kern/mm/buddysystem_pmm.c: a free list for *)
(* every order, blocks split on the way down and merged on the way up.     *)
(*                                                                         *)
(* Pages are named by their frame numbers, since a buddy is found by       *)
(* flipping a bit of the physical address: the first page managed, FIRST,  *)
(* need not be aligned to the size of a block.  The frames below FIRST are *)
(* the kernel's.  A client gives back the whole block it was given, whose  *)
(* size is a power of 2, as buddy_system_check does.                       *)
(***************************************************************************)
EXTENDS Integers, FiniteSets, FiniteSetsExt, SequencesExt

CONSTANTS FIRST, NPAGE, MAX_ORDER

\* The memory ends at a multiple of the largest block (0x88000 frames), so that a
\* buddy always is a frame that pa2page accepts.
MemoryAssumption ==
    /\ FIRST \in Nat /\ NPAGE \in Nat \ {0} /\ MAX_ORDER \in Nat \ {0}
    /\ (FIRST + NPAGE) % 2^(MAX_ORDER - 1) = 0

Page == FIRST .. FIRST + NPAGE - 1
Order == 0 .. MAX_ORDER - 1

VARIABLES
    area,   \* [free_list, nr_free, property, heads]: the free_area of every order,
            \* p->property, and the pages with PG_property set
    held,   \* history: the blocks of the clients, as <<first page, size>>
    failed  \* an assertion of buddy_system_free_pages has failed

vars == <<area, held, failed>>

Run(p, n) == p .. p + n - 1

-----------------------------------------------------------------------------
(* buddy_system_init and buddy_system_init_memmap                          *)

\* list_add: a block comes to the front of its list.
AddPage(a, o, p) == [a EXCEPT !.free_list[o] = <<p>> \o @, !.nr_free[o] = @ + 1]

\* The largest order of a block within n pages.
Largest(n) == Max({o \in Order : 2^o <= n})

\* The blocks that the last n pages of the memory are cut into.
Cut[n \in 0..NPAGE] ==
    IF n = 0 THEN <<>>
    ELSE <<[page |-> FIRST + NPAGE - n, order |-> Largest(n)]>> \o Cut[n - 2^Largest(n)]

Empty ==
    [free_list |-> [o \in Order |-> <<>>],
     nr_free   |-> [o \in Order |-> 0],
     property  |-> [p \in Page |-> 0],
     heads     |-> {}]

\* p is marked as a block of order o.
Marked(a, p, o) == [a EXCEPT !.property[p] = 2^o, !.heads = @ \cup {p}]

BuddyInit ==
    /\ area = FoldLeft(LAMBDA a, b : AddPage(Marked(a, b.page, b.order), b.order, b.page),
                       Empty, Cut[NPAGE])
    /\ held = {}
    /\ failed = FALSE

-----------------------------------------------------------------------------
(* buddy_system_alloc_pages                                                *)

\* list_del takes a block off whatever list it is on.
Unlinked(a, p) == [a EXCEPT !.free_list = [o \in Order |-> Remove(@[o], p)]]

\* split_page, of an order whose list is not empty.
SplitPage(a, o) ==
    LET page == Head(a.free_list[o])
        buddy == page + 2^(o-1)
        b == [Unlinked(a, page) EXCEPT !.nr_free[o] = @ - 1]
    IN AddPage(AddPage(Marked(Marked(b, page, o-1), buddy, o-1), o-1, page), o-1, buddy)

\* The orders from o down to the one above low.
Downwards(o, low) == [i \in 1..(o - low) |-> o - i + 1]

\* The smallest order that n pages fit in.
OrderFor(n) == Min({o \in Order : 2^o >= n})

\* The orders that can serve n pages: none if n exceeds the largest block.
NonEmpty(n) == {o \in Order : 2^o >= n /\ area.free_list[o] # <<>>}

AllocPages(n) ==
    /\ NonEmpty(n) # {}
    /\ LET order == OrderFor(n)
           a == FoldLeft(SplitPage, area, Downwards(Min(NonEmpty(n)), order))
           page == Head(a.free_list[order])
       IN /\ area' = [Unlinked(a, page) EXCEPT !.nr_free[order] = @ - 1, !.heads = @ \ {page}]
          /\ held' = held \cup {<<page, 2^order>>}
    /\ UNCHANGED failed

\* NULL
AllocFailed(n) ==
    /\ NonEmpty(n) = {}
    /\ UNCHANGED vars

-----------------------------------------------------------------------------
(* buddy_system_free_pages                                                 *)

\* addr ^ (size << PGSHIFT), in frames
BuddyOf(p, o) == IF (p \div 2^o) % 2 = 0 THEN p + 2^o ELSE p - 2^o

\* Mutant: the buddy need only carry PG_property, whatever its size.
MergeableAnySize(a, p, o) == p \in a.heads

Mergeable(a, p, o) == p \in a.heads /\ a.property[p] = 2^o

\* merge_page: from base up, as long as the buddy is free and as large.  The flag
\* of the buddy is cleared, then that of the lower of the two.
Merged(a, base, order) ==
    LET Step(m, o) ==
          LET buddy == BuddyOf(m.base, o)
              low == Min({m.base, buddy})
          IN CASE m.done -> m
               [] ~m.done /\ (o = MAX_ORDER - 1 \/ ~Mergeable(m.a, buddy, o)) ->
                     [m EXCEPT !.a = AddPage(@, o, m.base), !.done = TRUE]
               [] OTHER ->
                     [m EXCEPT !.base = low,
                               !.a = [Unlinked(@, buddy) EXCEPT
                                        !.nr_free[o] = @ - 1,
                                        !.heads = @ \ {buddy, low},
                                        !.property[low] = 2^(o+1)]]
    IN FoldLeft(Step, [a |-> a, base |-> base, done |-> FALSE],
                [i \in 1..(MAX_ORDER - order) |-> order + i - 1]).a

FreePages(base, n) ==
    /\ <<base, n>> \in held
    /\ Run(base, n) \cap area.heads = {}     \* assert(... && !PageProperty(p))
    /\ area' = Merged([area EXCEPT !.property[base] = n, !.heads = @ \cup {base}],
                      base, OrderFor(n))
    /\ held' = held \ {<<base, n>>}
    /\ UNCHANGED failed

FreePanics(base, n) ==
    /\ <<base, n>> \in held
    /\ Run(base, n) \cap area.heads # {}
    /\ failed' = TRUE
    /\ UNCHANGED <<area, held>>

Next ==
    /\ ~failed
    /\ \/ \E n \in 1..2^(MAX_ORDER - 1) + 1 : AllocPages(n) \/ AllocFailed(n)
       \/ \E b \in held : FreePages(b[1], b[2]) \/ FreePanics(b[1], b[2])

Spec == BuddyInit /\ [][Next]_vars

-----------------------------------------------------------------------------
(* Properties.                                                             *)

Listed == UNION {{<<area.free_list[o][i], 2^o>> : i \in DOMAIN area.free_list[o]} : o \in Order}

\* Every page is in exactly one block, free or in a client's hands, a free block is
\* on one list once, and nr_free of every order counts its list: a split or a merge
\* never gives out a page twice or loses one, wherever the memory begins.
BlocksPartition ==
    /\ \A p \in Page : Cardinality({b \in Listed \cup held : p \in Run(b[1], b[2])}) = 1
    /\ Listed \cap held = {}
    /\ UNION {Run(b[1], b[2]) : b \in Listed} \subseteq Page
    /\ \A o \in Order : /\ area.nr_free[o] = Len(area.free_list[o])
                        /\ IsInjective(area.free_list[o])

\* The assertion of buddy_system_free_pages: no page of a block that a client
\* gives back carries PG_property.
FreeAsserted == ~failed

\* Lab2's account of merging: a block that is given back is merged with its buddy
\* until that is impossible, so no two free blocks of one order are buddies.
MergedUntilImpossible ==
    \A o \in 0..MAX_ORDER - 2 : \A i, j \in DOMAIN area.free_list[o] :
        area.free_list[o][j] # BuddyOf(area.free_list[o][i], o)
=============================================================================

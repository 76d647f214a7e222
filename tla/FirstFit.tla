------------------------------ MODULE FirstFit ------------------------------
(***************************************************************************)
(* The first-fit physical page allocator, kern/mm/default_pmm.c, with its  *)
(* free list kept as the prev and next pointers of libs/list.h.            *)
(*                                                                         *)
(* Pages are numbered 1..NPAGE in the order of their addresses; 0 stands   *)
(* for the list head free_list, and for NULL as a result.  alloc_pages and *)
(* free_pages of pmm.c call the allocator with interrupts off, so each     *)
(* call is one step.  Clients hold pages and give back any run of them.    *)
(***************************************************************************)
EXTENDS Integers, FiniteSets, SequencesExt

CONSTANTS
    NPAGE,
    Headroom    \* pages at the top of memory that clients leave free

ASSUME SizeAssumption == NPAGE \in Nat \ {0} /\ Headroom \in 0..NPAGE

Page == 1..NPAGE
Entry == 0..NPAGE

VARIABLES
    links,      \* [next, prev]: the page_link of every page and the list head
    property,   \* p->property: the size of the block that p heads
    heads,      \* the pages with PG_property set
    nr_free,
    held,       \* history: the pages in the hands of clients
    ret         \* history: the result of the last alloc_pages

vars == <<links, property, heads, nr_free, held, ret>>

-----------------------------------------------------------------------------
(* libs/list.h                                                             *)

\* __list_add(elm, prev, next), its three assignments in their order.
ListAdd(l, elm, prv, nxt) ==
    [next |-> [l.next EXCEPT ![prv] = elm, ![elm] = nxt],
     prev |-> [l.prev EXCEPT ![nxt] = elm, ![elm] = prv]]

ListAddAfter(l, at, elm)  == ListAdd(l, elm, at, l.next[at])
ListAddBefore(l, at, elm) == ListAdd(l, elm, l.prev[at], at)

\* Mutant: __list_del leaves next->prev alone.
ListDelForward(l, elm) ==
    [next |-> [l.next EXCEPT ![l.prev[elm]] = l.next[elm]], prev |-> l.prev]

ListDel(l, elm) ==
    [next |-> [l.next EXCEPT ![l.prev[elm]] = l.next[elm]],
     prev |-> [l.prev EXCEPT ![l.next[elm]] = l.prev[elm]]]

\* The blocks met by following next from the head, at most NPAGE of them.
Blocks(l) ==
    LET at[i \in Entry] == IF i = 0 THEN l.next[0] ELSE l.next[at[i-1]]
        n == CHOOSE k \in 0..NPAGE + 1 :
                /\ k = NPAGE + 1 \/ at[k] = 0
                /\ \A i \in 0..k-1 : at[i] # 0
    IN [i \in 1..n |-> at[i-1]]

-----------------------------------------------------------------------------
(* default_init and default_init_memmap: one region, so an empty list.     *)

FirstFitInit ==
    /\ links = [next |-> [e \in Entry |-> IF e = 0 THEN 1 ELSE 0],
                prev |-> [e \in Entry |-> IF e = 0 THEN 1 ELSE 0]]
    /\ property = [p \in Page |-> IF p = 1 THEN NPAGE ELSE 0]
    /\ heads = {1}
    /\ nr_free = NPAGE
    /\ held = {}
    /\ ret = 0

-----------------------------------------------------------------------------
(* default_alloc_pages                                                     *)

LargeEnough(p, n) == property[p] >= n

\* The size of what is left when n pages are cut off the block page.
Rest(page, n) == property[page] - n

\* The rest of a split block takes the place of the block.
Split(l, prv, p) == ListAddAfter(l, prv, p)

\* The search comes to the block page, and takes the first n pages of it.
AllocFound(n) ==
    \E i \in DOMAIN Blocks(links) :
        LET page == Blocks(links)[i]
            prv  == links.prev[page]
            cut  == ListDel(links, page)
        IN /\ n <= nr_free
           /\ LargeEnough(page, n)
           /\ \A j \in 1..i-1 : ~LargeEnough(Blocks(links)[j], n)
           /\ page + n - 1 <= NPAGE - Headroom
           /\ IF property[page] > n
              THEN /\ property' = [property EXCEPT ![page + n] = Rest(page, n)]
                   /\ heads' = (heads \cup {page + n}) \ {page}
                   /\ links' = Split(cut, prv, page + n)
              ELSE /\ heads' = heads \ {page}
                   /\ links' = cut
                   /\ UNCHANGED property
           /\ nr_free' = nr_free - n
           /\ held' = held \cup page .. page + n - 1
           /\ ret' = page

\* NULL
AllocFailed(n) ==
    /\ n > nr_free \/ \A p \in Range(Blocks(links)) : ~LargeEnough(p, n)
    /\ ret' = 0
    /\ UNCHANGED <<links, property, heads, nr_free, held>>

-----------------------------------------------------------------------------
(* default_free_pages                                                      *)

\* The loop that finds the place of base.  When base lies above every block the
\* loop does not break after list_add(le, base): it goes on to base itself, now
\* the last entry, and calls list_add(base, base).
Insert(l, base) ==
    LET bs == Blocks(l)
        above == {i \in DOMAIN bs : base < bs[i]}
        first == CHOOSE i \in above : \A j \in above : i <= j
        behind == ListAddAfter(l, bs[Len(bs)], base)
    IN CASE bs = <<>>    -> ListAddAfter(l, 0, base)
         [] above # {}   -> ListAddBefore(l, bs[first], base)
         [] OTHER        -> ListAddAfter(behind, base, base)

\* The free list and the block sizes, while default_free_pages works on them.
Area(l, size, h) == [links |-> l, property |-> size, heads |-> h]

\* q, which follows p in the list, is joined to p.
Join(a, p, q) ==
    Area(ListDel(a.links, q),
         [a.property EXCEPT ![p] = @ + a.property[q]],
         a.heads \ {q})

\* Mutant: adjacent blocks are never joined.
AdjacentNever(a, p, q) == FALSE

Adjacent(a, p, q) == p # 0 /\ q # 0 /\ p + a.property[p] = q

FreePages(base, n) ==
    LET freed == base .. base + n - 1
        a == Area(Insert(links, base), [property EXCEPT ![base] = n],
                  (heads \ freed) \cup {base})
        low == a.links.prev[base]
        b == IF Adjacent(a, low, base) THEN Join(a, low, base) ELSE a
        top == IF Adjacent(a, low, base) THEN low ELSE base
        high == b.links.next[top]
        c == IF Adjacent(b, top, high) THEN Join(b, top, high) ELSE b
    IN /\ freed \subseteq held
       /\ freed \cap heads = {}      \* assert(!PageReserved(p) && !PageProperty(p))
       /\ links' = c.links /\ property' = c.property /\ heads' = c.heads
       /\ nr_free' = nr_free + n
       /\ held' = held \ freed
       /\ UNCHANGED ret

Next ==
    \E n \in Page :
        \/ AllocFound(n)
        \/ AllocFailed(n)
        \/ \E base \in Page : FreePages(base, n)

Spec == FirstFitInit /\ [][Next]_vars

-----------------------------------------------------------------------------
(* Properties.                                                             *)

\* The type invariant.
TypeOK ==
    /\ links \in [next : [Entry -> Entry], prev : [Entry -> Entry]]
    /\ property \in [Page -> 0..NPAGE]
    /\ heads \subseteq Page
    /\ nr_free \in 0..NPAGE
    /\ held \subseteq Page
    /\ ret \in Entry

BlockPages(p) == p .. p + property[p] - 1

\* The blocks of the free list are the maximal runs of pages nobody holds, each
\* once and in the order of their addresses: no free page is lost, no held page
\* is on the list, and neighbours have been joined.  Only their first pages carry
\* PG_property, so the assertion of default_free_pages holds for what clients give
\* back; nr_free counts the pages; and prev walks the list backwards, so that
\* list_del takes a block off it.
FreeListExact ==
    LET bs == Blocks(links)
        ring == <<0>> \o bs \o <<0>>
    IN /\ UNION {BlockPages(p) : p \in Range(bs)} = Page \ held
       /\ \A i \in 1..Len(bs)-1 : bs[i] + property[bs[i]] < bs[i+1]
       /\ heads = Range(bs)
       /\ nr_free = Cardinality(Page \ held)
       /\ \A i \in 1..Len(ring)-1 : links.prev[ring[i+1]] = ring[i]

\* default_check's own test of the free list: every block in it carries
\* PG_property, and their sizes add up to nr_free.
CheckedFreeList ==
    LET bs == Blocks(links)
    IN /\ Range(bs) \subseteq heads
       /\ FoldSeq(LAMBDA p, sum : property[p] + sum, 0, bs) = nr_free

\* The pool of pages that the allocator implements.
Pool == INSTANCE PagePool WITH free <- Page \ held

\* The first-fit allocator implements the pool: a request is served from the lowest
\* place it fits, never with a page somebody holds, and refused only if it fits nowhere.
FirstFitPool ==
    /\ Pool!PoolInit
    /\ [][Next => Pool!PoolNext]_vars
=============================================================================

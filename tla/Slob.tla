-------------------------------- MODULE Slob --------------------------------
(***************************************************************************)
(* The kernel heap, kern/mm/kmalloc.c: a ring of free blocks in the order  *)
(* of their addresses that is searched from slobfree on, and a list of the *)
(* larger blocks, which are whole pages.                                   *)
(*                                                                         *)
(* Addresses count units of SLOB_UNIT bytes.  The static block arena is at *)
(* 0, apart from the pages, and page i begins at PageAt(i).  The list is   *)
(* changed with interrupts off and the kernel is not preempted, so a call  *)
(* is one step.  Pages come from alloc_pages, any that are free.  Fields   *)
(* that no slob_t occupies any more are the holder's data or forgotten:    *)
(* they are never read before they are written, and stand at 0.            *)
(***************************************************************************)
EXTENDS Integers, FiniteSetsExt, SequencesExt

CONSTANTS
    NHEAP,      \* the pages are 1..NHEAP
    PAGE_SIZE, SLOB_UNIT,
    Size        \* what kmalloc is called with, in bytes

ASSUME HeapAssumption ==
    /\ NHEAP \in Nat /\ PAGE_SIZE \in Nat /\ SLOB_UNIT \in Nat \ {0} /\ Size \subseteq Nat \ {0}
    /\ PAGE_SIZE % SLOB_UNIT = 0 /\ PAGE_SIZE > 3 * SLOB_UNIT

SLOB_UNITS(size) == (size + SLOB_UNIT - 1) \div SLOB_UNIT

PageUnits == PAGE_SIZE \div SLOB_UNIT
BigUnits  == 2      \* SLOB_UNITS(sizeof(bigblock_t))

HeapPage == 1..NHEAP
PageAt(i) == 2 + (i - 1) * PageUnits
Unit == 0 .. 1 + NHEAP * PageUnits

VARIABLES
    heap,       \* [next, units, slobfree]: the fields of the slob_t at every address
    slobs,      \* the pages the heap has taken
    objects,    \* history: the small blocks that are in use, by their first unit
    bigblocks,  \* the list: [page, order, at], the block at being the bigblock_t itself
    panicked    \* the assertion of slob_alloc has failed

heapvars == <<heap, slobs, objects, bigblocks, panicked>>

-----------------------------------------------------------------------------
(* The ring                                                                *)

\* From slobfree on, along next.
Ring(h) ==
    LET at[i \in Unit] == IF i = 0 THEN h.slobfree ELSE h.next[at[i-1]]
        back == {i \in Unit \ {0} : at[i] = h.slobfree}
        n == IF back = {} THEN Max(Unit) + 1 ELSE Min(back)
    IN [i \in 1..n |-> at[i-1]]

\* Mutant: only the block behind is joined, not the one in front.
JoinedBehind(h, cur, b) ==
    LET after == h.next[cur]
        joins == b + h.units[b] = after
    IN [h EXCEPT !.units[b] = IF joins THEN @ + h.units[after] ELSE @,
                 !.next[b] = IF joins THEN h.next[after] ELSE after,
                 !.next[cur] = b]

\* slob_free puts b behind cur, and joins it with its neighbours.
Joined(h, cur, b) ==
    LET after == h.next[cur]
        g == IF b + h.units[b] = after
             THEN [h EXCEPT !.units[b] = @ + h.units[after], !.next[b] = h.next[after],
                            !.units[after] = 0, !.next[after] = 0]
             ELSE [h EXCEPT !.next[b] = after]
    IN IF cur + h.units[cur] = b
       THEN [g EXCEPT !.units[cur] = @ + g.units[b], !.next[cur] = g.next[b],
                      !.units[b] = 0, !.next[b] = 0]
       ELSE [g EXCEPT !.next[cur] = b]

\* Where the loop of slob_free stops: b lies between cur and the next, or the ring
\* begins anew there and b lies outside.
StopsAt(h, cur, b) ==
    LET nxt == h.next[cur]
    IN (b > cur /\ b < nxt) \/ (cur >= nxt /\ (b > cur \/ b < nxt))

\* slob_free of the block b of n units
SlobFree(h, b, n) ==
    LET ring == Ring(h)
        i == Min({j \in DOMAIN ring : StopsAt(h, ring[j], b)})
    IN [Joined([h EXCEPT !.units[b] = n], ring[i], b) EXCEPT !.slobfree = ring[i]]

\* The search of slob_alloc begins behind slobfree and ends with it.
Found(h, n) ==
    LET ring == Ring(h)
    IN {i \in DOMAIN ring : h.units[ring[i]] >= n}

\* The block cur is taken, or n units at its start.
SlobTake(h, n) ==
    LET ring == Ring(h)
        fits == Found(h, n)
        i == IF fits \ {1} = {} THEN 1 ELSE Min(fits \ {1})
        cur == ring[i]
        prv == IF i = 1 THEN Last(ring) ELSE ring[i-1]
        rest == cur + n
    IN [at |-> cur,
        h |-> IF h.units[cur] = n
              THEN [h EXCEPT !.next[prv] = h.next[cur], !.next[cur] = 0, !.slobfree = prv]
              ELSE [h EXCEPT !.next[prv] = rest, !.next[rest] = h.next[cur],
                             !.units[rest] = h.units[cur] - n, !.units[cur] = n,
                             !.next[cur] = 0, !.slobfree = prv]]

\* The pages nobody has
NobodysPages ==
    HeapPage \ (slobs \cup UNION {b.page .. b.page + 2^b.order - 1 : b \in Range(bigblocks)})

\* What slob_alloc of n units may end with: a block of the ring, or one of a new
\* page, which slob_free puts into the ring first.  None if there is no page.
SlobAllocs(n) ==
    IF Found(heap, n) # {} THEN {[t |-> SlobTake(heap, n), slobs |-> slobs]}
    ELSE {[t |-> SlobTake(SlobFree(heap, PageAt(p), PageUnits), n), slobs |-> slobs \cup {p}] :
            p \in NobodysPages}

-----------------------------------------------------------------------------
(* kmalloc and kfree                                                       *)

SlobInit ==
    /\ heap = [next |-> [u \in Unit |-> 0], units |-> [u \in Unit |-> IF u = 0 THEN 1 ELSE 0],
               slobfree |-> 0]
    /\ slobs = {}
    /\ objects = {}
    /\ bigblocks = <<>>
    /\ panicked = FALSE

Small(size) == size < PAGE_SIZE - SLOB_UNIT

\* assert((size + SLOB_UNIT) < PAGE_SIZE), with the header that kmalloc has added
Asserted(size) == size + SLOB_UNIT + SLOB_UNIT < PAGE_SIZE

KmallocSmall(size) ==
    /\ Small(size) /\ Asserted(size)
    /\ \E a \in SlobAllocs(SLOB_UNITS(size + SLOB_UNIT)) :
          /\ heap' = a.t.h
          /\ slobs' = a.slobs
          /\ objects' = objects \cup {a.t.at}
    /\ UNCHANGED <<bigblocks, panicked>>

KmallocPanics(size) ==
    /\ Small(size) /\ ~Asserted(size)
    /\ panicked' = TRUE
    /\ UNCHANGED <<heap, slobs, objects, bigblocks>>

\* find_order: how often size is halved until a page holds it
FindOrder(size) == Min({o \in 0..size : size \div 2^o <= PAGE_SIZE})

\* The bigblock_t, then the pages; the bigblock_t goes back if there are none.
KmallocBig(size) ==
    LET order == FindOrder(size)
    IN /\ ~Small(size)
       /\ \E a \in SlobAllocs(BigUnits) :
             LET runs == {p \in HeapPage : p .. p + 2^order - 1 \subseteq NobodysPages \ a.slobs}
             IN /\ slobs' = a.slobs
                /\ \/ /\ runs # {}
                      /\ \E p \in runs :
                            bigblocks' = <<[page |-> p, order |-> order, at |-> a.t.at]>> \o bigblocks
                      /\ heap' = a.t.h
                   \/ /\ runs = {}
                      /\ heap' = SlobFree(a.t.h, a.t.at, BigUnits)
                      /\ UNCHANGED bigblocks
    /\ UNCHANGED <<objects, panicked>>

\* kfree of a pointer u: a pointer to a page is looked for among the big blocks.
IsBig(u, i) == bigblocks[i].page \in {p \in HeapPage : PageAt(p) = u}

KfreeBig(u) ==
    /\ \E i \in DOMAIN bigblocks :
          /\ IsBig(u, i)
          /\ heap' = SlobFree(heap, bigblocks[i].at, BigUnits)
          /\ bigblocks' = RemoveAt(bigblocks, i)
    /\ UNCHANGED <<slobs, objects, panicked>>

\* Any other pointer has its header in front of it.
KfreeSmall(u) ==
    /\ \A i \in DOMAIN bigblocks : ~IsBig(u, i)
    /\ heap' = SlobFree(heap, u - 1, heap.units[u - 1])
    /\ objects' = objects \ {u - 1}
    /\ UNCHANGED <<slobs, bigblocks, panicked>>

\* The pointers that kmalloc has returned and nobody has given to kfree yet
Pointers == {b + 1 : b \in objects} \cup {PageAt(b.page) : b \in Range(bigblocks)}

HeapNext ==
    /\ ~panicked
    /\ \/ \E size \in Size : KmallocSmall(size) \/ KmallocPanics(size) \/ KmallocBig(size)
       \/ \E u \in Pointers : KfreeBig(u) \/ KfreeSmall(u)

HeapSpec == SlobInit /\ [][HeapNext]_heapvars

-----------------------------------------------------------------------------
(* Properties.                                                             *)

Piece(b) == b .. b + heap.units[b] - 1

\* The units of the pages that belong to the heap are split up between the free
\* blocks of the ring, the blocks in use and the bigblock_ts, and none is lost or in
\* two of them; the ring is in the order of the addresses, begins anew once, still
\* holds the arena, and has no two neighbours that could be one block.
HeapExact ==
    LET ring == Ring(heap)
        big == {b.at : b \in Range(bigblocks)}
        parts == {Piece(b) : b \in Range(ring) \cup objects}
                    \cup {b .. b + BigUnits - 1 : b \in big}
        follows == [i \in DOMAIN ring |-> heap.next[ring[i]]]
    IN /\ UNION parts = {0} \cup UNION {PageAt(p) .. PageAt(p) + PageUnits - 1 : p \in slobs}
       /\ \A s, t \in parts : s = t \/ s \cap t = {}
       /\ Cardinality(parts) = Cardinality(Range(ring)) + Cardinality(objects) + Len(bigblocks)
       /\ Cardinality({i \in DOMAIN ring : follows[i] <= ring[i]}) = 1
       /\ 0 \in Range(ring)
       /\ \A i \in DOMAIN ring : ring[i] + heap.units[ring[i]] # follows[i]

\* The assertion of slob_alloc, and the comment on kmalloc: only objects of
\* PAGE_SIZE or larger are not taken from the heap.
SizeAsserted == ~panicked
=============================================================================

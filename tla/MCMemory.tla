------------------------------ MODULE MCMemory ------------------------------
(***************************************************************************)
(* The allocators of memory and the address spaces on small instances.     *)
(* They share no state, so a behaviour exercises one of them, chosen at    *)
(* the start as init_pmm_manager chooses the page allocator, and leaves    *)
(* the others as they were initialised.                                    *)
(***************************************************************************)
EXTENDS BestFit, AddrSpace, Slob

VARIABLES
    part,                                       \* what the behaviour exercises
    area, blocks, failed                        \* the buddy allocator

\* Seven pages from frame 1 on: no power of two, and not aligned to one.
B == INSTANCE Buddy WITH FIRST <- 1, NPAGE <- 7, MAX_ORDER <- 3, held <- blocks

\* Text and data in one page table, as most programs under user/ have them; data
\* that go on in the next table, as in user/testbss.c; and headers out of order, with
\* areas that overlap.
Usual == << <<0, 1>>, <<1, 2>> >>
Large == << <<0, 1>>, <<1, 4>> >>
Overlapping == << <<1, 2>>, <<0, 2>> >>
Programs == {Usual, Large, Overlapping}

ASSUME PartsAssumption == B!MemoryAssumption

buddyvars == <<area, blocks, failed>>
memvars == <<vars, part, buddyvars, heapvars, spacevars>>

MemInit ==
    /\ part \in {"default", "best_fit", "buddy_system", "kmalloc", "vmm"}
    /\ FirstFitInit /\ B!BuddyInit /\ SlobInit /\ SpaceInit

MemNext ==
    /\ UNCHANGED part
    /\ \/ part = "default" /\ Next /\ UNCHANGED <<buddyvars, heapvars, spacevars>>
       \/ part = "best_fit" /\ BestNext /\ UNCHANGED <<buddyvars, heapvars, spacevars>>
       \/ part = "buddy_system" /\ B!Next /\ UNCHANGED <<vars, heapvars, spacevars>>
       \/ part = "kmalloc" /\ HeapNext /\ UNCHANGED <<vars, buddyvars, spacevars>>
       \/ part = "vmm" /\ SpaceNext /\ UNCHANGED <<vars, buddyvars, heapvars>>

MemSpec == MemInit /\ [][MemNext]_memvars

\* States that differ only in what is left in the property and page_link of a page that
\* heads no block count as one: the page allocators never read it.
View ==
    LET listed == {0} \cup Range(Blocks(links))
    IN <<part, buddyvars, heapvars, spacevars, heads, nr_free, held, ret,
         [p \in heads |-> property[p]],
         [e \in listed |-> <<links.next[e], links.prev[e]>>]>>

-----------------------------------------------------------------------------
(* Properties.                                                             *)

\* In the buddy allocator every page is in exactly one block, free or a client's, and
\* a free block is on one list once: a split or a merge never gives out a page twice
\* or loses one, although the memory is no power of two.
BlocksPartition == part = "buddy_system" => B!BlocksPartition
=============================================================================

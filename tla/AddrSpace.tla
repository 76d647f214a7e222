------------------------------ MODULE AddrSpace ------------------------------
(***************************************************************************)
(* Address spaces: the areas of vmm.c, the three-level page tables of      *)
(* pmm.c, and how copy_mm, load_icode and do_exit build them from and      *)
(* return them to the physical pages, failures half way included.          *)
(*                                                                         *)
(* Addresses are page numbers.  A page table maps NPTE pages, a directory  *)
(* NPT page tables, pgdir NPD directories.  No system call shares an mm,   *)
(* so a page has one reference.  The kernel is not preempted and each call *)
(* is one step.  What a program consists of is all that is left of its     *)
(* file: its segments, in the order of their headers.                      *)
(***************************************************************************)
EXTENDS Integers, FiniteSetsExt, SequencesExt

CONSTANTS
    Proc,
    NFRAME,             \* the physical pages are 1..NFRAME
    NPTE, NPT, NPD,
    Program,            \* a set of programs: sequences of segments <<start, end>>
    STACK, STACKMAPPED  \* pages of the stack area, and how many load_icode maps

Frame == 1..NFRAME
Ref   == 0..NFRAME      \* an entry of a table: a frame, or 0 if it is not valid
USERTOP == NPD * NPT * NPTE
Addr  == 0 .. USERTOP - 1
Table == 0 .. NPD * NPT - 1
Dir   == 0 .. NPD - 1

\* What mm_map accepts, by USER_ACCESS: <<start, end>>, with the end left out.
Vma == {v \in Addr \X (1..USERTOP) : v[1] < v[2]}

ASSUME SpaceAssumption ==
    /\ NFRAME \in Nat /\ {NPTE, NPT, NPD} \subseteq Nat \ {0}
    /\ STACK \in 1..USERTOP /\ STACKMAPPED \in 1..STACK
    /\ Program \subseteq Seq(Vma)

VARIABLES
    mm,         \* mm[p]: the areas and the three levels of tables of p
    free,       \* the free physical pages
    panic,      \* "", or which assertion failed
    user        \* history: the frames that were last used for a page of a program

spacevars == <<mm, free, panic, user>>

Space == [areas : Seq(Vma), pgdir : Ref, pd : [Dir -> Ref], pt : [Table -> Ref],
          pte : [Addr -> Ref]]

\* mm_create
NoMm ==
    [areas |-> <<>>, pgdir |-> 0, pd |-> [d \in Dir |-> 0],
     pt |-> [t \in Table |-> 0], pte |-> [a \in Addr |-> 0]]

\* An address space that is being built: st is "ok", "failed" or an assertion.
Works == [m : Space, free : SUBSET Frame, st : {"ok", "failed", "overlap", "memory"}]

Work(m, fr) == [m |-> m, free |-> fr, st |-> "ok"]

Failed(w) == [w EXCEPT !.st = "failed"]

DirOf(t)   == t \div NPT
TableOf(a) == a \div NPTE

\* A loop of n rounds, each of which goes on with what the one before has left.
Repeat(n, w, rounds) ==
    LET at[i \in 0..n] == IF i = 0 THEN w ELSE rounds[i][at[i-1]]
    IN at[n]

\* A step of what a call does while all goes well.  The one at which it is cut fails
\* for another reason than memory: kmalloc returns NULL or the file ends early.
Go(w, iscut, next) ==
    IF w.st # "ok" THEN w ELSE IF iscut THEN Failed(w) ELSE next

-----------------------------------------------------------------------------
(* pmm.c: building                                                         *)

\* alloc_page for the entry i of a level of the tables
Filled(w, level, i) ==
    IF w.free = {} THEN Failed(w)
    ELSE [w EXCEPT !.free = @ \ {Min(w.free)}, !.m[level][i] = Min(w.free)]

\* get_pte with create: a directory that was allocated stays when there is no page
\* left for the table.
GetPte(w, a) ==
    LET t == TableOf(a)
        d == DirOf(t)
        w1 == IF w.m.pd[d] # 0 THEN w ELSE Filled(w, "pd", d)
    IN IF w1.st # "ok" \/ w1.m.pt[t] # 0 THEN w1 ELSE Filled(w1, "pt", t)

\* page_insert of the page f, which nobody refers to yet
Inserted(w, f, a) ==
    [w EXCEPT !.m.pte[a] = f,
              !.free = IF w.m.pte[a] = 0 THEN @ ELSE @ \cup {w.m.pte[a]}]

PgdirAllocPage(w, a) ==
    IF w.free = {} THEN Failed(w)
    ELSE LET f == Min(w.free)
             w1 == GetPte([w EXCEPT !.free = @ \ {f}], a)
         IN IF w1.st = "ok" THEN Inserted(w1, f, a) ELSE [w1 EXCEPT !.free = @ \cup {f}]

\* copy_range, at the address a that is valid in from
CopyPage(w, a) ==
    LET w1 == GetPte(w, a)
    IN CASE w1.st # "ok"  -> w1
         [] w1.st = "ok" /\ w1.free = {} -> [w1 EXCEPT !.st = "memory"]     \* assert(npage != NULL)
         [] OTHER -> Inserted([w1 EXCEPT !.free = @ \ {Min(w1.free)}], Min(w1.free), a)

-----------------------------------------------------------------------------
(* pmm.c: taking down                                                      *)

Valid(f) == f \ {0}

\* Mutant: the loop of unmap_range ends one page early.
PagesShort(area) == {a \in Addr : area[1] <= a /\ a < area[2] - 1}

\* The pages that unmap_range goes over
Pages(area) == {a \in Addr : area[1] <= a /\ a < area[2]}

\* unmap_range, of every area
UnmapRanges(w) ==
    LET pages == UNION {Pages(area) : area \in Range(w.m.areas)}
    IN [w EXCEPT !.free = @ \cup Valid({w.m.pte[a] : a \in pages}),
                 !.m.pte = [a \in Addr |-> IF a \in pages THEN 0 ELSE @[a]]]

\* The tables and directories that hold an address of the area
TablesOf(area) == {t \in Table : area[1] < (t + 1) * NPTE /\ t * NPTE < area[2]}
DirsOf(area) == {DirOf(t) : t \in TablesOf(area)}

TableEmpty(m, t) == \A a \in Addr : TableOf(a) = t => m.pte[a] = 0

\* exit_range.  A directory goes with its first area whose tables were all there:
\* free_pd0 is lowered by an entry that is not valid, and never by a table that is
\* kept or lies outside the area.  The tables still in it are out of reach then.
ExitRange(w, area) ==
    LET emptied == {t \in TablesOf(area) : w.m.pt[t] # 0 /\ TableEmpty(w.m, t)}
        gone == {d \in DirsOf(area) :
                    /\ w.m.pd[d] # 0
                    /\ \A t \in TablesOf(area) : DirOf(t) = d => w.m.pt[t] # 0}
    IN [w EXCEPT !.free = @ \cup {w.m.pt[t] : t \in emptied} \cup {w.m.pd[d] : d \in gone},
                 !.m.pt = [t \in Table |-> IF t \in emptied \/ DirOf(t) \in gone THEN 0 ELSE @[t]],
                 !.m.pd = [d \in Dir |-> IF d \in gone THEN 0 ELSE @[d]]]

\* exit_range, of every area in turn
ExitRanges(w) ==
    Repeat(Len(w.m.areas), w,
           [i \in DOMAIN w.m.areas |-> [v \in Works |-> ExitRange(v, w.m.areas[i])]])

\* exit_mmap, put_pgdir and mm_destroy: the pages that are free then
Destroyed(w) == ExitRanges(UnmapRanges(w)).free \cup Valid({w.m.pgdir})

-----------------------------------------------------------------------------
(* vmm.c: areas                                                            *)

\* find_vma
FindVma(m, a) == {i \in DOMAIN m.areas : m.areas[i][1] <= a /\ a < m.areas[i][2]}

\* insert_vma_struct: in front of the first area that begins above it.  It asserts
\* that the areas on both sides do not overlap it (check_vma_overlap).
InsertVma(w, area) ==
    LET areas == w.m.areas
        above == {i \in DOMAIN areas : areas[i][1] > area[1]}
        k == IF above = {} THEN Len(areas) + 1 ELSE Min(above)
    IN IF \/ k > 1 /\ areas[k-1][2] > area[1]
          \/ above # {} /\ area[2] > areas[k][1]
       THEN [w EXCEPT !.st = "overlap"]
       ELSE [w EXCEPT !.m.areas = InsertAt(areas, k, area)]

\* mm_map: -E_INVAL if the start lies in an area
MmMap(w, area) == IF FindVma(w.m, area[1]) # {} THEN Failed(w) ELSE InsertVma(w, area)

\* user_mem_check of one page, to be read or to be written: it lies in an area, but
\* not, if it is written, at the low end of the stack (the areas here are writable).
UserMemCheck(m, a, write) ==
    \E i \in FindVma(m, a) :
        write /\ m.areas[i] = <<USERTOP - STACK, USERTOP>> => a >= m.areas[i][1] + 1

-----------------------------------------------------------------------------
(* proc.c                                                                  *)

\* setup_pgdir
SetupPgdir(fr) ==
    IF fr = {} THEN Failed(Work(NoMm, fr))
    ELSE Work([NoMm EXCEPT !.pgdir = Min(fr)], fr \ {Min(fr)})

\* load_icode: the pages of the segment i.  cut = <<i, j>> is the page j of the area i,
\* and <<i, 0>> the area itself.
LoadPages(w, area, i, cut) ==
    Repeat(area[2] - area[1], w,
           [j \in 1 .. area[2] - area[1] |-> [v \in Works |->
               Go(v, cut = <<i, j>>, PgdirAllocPage(v, area[1] + j - 1))]])

LoadSegments(w, prog, cut) ==
    Repeat(Len(prog), w,
           [i \in DOMAIN prog |-> [v \in Works |->
               Go(v, cut = <<i, 0>>, LoadPages(MmMap(v, prog[i]), prog[i], i, cut))]])

\* assert(pgdir_alloc_page(...) != NULL)
StackPage(w, a) ==
    LET w1 == PgdirAllocPage(w, a)
    IN IF w1.st = "ok" THEN w1 ELSE [w1 EXCEPT !.st = "memory"]

LoadStack(w, prog, cut) ==
    Go(w, cut = <<Len(prog) + 1, 0>>,
       Repeat(STACKMAPPED, MmMap(w, <<USERTOP - STACK, USERTOP>>),
              [j \in 1..STACKMAPPED |-> [v \in Works |-> Go(v, FALSE, StackPage(v, USERTOP - j))]]))

LoadIcode(fr, prog, cut) == LoadStack(LoadSegments(SetupPgdir(fr), prog, cut), prog, cut)

\* dup_mmap: the pages of an area that are valid in from
CopyRange(w, from, area, i, cut) ==
    Repeat(area[2] - area[1], w,
           [j \in 1 .. area[2] - area[1] |-> [v \in Works |->
               IF from.pte[area[1] + j - 1] = 0 THEN v
               ELSE Go(v, cut = <<i, j>>, CopyPage(v, area[1] + j - 1))]])

\* The i-th area that dup_mmap comes to: it goes from the last one to the first.
FromBehind(areas, i) == areas[Len(areas) + 1 - i]

DupMmap(fr, from, cut) ==
    Repeat(Len(from.areas), SetupPgdir(fr),
           [i \in DOMAIN from.areas |-> [v \in Works |->
               LET area == FromBehind(from.areas, i)
               IN Go(v, cut = <<i, 0>>, CopyRange(InsertVma(v, area), from, area, i, cut))]])

\* Where a call may be cut, given the areas in the order it comes to them: in mm_create,
\* at an area, the stack behind them included, or at a page; or else nowhere.
Cuts(areas) ==
    (0 .. Len(areas) + 2) \X {0}
        \cup {c \in (1 .. Len(areas)) \X (1..USERTOP) : c[2] <= areas[c[1]][2] - areas[c[1]][1]}

InTables(m) == Valid({m.pgdir} \cup Range(m.pd) \cup Range(m.pt))

\* The call ends with w for the process p: a failed one leaves no mm behind, and
\* after a failed assertion nothing runs.
Ends(p, w) ==
    /\ panic' = IF w.st \in {"ok", "failed"} THEN "" ELSE w.st
    /\ mm' = [mm EXCEPT ![p] = IF w.st = "failed" THEN NoMm ELSE w.m]
    /\ free' = IF w.st = "failed" THEN Destroyed(w) ELSE w.free
    /\ user' = (user \ InTables(w.m)) \cup Valid(Range(w.m.pte))

SpaceInit ==
    /\ mm = [p \in Proc |-> NoMm]
    /\ free = Frame
    /\ panic = ""
    /\ user = {}

\* do_execve: the old mm goes first, and a failure ends the process.
Exec(p, prog, cut) ==
    LET fr == IF mm[p].pgdir = 0 THEN free ELSE Destroyed(Work(mm[p], free))
    IN Ends(p, IF cut = <<0, 0>> THEN Failed(Work(NoMm, fr)) ELSE LoadIcode(fr, prog, cut))

\* copy_mm of do_fork, for the child q
Fork(p, q, cut) ==
    /\ mm[p].pgdir # 0 /\ mm[q].pgdir = 0
    /\ Ends(q, IF cut = <<0, 0>> THEN Failed(Work(NoMm, free)) ELSE DupMmap(free, mm[p], cut))

\* do_exit
Exit(p) ==
    /\ mm[p].pgdir # 0
    /\ free' = Destroyed(Work(mm[p], free))
    /\ mm' = [mm EXCEPT ![p] = NoMm]
    /\ UNCHANGED <<panic, user>>

SpaceNext ==
    /\ panic = ""
    /\ \E p \in Proc :
          \/ \E prog \in Program : \E cut \in Cuts(prog) : Exec(p, prog, cut)
          \/ \E q \in Proc, cut \in Cuts(Reverse(mm[p].areas)) : Fork(p, q, cut)
          \/ Exit(p)

SpaceSpec == SpaceInit /\ [][SpaceNext]_spacevars

-----------------------------------------------------------------------------
(* Properties.                                                             *)

\* The places of an address space that refer to a frame
Slot ==
    {<<"pgdir", 0>>} \cup ({"pd"} \X Dir) \cup ({"pt"} \X Table) \cup ({"pte"} \X Addr)

RefAt(m, x) ==
    CASE x[1] = "pgdir" -> m.pgdir
      [] x[1] = "pd"    -> m.pd[x[2]]
      [] x[1] = "pt"    -> m.pt[x[2]]
      [] x[1] = "pte"   -> m.pte[x[2]]

Frames(m) == Valid({RefAt(m, x) : x \in Slot})

Used == UNION {Frames(mm[p]) : p \in Proc}

\* Every frame is used in one place at most, as a table or as a page of one process,
\* and not while it is free; and no page of a program is lost, however a fork or an
\* exec was cut off half way and taken down again.
FramesSafe ==
    /\ \A p, q \in Proc : \A x, y \in Slot :
          RefAt(mm[p], x) = RefAt(mm[q], y) /\ RefAt(mm[p], x) # 0 => p = q /\ x = y
    /\ Used \cap free = {}
    /\ user \subseteq Used \cup free

\* The comments of exit_range: it frees the page tables, and the directory only when
\* all entries in it are invalid, so every frame is free or in use.
TablesFreed == Used \cup free = Frame

\* The assertion of check_vma_overlap, when mm_map has accepted the area.
OverlapAsserted == panic # "overlap"

\* The assertions of copy_range and load_icode that there is memory.
MemoryAsserted == panic # "memory"

\* The comment of load_icode on the stack: an access to a page that has not been
\* mapped yet is served, so whatever user_mem_check lets the kernel touch is mapped.
CheckedMapped ==
    \A p \in Proc, a \in Addr, write \in BOOLEAN :
        UserMemCheck(mm[p], a, write) => mm[p].pte[a] # 0
=============================================================================

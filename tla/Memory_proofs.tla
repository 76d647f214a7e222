--------------------------- MODULE Memory_proofs ----------------------------
(***************************************************************************)
(* For any number of pages, the free list of the first-fit and the         *)
(* best-fit allocator is exact, the first implements a pool of pages, and  *)
(* the second serves the smallest gap, as long as clients leave some pages *)
(* at the top of memory free: without these default_free_pages adds a      *)
(* block to the list behind itself, and everything below fails.            *)
(*                                                                         *)
(* For any number of pages and processes, any shape of the page tables and *)
(* any programs, no frame is used twice and no page of a program is lost.  *)
(*                                                                         *)
(* For any number of pages and any sizes, the units of the heap's pages    *)
(* are divided exactly between its free blocks and the pieces in use.      *)
(***************************************************************************)
EXTENDS BestFit, AddrSpace, Slob, SeqLemmas, FiniteSetTheorems

-----------------------------------------------------------------------------
(* The linked list of libs/list.h.                                         *)

\* x is the entry that follows e in the list of H in increasing order.
Follows(H, e, x) ==
    IF x = 0 THEN \A y \in H : y <= e
             ELSE x \in H /\ e < x /\ \A y \in H : e < y => x <= y

\* x is the last entry of H before e.
Precedes(H, e, x) ==
    x \in H \cup {0} /\ x < e /\ \A y \in H : y < e => y <= x

\* The list head stands before every page for next, and after every page for prev.
Place(e) == IF e = 0 THEN NPAGE + 1 ELSE e

\* The links are a ring through the pages of H in increasing order and the list head.
Linked(l, H) ==
    /\ l \in [next : [Entry -> Entry], prev : [Entry -> Entry]]
    /\ H \subseteq Page
    /\ \A e \in H \cup {0} : Follows(H, e, l.next[e]) /\ Precedes(H, Place(e), l.prev[e])

\* The entries of the list are page numbers, and 0.
LEMMA EntriesAre ==
    ASSUME NEW l, NEW H, Linked(l, H)
    PROVE  /\ NPAGE \in Nat /\ NPAGE > 0 /\ 0 \in Entry
           /\ H \subseteq Page /\ H \subseteq Nat /\ H \subseteq Entry
           /\ \A h \in H : 1 <= h /\ h <= NPAGE /\ h # 0
           /\ Entry \subseteq Nat
           /\ \A e \in H \cup {0} : e \in Nat /\ Place(e) \in Nat /\ e < Place(e) + 1
<1>1. NPAGE \in Nat /\ NPAGE > 0 /\ 0 \in Entry /\ Page \subseteq Entry /\ Entry \subseteq Nat
  BY SizeAssumption DEF Entry, Page
<1>2. H \subseteq Page
  BY DEF Linked
<1>3. \A h \in H : h \in Nat /\ 1 <= h /\ h <= NPAGE /\ h # 0
  BY <1>1, <1>2 DEF Page
<1>4. QED
  BY <1>1, <1>2, <1>3 DEF Place

\* The neighbours of an entry: next and prev undo each other.
LEMMA Neighbours ==
    ASSUME NEW l, NEW H, Linked(l, H), NEW e \in H \cup {0}
    PROVE  /\ l.next[e] \in H \cup {0} /\ l.prev[e] \in H \cup {0}
           /\ e \in Entry /\ l.next[e] \in Entry /\ l.prev[e] \in Entry
           /\ l.prev[l.next[e]] = e /\ l.next[l.prev[e]] = e
           /\ l.next[e] = e => e = 0
           /\ l.prev[e] = e => e = 0
<1>1. /\ NPAGE \in Nat /\ NPAGE > 0 /\ 0 \in Entry /\ e \in Nat /\ e \in Entry
      /\ H \subseteq Page /\ H \subseteq Nat /\ H \subseteq Entry /\ Entry \subseteq Nat
      /\ \A h \in H : 1 <= h /\ h <= NPAGE /\ h # 0
  BY EntriesAre
<1>2. PICK x \in Entry : x = l.next[e] /\ Follows(H, e, x) /\ x \in H \cup {0}
  BY <1>1 DEF Linked, Follows
<1>3. PICK z \in Entry : z = l.prev[e] /\ Precedes(H, Place(e), z) /\ z \in H \cup {0}
  BY <1>1 DEF Linked, Precedes
<1>4. l.prev[x] = e
  <2>1. PICK w \in Entry : w = l.prev[x] /\ Precedes(H, Place(x), w)
    BY <1>2 DEF Linked
  <2>2. QED
    BY <1>1, <1>2, <2>1 DEF Precedes, Follows, Place
<1>5. l.next[z] = e
  <2>1. PICK w \in Entry : w = l.next[z] /\ Follows(H, z, w)
    BY <1>3 DEF Linked
  <2>2. QED
    BY <1>1, <1>3, <2>1 DEF Precedes, Follows, Place
<1>6. QED
  BY <1>1, <1>2, <1>3, <1>4, <1>5 DEF Follows, Precedes, Place

\* list_del takes a block off the list.
LEMMA DelLinked ==
    ASSUME NEW l, NEW H, Linked(l, H), NEW x \in H
    PROVE  Linked(ListDel(l, x), H \ {x})
<1>1. /\ NPAGE \in Nat /\ NPAGE > 0 /\ 0 \in Entry /\ x \in Nat /\ x \in Entry /\ x > 0 /\ x <= NPAGE
      /\ H \subseteq Page /\ H \subseteq Nat /\ H \subseteq Entry /\ Entry \subseteq Nat
      /\ \A h \in H : 1 <= h /\ h <= NPAGE /\ h # 0
  BY EntriesAre DEF Page, Entry
<1>2. PICK a, b : a = l.prev[x] /\ b = l.next[x]
  OBVIOUS
<1>3. /\ a \in H \cup {0} /\ b \in H \cup {0} /\ a \in Entry /\ b \in Entry
      /\ a # x /\ b # x /\ l.next[a] = x /\ l.prev[b] = x
      /\ Follows(H, x, b) /\ Precedes(H, x, a)
  <2>1. /\ a \in H \cup {0} /\ b \in H \cup {0} /\ a \in Entry /\ b \in Entry
        /\ a # x /\ b # x /\ l.next[a] = x /\ l.prev[b] = x
    BY <1>1, <1>2, Neighbours
  <2>2. QED
    BY <1>1, <1>2, <2>1 DEF Linked, Place
<1>4. PICK m : m = ListDel(l, x)
  OBVIOUS
<1>5. /\ m \in [next : [Entry -> Entry], prev : [Entry -> Entry]]
      /\ \A e \in Entry : m.next[e] = IF e = a THEN b ELSE l.next[e]
      /\ \A e \in Entry : m.prev[e] = IF e = b THEN a ELSE l.prev[e]
  <2>1. l.next \in [Entry -> Entry] /\ l.prev \in [Entry -> Entry]
    BY DEF Linked
  <2>2. m = [next |-> [l.next EXCEPT ![a] = b], prev |-> [l.prev EXCEPT ![b] = a]]
    BY <1>2, <1>4 DEF ListDel
  <2>3. QED
    BY <1>3, <2>1, <2>2
<1>6. ASSUME NEW e \in (H \ {x}) \cup {0} PROVE Follows(H \ {x}, e, m.next[e])
  <2>1. e \in Entry /\ Follows(H, e, l.next[e]) /\ l.next[e] \in Entry
    BY <1>1 DEF Linked
  <2>2. CASE e = a
    BY <1>1, <1>3, <1>5, <2>1, <2>2 DEF Follows, Precedes
  <2>3. CASE e # a
    <3>1. m.next[e] = l.next[e] /\ l.next[e] # x
      <4>1. l.prev[l.next[e]] = e
        BY Neighbours
      <4>2. QED
        BY <1>2, <1>5, <2>1, <2>3, <4>1
    <3>2. QED
      BY <1>1, <2>1, <3>1 DEF Follows
  <2>4. QED
    BY <2>2, <2>3
<1>7. ASSUME NEW e \in (H \ {x}) \cup {0} PROVE Precedes(H \ {x}, Place(e), m.prev[e])
  <2>1. e \in Entry /\ Precedes(H, Place(e), l.prev[e]) /\ l.prev[e] \in Entry
    BY <1>1 DEF Linked
  <2>2. CASE e = b
    <3>1. Precedes(H, Place(b), x)
      BY <1>3, <2>1, <2>2
    <3>2. Place(b) \in Nat
      BY <1>1, <1>3 DEF Place
    <3>3. QED
      BY <1>1, <1>3, <1>5, <2>1, <2>2, <3>1, <3>2 DEF Precedes
  <2>3. CASE e # b
    <3>1. m.prev[e] = l.prev[e] /\ l.prev[e] # x
      <4>1. l.next[l.prev[e]] = e
        BY Neighbours
      <4>2. QED
        BY <1>2, <1>5, <2>1, <2>3, <4>1
    <3>2. Place(e) \in Nat
      BY <1>1, <2>1 DEF Place
    <3>3. QED
      BY <1>1, <2>1, <3>1, <3>2 DEF Precedes
  <2>4. QED
    BY <2>2, <2>3
<1>8. H \ {x} \subseteq Page
  BY <1>1
<1>9. QED
  BY <1>4, <1>5, <1>6, <1>7, <1>8 DEF Linked

\* __list_add puts x between two entries that were next to each other.
LEMMA AddLinked ==
    ASSUME NEW l, NEW H, Linked(l, H), NEW x \in Page, NEW a \in H \cup {0},
           NEW b \in H \cup {0}, l.next[a] = b, a < x, x < Place(b)
    PROVE  Linked(ListAdd(l, x, a, b), H \cup {x})
<1>1. /\ NPAGE \in Nat /\ NPAGE > 0 /\ 0 \in Entry /\ x \in Nat /\ x \in Entry /\ x > 0 /\ x <= NPAGE
      /\ H \subseteq Page /\ H \subseteq Nat /\ H \subseteq Entry /\ Entry \subseteq Nat
      /\ \A h \in H : 1 <= h /\ h <= NPAGE /\ h # 0
  BY EntriesAre DEF Page, Entry
<1>2. /\ a \in Entry /\ b \in Entry /\ l.prev[b] = a
      /\ Follows(H, a, b) /\ Precedes(H, Place(b), a)
      /\ x # a /\ x # b /\ Place(b) \in Nat
  <2>1. a \in Entry /\ b \in Entry /\ l.prev[b] = a
    BY Neighbours
  <2>2. Follows(H, a, b) /\ Precedes(H, Place(b), a)
    BY <2>1 DEF Linked
  <2>3. QED
    BY <1>1, <2>1, <2>2 DEF Place
<1>4. PICK m : m = ListAdd(l, x, a, b)
  OBVIOUS
<1>5. /\ m \in [next : [Entry -> Entry], prev : [Entry -> Entry]]
      /\ \A e \in Entry : m.next[e] = IF e = x THEN b ELSE IF e = a THEN x ELSE l.next[e]
      /\ \A e \in Entry : m.prev[e] = IF e = x THEN a ELSE IF e = b THEN x ELSE l.prev[e]
  <2>1. l.next \in [Entry -> Entry] /\ l.prev \in [Entry -> Entry]
    BY DEF Linked
  <2>2. m = [next |-> [l.next EXCEPT ![a] = x, ![x] = b], prev |-> [l.prev EXCEPT ![b] = x, ![x] = a]]
    BY <1>4 DEF ListAdd
  <2>3. QED
    BY <1>1, <1>2, <2>1, <2>2
<1>6. ASSUME NEW e \in (H \cup {x}) \cup {0} PROVE Follows(H \cup {x}, e, m.next[e])
  <2>1. CASE e = x
    BY <1>1, <1>2, <1>5, <2>1 DEF Follows, Precedes, Place
  <2>2. CASE e = a
    <3>1. m.next[e] = x
      BY <1>2, <1>5, <2>2
    <3>2. ASSUME NEW y \in H, a < y PROVE x <= y
      <4>1. y \in Nat /\ a \in Nat /\ b \in Nat /\ x \in Nat /\ NPAGE \in Nat
        BY <1>1, <1>2
      <4>2. CASE b = 0
        <5>1. y <= a
          BY <1>2, <4>2 DEF Follows
        <5>2. QED
          BY <3>2, <4>1, <5>1
      <4>3. CASE b # 0
        <5>1. b <= y
          BY <1>2, <3>2, <4>3 DEF Follows
        <5>2. x < b
          BY <4>3 DEF Place
        <5>3. QED
          BY <4>1, <5>1, <5>2
      <4>4. QED
        BY <4>2, <4>3
    <3>3. \A y \in H \cup {x} : a < y => x <= y
      BY <1>1, <3>2
    <3>4. x # 0 /\ a < x
      BY <1>1
    <3>5. Follows(H \cup {x}, a, x)
      BY <3>3, <3>4 DEF Follows
    <3>6. QED
      BY <2>2, <3>1, <3>5
  <2>3. CASE e # x /\ e # a
    <3>1. e \in Entry /\ e \in H \cup {0} /\ Follows(H, e, l.next[e]) /\ l.next[e] \in Entry
      BY <1>1, <2>3 DEF Linked
    <3>2. m.next[e] = l.next[e] /\ l.next[e] # b
      <4>1. l.prev[l.next[e]] = e
        BY <3>1, Neighbours
      <4>2. QED
        BY <1>2, <1>5, <2>3, <3>1, <4>1
    <3>3. PICK c \in Entry : c = l.next[e] /\ Follows(H, e, c) /\ c # b /\ m.next[e] = c
      BY <3>1, <3>2
    <3>4. CASE e < x
      <4>1. e < a
        <5>1. PICK w \in Nat : w = Place(b) /\ x < w /\ Precedes(H, w, a)
          BY <1>2
        <5>2. e \in Nat /\ a \in Nat /\ e < w /\ e # a
          BY <1>1, <1>2, <2>3, <3>1, <3>4, <5>1
        <5>3. e <= a
          BY <1>1, <3>1, <5>1, <5>2 DEF Precedes
        <5>4. QED
          BY <5>2, <5>3
      <4>2. a \in H /\ a \in Nat /\ e \in Nat
        <5>1. a \in Nat /\ e \in Nat
          BY <1>1, <1>2, <3>1
        <5>2. a # 0
          BY <4>1, <5>1
        <5>3. QED
          BY <5>1, <5>2
      <4>4. c # 0 /\ c <= a
        <5>1. Follows(H, e, c) /\ ~(a <= e)
          BY <3>3, <4>1, <4>2
        <5>2. c # 0
          BY <4>2, <5>1 DEF Follows
        <5>3. QED
          BY <4>1, <4>2, <5>1, <5>2 DEF Follows
      <4>3. QED
        BY <1>1, <3>1, <3>3, <4>2, <4>4 DEF Follows
    <3>5. CASE x < e
      <4>1. x <= e /\ ~(e < x) /\ Follows(H, e, c)
        BY <1>1, <3>1, <3>3, <3>5
      <4>2. Follows(H \cup {x}, e, c)
        BY <4>1 DEF Follows
      <4>3. QED
        BY <3>3, <4>2
    <3>6. e < x \/ x < e
      <4>1. e \in Nat /\ x \in Nat /\ e # x
        BY <1>1, <2>3, <3>1
      <4>2. QED
        BY <4>1
    <3>7. QED
      BY <3>4, <3>5, <3>6
  <2>4. QED
    BY <2>1, <2>2, <2>3
<1>7. ASSUME NEW e \in (H \cup {x}) \cup {0} PROVE Precedes(H \cup {x}, Place(e), m.prev[e])
  <2>1. CASE e = x
    BY <1>1, <1>2, <1>5, <2>1 DEF Follows, Precedes, Place
  <2>2. CASE e = b
    BY <1>1, <1>2, <1>5, <2>2 DEF Precedes
  <2>3. CASE e # x /\ e # b
    <3>1. /\ e \in Entry /\ e \in H \cup {0} /\ Precedes(H, Place(e), l.prev[e])
          /\ l.prev[e] \in Entry
      BY <1>1, <2>3 DEF Linked
    <3>2. m.prev[e] = l.prev[e] /\ l.prev[e] # a
      <4>1. l.next[l.prev[e]] = e
        BY <3>1, Neighbours
      <4>2. QED
        BY <1>2, <1>5, <2>3, <3>1, <4>1
    <3>3. PICK c \in Entry : /\ c = l.prev[e] /\ Precedes(H, Place(e), c) /\ c # a
                             /\ m.prev[e] = c
      BY <3>1, <3>2
    <3>4. CASE x < Place(e)
      <4>1. Place(b) < Place(e) /\ b \in H /\ b # 0
        <5>1. e \in Nat /\ a \in Nat /\ b \in Nat /\ e # b /\ a < x
          BY <1>1, <1>2, <2>3, <3>1
        <5>2. CASE e = 0
          BY <1>1, <1>2, <5>1, <5>2 DEF Follows, Place
        <5>3. CASE e # 0
          <6>1. e \in H /\ x < e /\ a < e
            BY <1>1, <3>1, <3>4, <5>1, <5>3 DEF Place
          <6>2. b # 0 /\ b \in H /\ b <= e
            BY <1>2, <5>1, <6>1 DEF Follows
          <6>3. QED
            BY <5>1, <5>3, <6>2 DEF Place
        <5>4. QED
          BY <5>2, <5>3
      <4>2. b <= c
        BY <1>1, <3>3, <4>1 DEF Precedes, Place
      <4>3. x <= c
        BY <1>1, <4>1, <4>2 DEF Place
      <4>4. QED
        BY <1>1, <3>1, <3>3, <4>3 DEF Precedes
    <3>5. CASE ~(x < Place(e))
      BY <1>1, <3>1, <3>3, <3>5 DEF Precedes
    <3>6. QED
      BY <3>4, <3>5
  <2>4. QED
    BY <2>1, <2>2, <2>3
<1>8. H \cup {x} \subseteq Page
  BY <1>1
<1>9. QED
  BY <1>4, <1>5, <1>6, <1>7, <1>8 DEF Linked

-----------------------------------------------------------------------------
(* The walk through the list: Blocks.                                      *)

\* The function at of Blocks, which follows next from the head.
At(l) == LET at[i \in Entry] == IF i = 0 THEN l.next[0] ELSE l.next[at[i-1]] IN at

\* k entries come before the walk is back at the head, or NPAGE + 1 if it never is.
EndsAt(at, k) ==
    /\ k = NPAGE + 1 \/ at[k] = 0
    /\ \A i \in 0..k-1 : at[i] # 0

\* The walk goes from block to block.
LEMMA WalkSteps ==
    ASSUME NEW l, NEW H, Linked(l, H)
    PROVE  /\ At(l) \in [Entry -> H \cup {0}]
           /\ At(l)[0] = l.next[0]
           /\ \A i \in 1..NPAGE : At(l)[i] = l.next[At(l)[i-1]]
<1>1. NPAGE \in Nat /\ Entry = 0..NPAGE
  BY EntriesAre DEF Entry
<1>2. PICK S : S = H \cup {0}
  OBVIOUS
<1>3. \A e \in S : l.next[e] \in S
  BY <1>2, Neighbours
<1>4. PICK g : g = [x \in S \X (1..NPAGE) |-> l.next[x[1]]]
  OBVIOUS
<1>5. g \in [S \X (1..NPAGE) -> S]
  BY <1>3, <1>4
<1>6. l.next[0] \in S
  BY <1>2, <1>3
<1>7. /\ \E f : Repeats(f, NPAGE, l.next[0], g)
      /\ \A f : Repeats(f, NPAGE, l.next[0], g) => f \in [0..NPAGE -> S]
  BY <1>1, <1>5, <1>6, Repeated
<1> DEFINE Walk(f) == f = [i \in Entry |-> IF i = 0 THEN l.next[0] ELSE l.next[f[i-1]]]
<1>8. PICK f : Repeats(f, NPAGE, l.next[0], g)
  BY <1>7
<1>9. f \in [0..NPAGE -> S]
  BY <1>7, <1>8
<1>10. Walk(f)
  <2>1. ASSUME NEW i \in 0..NPAGE, i # 0
        PROVE  g[<<f[i-1], i>>] = l.next[f[i-1]]
    <3>1. f[i-1] \in S /\ i \in 1..NPAGE
      BY <1>1, <1>9, <2>1
    <3>2. QED
      BY <1>4, <3>1
  <2>2. QED
    BY <1>1, <1>8, <2>1 DEF Repeats
<1>11. Walk(At(l))
  <2>1. At(l) = CHOOSE h : Walk(h)
    BY Zenon DEF At
  <2>2. QED
    BY <1>10, <2>1, Zenon
<1>12. PICK at : at = At(l)
  OBVIOUS
<1>13. DOMAIN at = 0..NPAGE /\ at[0] = l.next[0] /\ \A i \in 1..NPAGE : at[i] = l.next[at[i-1]]
  BY <1>1, <1>11, <1>12
<1>14. at \in [0..NPAGE -> S]
  <2> DEFINE U == {m \in Nat : m <= NPAGE => at[m] \in S}
  <2>1. 0 \in U
    BY <1>6, <1>13
  <2>2. ASSUME NEW m \in Nat, m \in U PROVE m + 1 \in U
    BY <1>1, <1>3, <1>13, <2>2
  <2>3. Nat \subseteq U
    <3> HIDE DEF U
    <3>1. QED
      BY <2>1, <2>2, Induction
  <2>4. \A m \in 0..NPAGE : at[m] \in S
    BY <1>1, <2>3
  <2>5. at = [i \in 0..NPAGE |-> at[i]]
    BY <1>1, <1>11, <1>12
  <2>6. QED
    BY <2>4, <2>5
<1>15. QED
  BY <1>1, <1>2, <1>12, <1>13, <1>14

\* The blocks that the walk meets are those of the list, in increasing order.
IsWalk(bs, l, H) ==
    /\ bs \in Seq(Page)
    /\ Range(bs) = H
    /\ \A i, j \in 1..Len(bs) : i < j => bs[i] < bs[j]
    /\ \A i \in 1..Len(bs)-1 : l.next[bs[i]] = bs[i+1]
    /\ Len(bs) # 0 => l.next[0] = bs[1] /\ l.next[bs[Len(bs)]] = 0
    /\ Len(bs) = 0 => l.next[0] = 0

\* What Blocks returns for a list that is linked.
LEMMA BlocksWalk ==
    ASSUME NEW l, NEW H, Linked(l, H)
    PROVE  IsWalk(Blocks(l), l, H)
<1>1. /\ NPAGE \in Nat /\ NPAGE > 0 /\ Entry = 0..NPAGE /\ 0 \in Entry
      /\ H \subseteq Page /\ H \subseteq Nat /\ \A h \in H : 1 <= h /\ h <= NPAGE /\ h # 0
  BY EntriesAre DEF Entry
<1>2. PICK at : at = At(l)
  OBVIOUS
<1>3. /\ at \in [0..NPAGE -> H \cup {0}]
      /\ at[0] = l.next[0]
      /\ \A i \in 1..NPAGE : at[i] = l.next[at[i-1]]
  BY <1>1, <1>2, WalkSteps
<1>4. \E k \in 0..NPAGE + 1 : EndsAt(at, k)
  <2> DEFINE T == {k \in 0..NPAGE + 1 : k = NPAGE + 1 \/ at[k] = 0}
  <2>1. NPAGE + 1 \in T /\ T \subseteq Nat
    BY <1>1
  <2>2. PICK k \in T : \A y \in T : k <= y
    BY <2>1, LeastNatural
  <2>3. k \in 0..NPAGE + 1 /\ (k = NPAGE + 1 \/ at[k] = 0)
    OBVIOUS
  <2>4. ASSUME NEW i \in 0..k-1 PROVE at[i] # 0
    <3>1. i \in 0..NPAGE /\ i \in 0..NPAGE + 1 /\ ~(k <= i)
      BY <1>1, <2>3
    <3>2. QED
      BY <2>2, <3>1
  <2>5. QED
    BY <2>3, <2>4 DEF EndsAt
<1>5. PICK n : n = CHOOSE k \in 0..NPAGE + 1 : EndsAt(At(l), k)
  OBVIOUS
<1>6. n \in 0..NPAGE + 1 /\ EndsAt(at, n)
  BY <1>2, <1>4, <1>5
<1>7. n \in 0..NPAGE + 1 /\ (n = NPAGE + 1 \/ at[n] = 0) /\ \A i \in 0..n-1 : at[i] # 0
  BY <1>6 DEF EndsAt
<1>8. PICK bs : bs = Blocks(l)
  OBVIOUS
<1>9. bs = [i \in 1..n |-> at[i-1]]
  <2>1. Blocks(l) = [i \in 1..(CHOOSE k \in 0..NPAGE + 1 : EndsAt(At(l), k)) |-> At(l)[i-1]]
    BY Zenon DEF Blocks, At, EndsAt
  <2>2. QED
    BY <1>2, <1>5, <1>8, <2>1, Zenon
<1>10. \A i \in 0..n-1 : /\ i \in 0..NPAGE /\ at[i] \in H /\ at[i] \in Nat
                          /\ at[i] # 0 /\ at[i] >= 1 /\ at[i] <= NPAGE
  <2>1. ASSUME NEW i \in 0..n-1
        PROVE  i \in 0..NPAGE /\ at[i] \in H /\ at[i] # 0
    <3>1. i \in 0..NPAGE /\ at[i] # 0
      BY <1>1, <1>7
    <3>2. at[i] \in H \cup {0}
      BY <1>3, <3>1
    <3>3. QED
      BY <3>1, <3>2
  <2>2. QED
    BY <1>1, <2>1
<1>11. \A i \in 0..n-1 : i >= 1 => at[i-1] < at[i]
  <2>1. ASSUME NEW i \in 0..n-1, i >= 1 PROVE at[i-1] < at[i]
    <3>1. i \in 1..NPAGE /\ i - 1 \in 0..n-1
      BY <1>1, <1>7, <2>1
    <3>2. at[i] = l.next[at[i-1]] /\ at[i-1] \in H /\ at[i] # 0
      BY <1>3, <1>10, <3>1
    <3>3. Follows(H, at[i-1], at[i])
      BY <3>2 DEF Linked
    <3>4. QED
      BY <3>2, <3>3 DEF Follows
  <2>2. QED
    BY <2>1
<1>12. \A i \in 0..n-1 : at[i] >= i + 1
  <2> DEFINE U == {m \in Nat : m <= n - 1 => at[m] >= m + 1}
  <2>1. 0 \in U
    BY <1>7, <1>10
  <2>2. ASSUME NEW m \in Nat, m \in U PROVE m + 1 \in U
    <3>1. CASE m + 1 <= n - 1
      <4>1. /\ m + 1 \in 0..n-1 /\ m \in 0..n-1 /\ at[m] >= m + 1 /\ at[m] < at[m + 1]
            /\ at[m] \in Nat /\ at[m + 1] \in Nat
        BY <1>7, <1>10, <1>11, <2>2, <3>1
      <4>2. QED
        BY <4>1
    <3>2. QED
      BY <1>7, <3>1
  <2>3. Nat \subseteq U
    <3> HIDE DEF U
    <3>1. QED
      BY <2>1, <2>2, Induction
  <2>4. QED
    BY <1>7, <2>3
<1>13. n \in 0..NPAGE /\ at[n] = 0
  <2>1. n # NPAGE + 1
    <3>1. SUFFICES ASSUME n = NPAGE + 1 PROVE FALSE
      OBVIOUS
    <3>2. NPAGE \in 0..n-1
      BY <1>1, <3>1
    <3>3. at[NPAGE] >= NPAGE + 1 /\ at[NPAGE] <= NPAGE /\ at[NPAGE] \in Nat
      BY <1>10, <1>12, <3>2
    <3>4. QED
      BY <1>1, <3>3
  <2>2. QED
    BY <1>1, <1>7, <2>1
<1>14. ASSUME NEW j \in 0..n-1 PROVE \A i \in 0..n-1 : j < i => at[j] < at[i]
  <2> DEFINE U == {m \in Nat : m <= n - 1 /\ j < m => at[j] < at[m]}
  <2>1. 0 \in U
    BY <1>13
  <2>2. ASSUME NEW m \in Nat, m \in U PROVE m + 1 \in U
    <3>1. SUFFICES ASSUME m + 1 <= n - 1, j < m + 1 PROVE at[j] < at[m + 1]
      OBVIOUS
    <3>2. /\ m + 1 \in 0..n-1 /\ m \in 0..n-1 /\ at[m] < at[m + 1]
          /\ at[m] \in Nat /\ at[m + 1] \in Nat /\ at[j] \in Nat
      BY <1>10, <1>11, <1>13, <3>1
    <3>3. j = m \/ at[j] < at[m]
      BY <1>13, <2>2, <3>1
    <3>4. QED
      BY <3>2, <3>3
  <2>3. Nat \subseteq U
    <3> HIDE DEF U
    <3>1. QED
      BY <2>1, <2>2, Induction
  <2>4. QED
    BY <1>13, <2>3
<1>15. bs \in Seq(Page) /\ Len(bs) = n /\ \A i \in 1..n : bs[i] = at[i-1]
  <2>1. \A i \in 1..n : at[i-1] \in Page
    BY <1>1, <1>10, <1>13
  <2>2. bs \in [1..n -> Page]
    BY <1>9, <2>1
  <2>3. QED
    BY <1>9, <1>13, <2>2
<1>16. ASSUME NEW y \in H PROVE \E i \in 1..n : bs[i] = y
  <2>1. SUFFICES ASSUME \A i \in 0..n-1 : at[i] # y PROVE FALSE
    <3>1. ASSUME NEW i \in 0..n-1, at[i] = y PROVE i + 1 \in 1..n /\ bs[i + 1] = y
      BY <1>13, <1>15, <3>1
    <3>2. QED
      BY <3>1
  <2> DEFINE U == {m \in Nat : m <= n - 1 => at[m] < y}
  <2>2. 0 \in U
    <3>1. CASE 0 <= n - 1
      <4>1. Follows(H, 0, at[0]) /\ at[0] \in H /\ at[0] # 0
        BY <1>3, <1>10, <1>13, <3>1 DEF Linked
      <4>2. QED
        BY <1>1, <1>10, <1>13, <2>1, <3>1, <4>1 DEF Follows
    <3>2. QED
      BY <1>13, <3>1
  <2>3. ASSUME NEW m \in Nat, m \in U PROVE m + 1 \in U
    <3>1. SUFFICES ASSUME m + 1 <= n - 1 PROVE at[m + 1] < y
      OBVIOUS
    <3>2. /\ m + 1 \in 0..n-1 /\ m \in 0..n-1 /\ at[m] < y /\ m + 1 \in 1..NPAGE
          /\ at[m] \in H /\ at[m + 1] \in H /\ at[m + 1] # 0 /\ at[m + 1] # y
      BY <1>10, <1>13, <2>1, <2>3, <3>1
    <3>3. Follows(H, at[m], at[m + 1])
      <4>1. at[m + 1] = l.next[at[m]]
        BY <1>3, <3>2
      <4>2. QED
        BY <3>2, <4>1 DEF Linked
    <3>4. at[m] \in Nat /\ at[m + 1] \in Nat /\ y \in Nat
      BY <1>1, <3>2
    <3>5. at[m + 1] <= y
      BY <3>2, <3>3 DEF Follows
    <3>6. QED
      BY <3>2, <3>4, <3>5
  <2>4. Nat \subseteq U
    <3> HIDE DEF U
    <3>1. QED
      BY <2>2, <2>3, Induction
  <2>5. CASE n = 0
    <3>1. Follows(H, 0, 0)
      BY <1>3, <1>13, <2>5 DEF Linked
    <3>2. QED
      BY <1>1, <3>1 DEF Follows
  <2>6. CASE n # 0
    <3>1. n - 1 \in 0..n-1 /\ n - 1 \in Nat /\ n \in 1..NPAGE
      BY <1>13, <2>6
    <3>2. at[n-1] < y /\ at[n-1] \in H
      BY <1>10, <2>4, <3>1
    <3>3. l.next[at[n-1]] = 0
      BY <1>3, <1>13, <3>1
    <3>4. Follows(H, at[n-1], 0)
      BY <3>2, <3>3 DEF Linked
    <3>5. y <= at[n-1] /\ y \in Nat /\ at[n-1] \in Nat
      BY <1>1, <3>2, <3>4 DEF Follows
    <3>6. QED
      BY <3>2, <3>5
  <2>7. QED
    BY <2>5, <2>6
<1>17. Range(bs) = H
  <2>1. \A i \in 1..n : bs[i] \in H
    BY <1>10, <1>13, <1>15
  <2>2. DOMAIN bs = 1..n
    BY <1>9
  <2>3. QED
    BY <1>16, <2>1, <2>2 DEF Range
<1>18. \A i, j \in 1..Len(bs) : i < j => bs[i] < bs[j]
  <2>1. ASSUME NEW i \in 1..n, NEW j \in 1..n, i < j PROVE bs[i] < bs[j]
    <3>1. i - 1 \in 0..n-1 /\ j - 1 \in 0..n-1 /\ i - 1 < j - 1
      BY <1>13, <2>1
    <3>2. at[i-1] < at[j-1]
      BY <1>14, <3>1
    <3>3. QED
      BY <1>15, <3>2
  <2>2. QED
    BY <1>15, <2>1
<1>19. \A i \in 1..Len(bs)-1 : l.next[bs[i]] = bs[i+1]
  <2>1. ASSUME NEW i \in 1..n-1 PROVE l.next[bs[i]] = bs[i+1]
    <3>1. i \in 1..NPAGE /\ i \in 1..n /\ i + 1 \in 1..n /\ (i + 1) - 1 = i
      BY <1>1, <1>13
    <3>2. bs[i] = at[i-1] /\ bs[i+1] = at[i]
      BY <1>15, <3>1
    <3>3. QED
      BY <1>3, <3>1, <3>2
  <2>2. QED
    BY <1>15, <2>1
<1>20. Len(bs) # 0 => l.next[0] = bs[1] /\ l.next[bs[Len(bs)]] = 0
  <2>1. SUFFICES ASSUME n # 0 PROVE l.next[0] = bs[1] /\ l.next[bs[n]] = 0
    BY <1>15
  <2>2. n \in 1..NPAGE /\ 1 \in 1..n /\ n \in 1..n
    BY <1>13, <2>1
  <2>3. bs[1] = at[0] /\ bs[n] = at[n-1] /\ at[n] = l.next[at[n-1]]
    BY <1>3, <1>15, <2>2
  <2>4. QED
    BY <1>3, <1>13, <2>3
<1>21. Len(bs) = 0 => l.next[0] = 0
  BY <1>3, <1>13, <1>15
<1>22. QED
  BY <1>8, <1>15, <1>17, <1>18, <1>19, <1>20, <1>21 DEF IsWalk

-----------------------------------------------------------------------------
(* The blocks and the pages in them.                                       *)

\* Page p is in the block that h heads.
InBlock(size, h, p) == h <= p /\ p < h + size[h]

\* The blocks of H make up the free pages F.  Two of them are a page apart, except that
\* a page of seam may head a block right behind another one.
Tiled(size, H, F, seam) ==
    /\ size \in [Page -> 0..NPAGE] /\ H \subseteq Page /\ F \subseteq Page
    /\ \A h \in H : size[h] >= 1 /\ h + size[h] <= NPAGE + 1
    /\ \A h, g \in H : h < g => h + size[h] < g \/ (h + size[h] = g /\ g \in seam)
    /\ \A p \in Page : p \in F <=> \E h \in H : InBlock(size, h, p)

\* The numbers in a tiling.
LEMMA TiledTypes ==
    ASSUME NEW size, NEW H, NEW F, NEW seam, Tiled(size, H, F, seam)
    PROVE  /\ NPAGE \in Nat
           /\ \A p \in Page : p \in Nat /\ p >= 1 /\ p <= NPAGE /\ size[p] \in Nat
           /\ \A p \in Nat : p >= 1 /\ p <= NPAGE => p \in Page
           /\ \A h \in H : h \in Page /\ h \in Nat /\ size[h] \in Nat /\ h >= 1
           /\ \A h \in H : h + size[h] \in Nat
<1>1. NPAGE \in Nat
  BY SizeAssumption
<1>2. \A p \in Page : p \in Nat /\ p >= 1 /\ p <= NPAGE
  BY <1>1 DEF Page
<1>3. \A p \in Page : size[p] \in Nat
  BY <1>1 DEF Tiled
<1>4. \A h \in H : h \in Page
  BY DEF Tiled
<1>5. \A p \in Nat : p >= 1 /\ p <= NPAGE => p \in Page
  BY <1>1 DEF Page
<1>6. QED
  BY <1>1, <1>2, <1>3, <1>4, <1>5

\* What is left of the blocks without the first n pages of the block page.
IsCut(size, H, F, page, n, run) ==
    /\ size[page] > n =>
          /\ page + n \in Page /\ page + n \notin H
          /\ Tiled([size EXCEPT ![page + n] = size[page] - n],
                   (H \cup {page + n}) \ {page}, F \ run, {})
    /\ size[page] = n => Tiled(size, H \ {page}, F \ run, {})
    /\ run \subseteq F

\* A block from which n pages are taken off leaves a tiling.
LEMMA CutTiled ==
    ASSUME NEW size, NEW H, NEW F, Tiled(size, H, F, {}), NEW page \in H,
           NEW n \in Nat, n >= 1, n <= size[page],
           NEW run, run = page .. page + n - 1
    PROVE  IsCut(size, H, F, page, n, run)
<1>1. /\ NPAGE \in Nat
      /\ \A p \in Page : p \in Nat /\ p >= 1 /\ p <= NPAGE /\ size[p] \in Nat
      /\ \A p \in Nat : p >= 1 /\ p <= NPAGE => p \in Page
      /\ \A h \in H : h \in Page /\ h \in Nat /\ size[h] \in Nat /\ h >= 1
      /\ page \in Nat /\ size[page] \in Nat /\ page + size[page] <= NPAGE + 1
  BY TiledTypes DEF Tiled
<1>2. \A p \in Nat : p \in run <=> page <= p /\ p < page + n
  BY <1>1
<1>3. run \subseteq F
  <2>1. ASSUME NEW p \in run PROVE p \in F
    <3>1. p \in Nat /\ page <= p /\ p < page + n
      BY <1>1
    <3>2. p \in Page /\ InBlock(size, page, p)
      BY <1>1, <3>1 DEF InBlock
    <3>3. QED
      BY <3>2 DEF Tiled
  <2>2. QED
    BY <2>1
<1>4. ASSUME size[page] > n
      PROVE  /\ page + n \in Page /\ page + n \notin H
             /\ Tiled([size EXCEPT ![page + n] = size[page] - n],
                      (H \cup {page + n}) \ {page}, F \ run, {})
  <2>0. PICK q \in Nat : q = page + n
    BY <1>1
  <2>1. PICK s, G : /\ q = page + n /\ s = [size EXCEPT ![q] = size[page] - n]
                    /\ G = (H \cup {q}) \ {page}
    BY <2>0
  <2>2. q \in Page
    BY <1>1, <1>4, <2>1
  <2>3. q \notin H
    <3>1. SUFFICES ASSUME q \in H PROVE FALSE
      OBVIOUS
    <3>2. page < q /\ q < page + size[page]
      BY <1>1, <1>4, <2>1
    <3>3. page + size[page] < q
      BY <3>1, <3>2 DEF Tiled
    <3>4. QED
      BY <1>1, <2>0, <3>2, <3>3
  <2>4. s \in [Page -> 0..NPAGE] /\ s[q] = size[page] - n /\ \A h \in H : s[h] = size[h]
    <3>1. size \in [Page -> 0..NPAGE] /\ size[page] - n \in 0..NPAGE
      BY <1>1, <1>4 DEF Tiled
    <3>2. QED
      BY <1>1, <2>1, <2>2, <2>3, <3>1
  <2>5. G \subseteq Page /\ F \ run \subseteq Page
    BY <1>1, <2>1, <2>2 DEF Tiled
  <2>6. \A h \in G : s[h] >= 1 /\ h + s[h] <= NPAGE + 1
    <3>1. q + s[q] = page + size[page] /\ s[q] \in Nat
      BY <1>1, <1>4, <2>1, <2>4
    <3>2. page + size[page] <= NPAGE + 1 /\ \A h \in H : size[h] >= 1 /\ h + size[h] <= NPAGE + 1
      BY DEF Tiled
    <3>3. s[q] >= 1
      BY <1>1, <1>4, <2>1, <2>4
    <3>4. QED
      BY <2>1, <2>4, <3>1, <3>2, <3>3
  <2>7. ASSUME NEW h \in G, NEW g \in G, h < g PROVE h + s[h] < g
    <3>1. CASE h = q
      <4>1. g \in H /\ g \in Nat /\ page < g
        BY <1>1, <2>1, <2>7, <3>1
      <4>2. page + size[page] < g
        BY <4>1 DEF Tiled
      <4>3. QED
        BY <1>1, <2>1, <2>4, <3>1, <4>1, <4>2
    <3>2. CASE g = q
      <4>1. h \in H /\ h # page /\ h \in Nat /\ size[h] \in Nat /\ s[h] = size[h]
        BY <1>1, <2>1, <2>4, <2>7, <3>2
      <4>2. ~(page < h)
        BY <1>1, <1>4, <2>1, <2>7, <3>2, <4>1 DEF Tiled
      <4>3. h + size[h] < page
        BY <1>1, <4>1, <4>2 DEF Tiled
      <4>4. QED
        BY <1>1, <2>1, <3>2, <4>1, <4>3
    <3>3. CASE h # q /\ g # q
      <4>1. h \in H /\ g \in H /\ s[h] = size[h]
        BY <2>1, <2>4, <3>3
      <4>2. QED
        BY <2>7, <4>1 DEF Tiled
    <3>4. QED
      BY <3>1, <3>2, <3>3
  <2>8. ASSUME NEW p \in Page PROVE p \in F \ run <=> \E h \in G : InBlock(s, h, p)
    <3>1. ASSUME p \in F \ run PROVE \E h \in G : InBlock(s, h, p)
      <4>1. PICK h \in H : InBlock(size, h, p)
        BY <3>1 DEF Tiled
      <4>2. CASE h = page
        <5>0. p \in Nat /\ p \notin run /\ page <= p /\ p < page + size[page]
          BY <1>1, <3>1, <4>1, <4>2 DEF InBlock
        <5>a. q <= p /\ q + s[q] = page + size[page]
          BY <1>1, <1>2, <2>1, <2>4, <5>0
        <5>1. InBlock(s, q, p)
          BY <5>0, <5>a DEF InBlock
        <5>2. q \in G
          BY <1>1, <2>1
        <5>3. QED
          BY <5>1, <5>2
      <4>3. CASE h # page
        BY <2>1, <2>4, <4>1, <4>3 DEF InBlock
      <4>4. QED
        BY <4>2, <4>3
    <3>2. ASSUME NEW h \in G, InBlock(s, h, p) PROVE p \in F \ run
      <4>1. CASE h = q
        <5>0. p \in Nat /\ q <= p /\ p < q + s[q] /\ q + s[q] = page + size[page]
          BY <1>1, <2>1, <2>4, <3>2, <4>1 DEF InBlock
        <5>1. InBlock(size, page, p) /\ ~(p < page + n)
          BY <1>1, <2>1, <5>0 DEF InBlock
        <5>2. QED
          BY <1>1, <1>2, <5>1 DEF Tiled
      <4>2. CASE h # q
        <5>1. h \in H /\ h # page /\ InBlock(size, h, p) /\ h \in Nat /\ size[h] \in Nat
          BY <1>1, <2>1, <2>4, <3>2, <4>2 DEF InBlock
        <5>2. p \in F
          BY <5>1 DEF Tiled
        <5>3. CASE h < page
          <6>1. h + size[h] < page
            BY <5>1, <5>3 DEF Tiled
          <6>2. QED
            BY <1>1, <1>2, <5>1, <5>2, <6>1 DEF InBlock
        <5>4. CASE page < h
          <6>1. page + size[page] < h
            BY <5>1, <5>4 DEF Tiled
          <6>2. QED
            BY <1>1, <1>2, <5>1, <5>2, <6>1 DEF InBlock
        <5>5. QED
          BY <1>1, <5>1, <5>3, <5>4
      <4>3. QED
        BY <4>1, <4>2
    <3>3. QED
      BY <3>1, <3>2
  <2>9. Tiled(s, G, F \ run, {})
    BY <2>4, <2>5, <2>6, <2>7, <2>8 DEF Tiled
  <2>10. QED
    BY <2>1, <2>2, <2>3, <2>9
<1>5. ASSUME size[page] = n PROVE Tiled(size, H \ {page}, F \ run, {})
  <2>1. ASSUME NEW p \in Page PROVE p \in F \ run <=> \E h \in H \ {page} : InBlock(size, h, p)
    <3>1. ASSUME p \in F \ run PROVE \E h \in H \ {page} : InBlock(size, h, p)
      <4>1. PICK h \in H : InBlock(size, h, p)
        BY <3>1 DEF Tiled
      <4>2. h # page
        BY <1>1, <1>2, <1>5, <3>1, <4>1 DEF InBlock
      <4>3. QED
        BY <4>1, <4>2
    <3>2. ASSUME NEW h \in H \ {page}, InBlock(size, h, p) PROVE p \in F \ run
      <4>1. p \in F /\ h \in Nat /\ size[h] \in Nat
        BY <1>1, <3>2 DEF Tiled
      <4>2. h + size[h] < page \/ page + size[page] < h
        BY <1>1, <4>1 DEF Tiled
      <4>3. QED
        BY <1>1, <1>2, <1>5, <3>2, <4>1, <4>2 DEF InBlock
    <3>3. QED
      BY <3>1, <3>2
  <2>2. QED
    BY <2>1 DEF Tiled
<1>6. QED
  BY <1>3, <1>4, <1>5 DEF IsCut

\* A run of pages that was not free becomes a block, which may touch its neighbours.
LEMMA AddTiled ==
    ASSUME NEW size, NEW H, NEW F, Tiled(size, H, F, {}), NEW base \in Page,
           NEW n \in Nat, n >= 1, base + n <= NPAGE + 1,
           NEW run, run = base .. base + n - 1, run \cap F = {}
    PROVE  /\ base \notin H
           /\ Tiled([size EXCEPT ![base] = n], H \cup {base}, F \cup run, {base, base + n})
<1>1. /\ NPAGE \in Nat
      /\ \A p \in Page : p \in Nat /\ p >= 1 /\ p <= NPAGE /\ size[p] \in Nat
      /\ \A p \in Nat : p >= 1 /\ p <= NPAGE => p \in Page
      /\ \A h \in H : h \in Page /\ h \in Nat /\ size[h] \in Nat /\ h >= 1
      /\ base \in Nat /\ base >= 1
  BY TiledTypes
<1>2. \A p \in Nat : p \in run <=> base <= p /\ p < base + n
  BY <1>1
<1>3. \A h \in H : h \in F /\ h \notin run
  BY <1>1 DEF Tiled, InBlock
<1>4. base \in run /\ base \notin H /\ base \notin F
  BY <1>1, <1>2, <1>3
<1>5. PICK s, G : s = [size EXCEPT ![base] = n] /\ G = H \cup {base}
  OBVIOUS
<1>6. s \in [Page -> 0..NPAGE] /\ s[base] = n /\ \A h \in H : s[h] = size[h]
  <2>1. size \in [Page -> 0..NPAGE] /\ n \in 0..NPAGE
    BY <1>1 DEF Tiled
  <2>2. QED
    BY <1>1, <1>4, <1>5, <2>1
<1>7. G \subseteq Page /\ F \cup run \subseteq Page
  <2>1. run \subseteq Page
    BY <1>1
  <2>2. QED
    BY <1>1, <1>5, <2>1 DEF Tiled
<1>8. \A h \in G : s[h] >= 1 /\ h + s[h] <= NPAGE + 1
  BY <1>1, <1>5, <1>6 DEF Tiled
<1>9. ASSUME NEW h \in G, NEW g \in G, h < g
      PROVE  h + s[h] < g \/ (h + s[h] = g /\ g \in {base, base + n})
  <2>1. CASE h = base
    <3>1. g \in H /\ g \in Nat /\ g \notin run
      BY <1>1, <1>3, <1>5, <1>9, <2>1
    <3>2. QED
      BY <1>1, <1>2, <1>6, <1>9, <2>1, <3>1
  <2>2. CASE g = base
    <3>1. h \in H /\ h \in Nat /\ s[h] = size[h] /\ size[h] \in Nat
      BY <1>1, <1>5, <1>6, <1>9, <2>2
    <3>2. ~(base < h + size[h])
      BY <1>1, <1>4, <1>9, <2>2, <3>1 DEF Tiled, InBlock
    <3>3. QED
      BY <1>1, <2>2, <3>1, <3>2
  <2>3. CASE h # base /\ g # base
    BY <1>5, <1>6, <1>9, <2>3 DEF Tiled
  <2>4. QED
    BY <2>1, <2>2, <2>3
<1>10. ASSUME NEW p \in Page PROVE p \in F \cup run <=> \E h \in G : InBlock(s, h, p)
  <2>1. p \in run <=> InBlock(s, base, p)
    BY <1>1, <1>2, <1>6 DEF InBlock
  <2>2. p \in F <=> \E h \in H : InBlock(s, h, p)
    BY <1>6 DEF Tiled, InBlock
  <2>3. QED
    BY <1>5, <2>1, <2>2
<1>11. QED
  BY <1>4, <1>5, <1>6, <1>7, <1>8, <1>9, <1>10 DEF Tiled

\* A block is joined to the one right below it.
LEMMA JoinTiled ==
    ASSUME NEW size, NEW H, NEW F, NEW seam, Tiled(size, H, F, seam),
           NEW p \in H, NEW q \in H, p + size[p] = q
    PROVE  Tiled([size EXCEPT ![p] = @ + size[q]], H \ {q}, F, seam \ {q})
<1>1. /\ NPAGE \in Nat
      /\ \A x \in Page : x \in Nat /\ x >= 1 /\ x <= NPAGE /\ size[x] \in Nat
      /\ \A h \in H : h \in Page /\ h \in Nat /\ size[h] \in Nat /\ h >= 1
      /\ \A h \in H : size[h] >= 1 /\ h + size[h] <= NPAGE + 1
      /\ p \in Nat /\ q \in Nat /\ size[p] \in Nat /\ size[q] \in Nat /\ p < q /\ p \in Page
  <2>1. size[p] >= 1
    BY DEF Tiled
  <2>2. /\ NPAGE \in Nat
        /\ \A x \in Page : x \in Nat /\ x >= 1 /\ x <= NPAGE /\ size[x] \in Nat
        /\ \A h \in H : h \in Page /\ h \in Nat /\ size[h] \in Nat /\ h >= 1
    BY TiledTypes
  <2>3. \A h \in H : size[h] >= 1 /\ h + size[h] <= NPAGE + 1
    BY DEF Tiled
  <2>4. QED
    BY <2>1, <2>2, <2>3
<1>2. PICK s, G : s = [size EXCEPT ![p] = size[p] + size[q]] /\ G = H \ {q}
  OBVIOUS
<1>3. s \in [Page -> 0..NPAGE] /\ s[p] = size[p] + size[q] /\ \A h \in H : h # p => s[h] = size[h]
  <2>1. size \in [Page -> 0..NPAGE] /\ size[p] + size[q] \in 0..NPAGE
    BY <1>1 DEF Tiled
  <2>2. QED
    BY <1>1, <1>2, <2>1
<1>4. \A h \in G : s[h] >= 1 /\ h + s[h] <= NPAGE + 1
  BY <1>1, <1>2, <1>3
<1>5. ASSUME NEW h \in G, NEW g \in G, h < g
      PROVE  h + s[h] < g \/ (h + s[h] = g /\ g \in seam \ {q})
  <2>1. h \in H /\ g \in H /\ g # q /\ h \in Nat /\ g \in Nat
    BY <1>1, <1>2
  <2>2. CASE h = p
    <3>1. p + size[p] <= g
      BY <1>1, <1>5, <2>1, <2>2 DEF Tiled
    <3>2. q < g
      BY <1>1, <2>1, <3>1
    <3>3. q + size[q] < g \/ (q + size[q] = g /\ g \in seam)
      BY <2>1, <3>2 DEF Tiled
    <3>4. QED
      BY <1>1, <1>3, <2>1, <2>2, <3>3
  <2>3. CASE h # p
    BY <1>3, <1>5, <2>1, <2>3 DEF Tiled
  <2>4. QED
    BY <2>2, <2>3
<1>6. ASSUME NEW x \in Page PROVE x \in F <=> \E h \in G : InBlock(s, h, x)
  <2>1. InBlock(s, p, x) <=> InBlock(size, p, x) \/ InBlock(size, q, x)
    BY <1>1, <1>3 DEF InBlock
  <2>2. \A h \in H : h # p => (InBlock(s, h, x) <=> InBlock(size, h, x))
    BY <1>3 DEF InBlock
  <2>3. p \in G
    BY <1>1, <1>2
  <2>4. x \in F <=> \E h \in H : InBlock(size, h, x)
    BY DEF Tiled
  <2>5. QED
    BY <1>2, <2>1, <2>2, <2>3, <2>4
<1>7. QED
  BY <1>2, <1>3, <1>4, <1>5, <1>6 DEF Tiled

\* Where no block ends right below q, there is no seam at q.
LEMMA LoneTiled ==
    ASSUME NEW size, NEW H, NEW F, NEW seam, Tiled(size, H, F, seam), NEW q,
           \A h \in H : h < q => h + size[h] # q
    PROVE  Tiled(size, H, F, seam \ {q})
BY DEF Tiled

\* A run of free pages lies in one block.
LEMMA RunInOneBlock ==
    ASSUME NEW size, NEW H, NEW F, Tiled(size, H, F, {}), NEW b \in Page,
           NEW n \in Nat, n >= 1, b .. b + n - 1 \subseteq F
    PROVE  \E h \in H : h <= b /\ b + n <= h + size[h]
<1>1. /\ NPAGE \in Nat
      /\ \A x \in Page : x \in Nat /\ x >= 1 /\ x <= NPAGE /\ size[x] \in Nat
      /\ \A h \in H : h \in Page /\ h \in Nat /\ size[h] \in Nat /\ h >= 1
      /\ \A h \in H : h + size[h] \in Nat /\ b \in Nat
  BY TiledTypes
<1>2. \A x \in Nat : b <= x /\ x < b + n => x \in F /\ x \in Page
  BY <1>1 DEF Tiled
<1>3. PICK h \in H : InBlock(size, h, b)
  BY <1>1, <1>2 DEF Tiled
<1>4. SUFFICES ASSUME ~(b + n <= h + size[h]) PROVE FALSE
  BY <1>3 DEF InBlock
<1>5. PICK e \in Nat : e = h + size[h]
  BY <1>1
<1>6. e \in F /\ e \in Page
  BY <1>1, <1>2, <1>3, <1>4, <1>5 DEF InBlock
<1>7. PICK g \in H : InBlock(size, g, e)
  BY <1>6 DEF Tiled
<1>8. h \in Nat /\ g \in Nat /\ size[h] \in Nat /\ size[g] \in Nat
  BY <1>1
<1>9. CASE g < h
  <2>1. g + size[g] < h
    BY <1>9 DEF Tiled
  <2>2. QED
    BY <1>5, <1>7, <1>8, <2>1 DEF InBlock
<1>10. CASE h < g
  <2>1. h + size[h] < g
    BY <1>10 DEF Tiled
  <2>2. QED
    BY <1>5, <1>7, <1>8, <2>1 DEF InBlock
<1>11. CASE h = g
  BY <1>5, <1>7, <1>8, <1>11 DEF InBlock
<1>12. QED
  BY <1>8, <1>9, <1>10, <1>11

-----------------------------------------------------------------------------
(* The list and the blocks together, as default_free_pages changes them.   *)

\* What is left of a split block takes its place in the list.
LEMMA SplitLinked ==
    ASSUME NEW l, NEW H, Linked(l, H), NEW size, NEW F, Tiled(size, H, F, {}),
           NEW page \in H, NEW n \in Nat, n >= 1, n < size[page],
           NEW q \in Page, q = page + n
    PROVE  Linked(Split(ListDel(l, page), l.prev[page], q), (H \cup {q}) \ {page})
<1>1. /\ NPAGE \in Nat /\ H \subseteq Nat /\ H \subseteq Page
      /\ \A h \in H : 1 <= h /\ h <= NPAGE /\ h # 0
  BY EntriesAre
<1>2. \A h \in H : size[h] \in Nat
  BY TiledTypes
<1>3. PICK m, a, b : m = ListDel(l, page) /\ a = l.prev[page] /\ b = m.next[a]
  OBVIOUS
<1>4. Linked(m, H \ {page})
  BY <1>3, DelLinked
<1>5. a \in (H \ {page}) \cup {0} /\ Precedes(H, page, a)
  <2>1. a \in H \cup {0} /\ a # page
    BY <1>1, <1>3, Neighbours
  <2>2. QED
    BY <1>1, <1>3, <2>1 DEF Linked, Place
<1>6. b \in (H \ {page}) \cup {0} /\ Follows(H \ {page}, a, b)
  <2>1. b \in (H \ {page}) \cup {0}
    BY <1>3, <1>4, <1>5, Neighbours
  <2>2. QED
    BY <1>3, <1>4, <1>5, <2>1 DEF Linked
<1>7. a \in Nat /\ b \in Nat /\ q \in Nat /\ page \in Nat /\ a < page
  BY <1>1, <1>5, <1>6 DEF Precedes
<1>8. a < q
  BY <1>7
<1>9. q < Place(b)
  <2>1. q <= NPAGE
    BY <1>1 DEF Page
  <2>2. CASE b = 0
    BY <1>1, <1>7, <2>1, <2>2 DEF Place
  <2>3. CASE b # 0
    <3>1. b \in H /\ b # page /\ a < b
      BY <1>6, <2>3 DEF Follows
    <3>2. page < b
      BY <1>5, <1>7, <3>1 DEF Precedes
    <3>3. page + size[page] < b
      BY <3>1, <3>2 DEF Tiled
    <3>4. QED
      BY <1>2, <1>7, <2>3, <3>3 DEF Place
  <2>4. QED
    BY <2>2, <2>3
<1>10. Linked(ListAdd(m, q, a, b), (H \ {page}) \cup {q})
  BY <1>3, <1>4, <1>5, <1>6, <1>8, <1>9, AddLinked
<1>11. (H \ {page}) \cup {q} = (H \cup {q}) \ {page}
  BY <1>7
<1>12. Split(m, a, q) = ListAdd(m, q, a, b)
  BY <1>3 DEF Split, ListAddAfter
<1>13. QED
  BY <1>3, <1>10, <1>11, <1>12

\* The loop of default_free_pages finds the place of base, because some block lies above.
LEMMA InsertLinked ==
    ASSUME NEW l, NEW H, Linked(l, H), NEW size, NEW F, Tiled(size, H, F, {}),
           NEW base \in Page, base \notin F, NPAGE \in F
    PROVE  Linked(Insert(l, base), H \cup {base})
<1>1. /\ NPAGE \in Nat /\ H \subseteq Nat /\ H \subseteq Page
      /\ \A h \in H : 1 <= h /\ h <= NPAGE /\ h # 0
  BY EntriesAre
<1>2. base \in Nat /\ base >= 1 /\ base <= NPAGE /\ base \notin H
  <2>1. base \in Nat /\ base >= 1 /\ base <= NPAGE
    BY <1>1 DEF Page
  <2>2. \A h \in H : h \in F
    <3>1. \A h \in H : size[h] >= 1 /\ size[h] \in Nat /\ h \in Nat /\ h \in Page
      BY TiledTypes DEF Tiled
    <3>2. \A h \in H : InBlock(size, h, h)
      BY <3>1 DEF InBlock
    <3>3. QED
      BY <3>1, <3>2 DEF Tiled
  <2>3. QED
    BY <2>1, <2>2
<1>3. PICK bs : bs = Blocks(l) /\ IsWalk(bs, l, H)
  BY BlocksWalk
<1>4. /\ bs \in Seq(Page) /\ Len(bs) \in Nat /\ DOMAIN bs = 1..Len(bs)
      /\ \A i \in 1..Len(bs) : bs[i] \in H
      /\ \A h \in H : \E i \in 1..Len(bs) : bs[i] = h
      /\ \A i, j \in 1..Len(bs) : i < j => bs[i] < bs[j]
  BY <1>3 DEF IsWalk, Range
<1>5. PICK above : above = {i \in DOMAIN bs : base < bs[i]}
  OBVIOUS
<1>6. above # {}
  <2>1. NPAGE \in Page
    BY DEF Tiled
  <2>2. PICK h \in H : InBlock(size, h, NPAGE)
    BY <2>1 DEF Tiled
  <2>3. ~InBlock(size, h, base)
    BY DEF Tiled
  <2>4. base < h
    <3>1. size[h] \in Nat
      BY TiledTypes
    <3>2. QED
      BY <1>1, <1>2, <2>2, <2>3, <3>1 DEF InBlock
  <2>5. QED
    BY <1>4, <1>5, <2>4
<1>7. bs # <<>>
  BY <1>5, <1>6
<1>8. PICK first : first = CHOOSE i \in above : \A j \in above : i <= j
  OBVIOUS
<1>9. first \in above /\ \A j \in above : first <= j
  <2>1. above \subseteq Nat
    BY <1>4, <1>5
  <2>2. \E i \in above : \A j \in above : i <= j
    BY <1>6, <2>1, LeastNatural
  <2>3. QED
    BY <1>8, <2>2
<1>10. PICK b, a : b = bs[first] /\ a = l.prev[b]
  OBVIOUS
<1>11. b \in H /\ base < b /\ first \in 1..Len(bs)
  BY <1>4, <1>5, <1>9, <1>10
<1>12. a \in H \cup {0} /\ l.next[a] = b /\ Precedes(H, b, a)
  <2>1. a \in H \cup {0} /\ l.next[a] = b
    BY <1>10, <1>11, Neighbours
  <2>2. QED
    BY <1>1, <1>10, <1>11, <2>1 DEF Linked, Place
<1>13. a < base
  <2>1. SUFFICES ASSUME a \in H, ~(a < base) PROVE FALSE
    BY <1>2, <1>12
  <2>2. PICK j \in 1..Len(bs) : bs[j] = a
    BY <1>4, <2>1
  <2>3. base < a /\ a < b /\ a \in Nat /\ b \in Nat
    BY <1>1, <1>2, <1>11, <1>12, <2>1 DEF Precedes
  <2>4. j \in above /\ first <= j
    BY <1>4, <1>5, <1>9, <2>2, <2>3
  <2>5. first = j \/ bs[first] < bs[j]
    BY <1>4, <1>11, <2>2, <2>4
  <2>6. QED
    BY <1>10, <2>2, <2>3, <2>5
<1>14. Linked(ListAdd(l, base, a, b), H \cup {base})
  <2>1. base < Place(b)
    BY <1>1, <1>11 DEF Place
  <2>2. QED
    BY <1>11, <1>12, <1>13, <2>1, AddLinked
<1>15. Insert(l, base) = ListAddBefore(l, bs[first], base)
  BY <1>3, <1>5, <1>6, <1>7, <1>8 DEF Insert
<1>16. Insert(l, base) = ListAdd(l, base, a, b)
  BY <1>10, <1>15 DEF ListAddBefore
<1>17. QED
  BY <1>14, <1>16

\* What the free list and the blocks are while default_free_pages works on them.
Sound(a, F, seam) ==
    /\ a = Area(a.links, a.property, a.heads)
    /\ Linked(a.links, a.heads)
    /\ Tiled(a.property, a.heads, F, seam)

\* A block is taken off the list and joined to the one below it.
LEMMA JoinSound ==
    ASSUME NEW a, NEW F, NEW seam, Sound(a, F, seam), NEW p \in a.heads, NEW q \in a.heads,
           p + a.property[p] = q
    PROVE  /\ Sound(Join(a, p, q), F, seam \ {q})
           /\ Join(a, p, q).heads = a.heads \ {q}
           /\ Join(a, p, q).property[p] = a.property[p] + a.property[q]
<1>1. PICK b : b = Join(a, p, q)
  OBVIOUS
<1>2. /\ b = Area(b.links, b.property, b.heads)
      /\ b.links = ListDel(a.links, q) /\ b.heads = a.heads \ {q}
      /\ b.property = [a.property EXCEPT ![p] = @ + a.property[q]]
  BY <1>1 DEF Join, Area
<1>3. Linked(b.links, b.heads)
  BY <1>2, DelLinked DEF Sound
<1>4. Tiled(b.property, b.heads, F, seam \ {q})
  BY <1>2, JoinTiled DEF Sound
<1>5. b.property[p] = a.property[p] + a.property[q]
  <2>1. a.property \in [Page -> 0..NPAGE] /\ p \in Page
    BY DEF Sound, Tiled
  <2>2. QED
    BY <1>2, <2>1
<1>6. QED
  BY <1>1, <1>2, <1>3, <1>4, <1>5 DEF Sound

\* The block top ends where page w begins, and only there two blocks may touch.
Based(b, F, w, top) ==
    Sound(b, F, {w}) /\ top \in b.heads /\ top + b.property[top] = w

\* The new block base, which ends where page w begins, is joined to the one below it.
LEMMA LowerJoined ==
    ASSUME NEW a, NEW F, NEW base \in a.heads, NEW w \in Nat, Sound(a, F, {base, w}),
           base + a.property[base] = w,
           NEW low, low = a.links.prev[base],
           NEW b, b = IF Adjacent(a, low, base) THEN Join(a, low, base) ELSE a,
           NEW top, top = IF Adjacent(a, low, base) THEN low ELSE base
    PROVE  Based(b, F, w, top)
<1> USE DEF Based
<1>1. Linked(a.links, a.heads) /\ Tiled(a.property, a.heads, F, {base, w})
  BY DEF Sound
<1>2. /\ NPAGE \in Nat /\ a.heads \subseteq Nat
      /\ \A h \in a.heads : 1 <= h /\ h <= NPAGE /\ h # 0
  BY <1>1, EntriesAre
<1>3. \A h \in a.heads : a.property[h] \in Nat /\ a.property[h] >= 1
  BY <1>1, TiledTypes DEF Tiled
<1>4. low \in a.heads \cup {0} /\ Precedes(a.heads, base, low)
  <2>1. low \in a.heads \cup {0}
    BY <1>1, Neighbours
  <2>2. QED
    BY <1>1, <1>2, <2>1 DEF Linked, Place
<1>5. CASE Adjacent(a, low, base)
  <2>1. low \in a.heads /\ low + a.property[low] = base
    BY <1>4, <1>5 DEF Adjacent
  <2>2. /\ Sound(Join(a, low, base), F, {base, w} \ {base})
        /\ Join(a, low, base).heads = a.heads \ {base}
        /\ Join(a, low, base).property[low] = a.property[low] + a.property[base]
    BY <2>1, JoinSound
  <2>3. b = Join(a, low, base) /\ top = low
    BY <1>5
  <2>4. {base, w} \ {base} = {w}
    BY <1>2, <1>3
  <2>5. low # base /\ low \in Nat /\ base \in Nat
    BY <1>2, <1>3, <2>1
  <2>6. PICK x \in Nat, y \in Nat : x = a.property[low] /\ y = a.property[base]
    BY <1>3, <2>1
  <2>7. low + (x + y) = w
    BY <2>1, <2>5, <2>6
  <2>8. QED
    BY <2>1, <2>2, <2>3, <2>4, <2>5, <2>6, <2>7
<1>6. CASE ~Adjacent(a, low, base)
  <2>1. b = a /\ top = base
    BY <1>6
  <2>2. ASSUME NEW h \in a.heads, h < base PROVE h + a.property[h] # base
    <3>1. h <= low /\ low < base /\ low # 0 /\ low \in a.heads /\ low \in Nat /\ h \in Nat
      BY <1>2, <1>4, <2>2 DEF Precedes
    <3>2. CASE h = low
      BY <1>2, <1>6, <3>1, <3>2 DEF Adjacent
    <3>3. CASE h < low
      <4>1. h + a.property[h] <= low
        BY <1>1, <1>2, <1>3, <3>1, <3>3 DEF Tiled
      <4>2. QED
        BY <1>2, <1>3, <3>1, <4>1
    <3>4. QED
      BY <3>1, <3>2, <3>3
  <2>3. Tiled(a.property, a.heads, F, {base, w} \ {base})
    BY <1>1, <2>2, LoneTiled
  <2>4. {base, w} \ {base} = {w}
    BY <1>2, <1>3
  <2>5. QED
    BY <2>1, <2>3, <2>4 DEF Sound
<1>7. QED
  BY <1>5, <1>6

\* The block top, which ends where page w begins, is joined to the one above it.
LEMMA UpperJoined ==
    ASSUME NEW b, NEW F, NEW w \in Nat, Sound(b, F, {w}), NEW top \in b.heads,
           top + b.property[top] = w,
           NEW high, high = b.links.next[top],
           NEW c, c = IF Adjacent(b, top, high) THEN Join(b, top, high) ELSE b
    PROVE  Sound(c, F, {})
<1>1. Linked(b.links, b.heads) /\ Tiled(b.property, b.heads, F, {w})
  BY DEF Sound
<1>2. /\ NPAGE \in Nat /\ b.heads \subseteq Nat
      /\ \A h \in b.heads : 1 <= h /\ h <= NPAGE /\ h # 0
  BY <1>1, EntriesAre
<1>3. \A h \in b.heads : b.property[h] \in Nat /\ b.property[h] >= 1
  BY <1>1, TiledTypes DEF Tiled
<1>4. high \in b.heads \cup {0} /\ Follows(b.heads, top, high)
  <2>1. high \in b.heads \cup {0}
    BY <1>1, Neighbours
  <2>2. QED
    BY <1>1, <2>1 DEF Linked
<1>5. CASE Adjacent(b, top, high)
  <2>1. high = w /\ high \in b.heads
    BY <1>4, <1>5 DEF Adjacent
  <2>2. Sound(Join(b, top, high), F, {w} \ {high})
    BY <2>1, JoinSound
  <2>3. {w} \ {high} = {}
    BY <2>1
  <2>4. QED
    BY <1>5, <2>2, <2>3
<1>6. CASE ~Adjacent(b, top, high)
  <2>1. high # w \/ high = 0
    BY <1>2, <1>6 DEF Adjacent
  <2>2. w \notin b.heads
    <3>1. SUFFICES ASSUME w \in b.heads PROVE FALSE
      OBVIOUS
    <3>2. top < w /\ top \in Nat
      BY <1>2, <1>3
    <3>3. high # 0 /\ high \in b.heads /\ top < high /\ high <= w /\ high \in Nat
      BY <1>2, <1>4, <3>1, <3>2 DEF Follows
    <3>4. w <= high
      BY <1>1, <1>2, <1>3, <3>3 DEF Tiled
    <3>5. QED
      BY <2>1, <3>3, <3>4
  <2>3. Tiled(b.property, b.heads, F, {})
    BY <1>1, <2>2 DEF Tiled
  <2>4. c = b
    BY <1>6
  <2>5. QED
    BY <2>3, <2>4 DEF Sound
<1>7. QED
  BY <1>5, <1>6

-----------------------------------------------------------------------------
(* The invariant, and the steps that keep it.                              *)

\* The inductive invariant: the list links the heads, the blocks tile the free pages,
\* and the pages that clients leave free are free.
ListInv ==
    /\ Linked(links, heads)
    /\ Tiled(property, heads, Page \ held, {})
    /\ held \subseteq 1..NPAGE - Headroom
    /\ nr_free = Cardinality(Page \ held)
    /\ ret \in Entry

\* Both allocators take the first n pages of the block page.
Taking(page, n) ==
    /\ page \in heads /\ property[page] >= n
    /\ page + n - 1 <= NPAGE - Headroom
    /\ IF property[page] > n
       THEN /\ property' = [property EXCEPT ![page + n] = Rest(page, n)]
            /\ heads' = (heads \cup {page + n}) \ {page}
            /\ links' = Split(ListDel(links, page), links.prev[page], page + n)
       ELSE /\ heads' = heads \ {page}
            /\ links' = ListDel(links, page)
            /\ UNCHANGED property
    /\ nr_free' = nr_free - n
    /\ held' = held \cup page .. page + n - 1
    /\ ret' = page

\* Some numbers.
LEMMA PageTypes ==
    /\ NPAGE \in Nat /\ NPAGE >= 1 /\ Headroom \in Nat /\ Headroom <= NPAGE
    /\ \A p \in Page : p \in Nat /\ p >= 1 /\ p <= NPAGE /\ p \in Entry
    /\ \A p \in Nat : p >= 1 /\ p <= NPAGE => p \in Page
    /\ \A n \in Page : n \in Nat /\ n >= 1
    /\ IsFiniteSet(Page)
<1>1. NPAGE \in Nat /\ NPAGE >= 1 /\ Headroom \in Nat /\ Headroom <= NPAGE
  BY SizeAssumption
<1>2. IsFiniteSet(Page)
  BY <1>1, FS_Interval DEF Page
<1>3. QED
  BY <1>1, <1>2 DEF Page, Entry

\* The count of the pages in F, with the n pages of run and without them.
Counted(F, n, run) ==
    /\ Cardinality(F) \in Nat /\ Cardinality(F) <= NPAGE
    /\ run \subseteq F => Cardinality(F \ run) = Cardinality(F) - n
    /\ run \cap F = {} => Cardinality(F \cup run) = Cardinality(F) + n
    /\ run \subseteq F => n <= Cardinality(F)

\* Taking a run of pages out of a set of pages, or putting one in, changes the count by
\* its length.
LEMMA CountRun ==
    ASSUME NEW F, F \subseteq Page, NEW b \in Nat, NEW n \in Nat, NEW run,
           run = b .. b + n - 1
    PROVE  Counted(F, n, run)
<1>1. IsFiniteSet(F) /\ Cardinality(F) <= NPAGE
  <2>1. Cardinality(Page) = NPAGE
    BY PageTypes, FS_Interval DEF Page
  <2>2. QED
    BY <2>1, PageTypes, FS_Subset
<1>2. Cardinality(F) \in Nat
  BY <1>1, FS_CardinalityType
<1>3. IsFiniteSet(run) /\ Cardinality(run) = n
  <2>1. PICK c \in Int : c = b + n - 1
    OBVIOUS
  <2>2. IsFiniteSet(b..c) /\ Cardinality(b..c) = IF b > c THEN 0 ELSE c-b+1
    BY FS_Interval
  <2>3. QED
    BY <2>1, <2>2
<1>4. ASSUME run \subseteq F PROVE Cardinality(F \ run) = Cardinality(F) - n
  <2>1. F \cap run = run
    BY <1>4
  <2>2. Cardinality(F \ run) = Cardinality(F) - Cardinality(F \cap run)
    BY <1>1, FS_Difference, Zenon
  <2>3. Cardinality(F \cap run) = n
    BY <1>3, <2>1, Zenon
  <2>4. QED
    BY <2>2, <2>3, Zenon
<1>5. ASSUME run \cap F = {} PROVE Cardinality(F \cup run) = Cardinality(F) + n
  <2>1. F \cap run = {}
    BY <1>5
  <2>2. Cardinality({}) = 0
    BY FS_EmptySet
  <2>3. Cardinality(F \cup run) = Cardinality(F) + Cardinality(run) - Cardinality(F \cap run)
    BY <1>1, <1>3, FS_Union, Zenon
  <2>4. Cardinality(F \cap run) = 0
    BY <2>1, <2>2, Zenon
  <2>5. PICK x : x = Cardinality(F \cup run)
    OBVIOUS
  <2>6. x = Cardinality(F) + n - 0
    BY <1>3, <2>3, <2>4, <2>5, Zenon
  <2>7. x = Cardinality(F) + n
    BY <1>2, <2>6
  <2>8. QED
    BY <2>5, <2>7, Zenon
<1>6. run \subseteq F => n <= Cardinality(F)
  BY <1>1, <1>3, FS_Subset
<1>7. QED
  BY <1>1, <1>2, <1>4, <1>5, <1>6 DEF Counted

\* default_init and default_init_memmap make one block of all pages.
LEMMA InitListed == FirstFitInit => ListInv
<1> SUFFICES ASSUME FirstFitInit PROVE ListInv
  OBVIOUS
<1> USE PageTypes
<1>1. Linked(links, heads)
  <2>1. heads = {1} /\ heads \subseteq Page /\ 0 \in Entry /\ 1 \in Entry
    BY DEF FirstFitInit, Page, Entry
  <2>2. links \in [next : [Entry -> Entry], prev : [Entry -> Entry]]
    BY <2>1 DEF FirstFitInit
  <2>3. \A e \in Entry : links.next[e] = IF e = 0 THEN 1 ELSE 0
    BY DEF FirstFitInit
  <2>4. \A e \in Entry : links.prev[e] = IF e = 0 THEN 1 ELSE 0
    BY DEF FirstFitInit
  <2>5. Follows(heads, 0, 1) /\ Follows(heads, 1, 0)
    BY <2>1 DEF Follows
  <2>6. Precedes(heads, Place(0), 1) /\ Precedes(heads, Place(1), 0)
    BY <2>1 DEF Precedes, Place
  <2>7. QED
    BY <2>1, <2>2, <2>3, <2>4, <2>5, <2>6 DEF Linked
<1>2. held = {} /\ Page \ held = Page
  BY DEF FirstFitInit
<1>3. Tiled(property, heads, Page \ held, {})
  <2>1. property = [p \in Page |-> IF p = 1 THEN NPAGE ELSE 0] /\ heads = {1} /\ 1 \in Page
    BY DEF FirstFitInit
  <2>2. property \in [Page -> 0..NPAGE] /\ property[1] = NPAGE
    BY <2>1
  <2>3. \A p \in Page : InBlock(property, 1, p)
    BY <2>2 DEF InBlock
  <2>4. QED
    BY <1>2, <2>1, <2>2, <2>3 DEF Tiled
<1>4. nr_free = Cardinality(Page \ held)
  BY <1>2, FS_Interval DEF FirstFitInit, Page
<1>5. QED
  BY <1>1, <1>2, <1>3, <1>4 DEF ListInv, FirstFitInit, Entry

\* An allocation keeps the list exact.
LEMMA TakingKeeps ==
    ASSUME ListInv, NEW n \in Page, NEW page, Taking(page, n)
    PROVE  /\ ListInv'
           /\ page \in Page /\ page .. page + n - 1 \subseteq Page \ held
<1> USE PageTypes
<1>1. /\ page \in heads /\ page \in Page /\ page \in Nat /\ n \in Nat /\ n >= 1
      /\ property[page] >= n /\ property[page] \in Nat /\ page + n - 1 <= NPAGE - Headroom
  <2>1. page \in heads /\ property[page] >= n /\ page + n - 1 <= NPAGE - Headroom
    BY DEF Taking
  <2>2. page \in Page /\ property[page] \in Nat
    BY <2>1, TiledTypes DEF ListInv
  <2>3. QED
    BY <2>1, <2>2
<1>2. PICK run, F : run = page .. page + n - 1 /\ F = Page \ held
  OBVIOUS
<1>3. Linked(links, heads) /\ Tiled(property, heads, F, {})
  BY <1>2 DEF ListInv
<1>4. /\ property[page] > n =>
            /\ page + n \in Page /\ page + n \notin heads
            /\ Tiled([property EXCEPT ![page + n] = property[page] - n],
                     (heads \cup {page + n}) \ {page}, F \ run, {})
      /\ property[page] = n => Tiled(property, heads \ {page}, F \ run, {})
      /\ run \subseteq F
  <2>1. IsCut(property, heads, F, page, n, run)
    BY <1>1, <1>2, <1>3, CutTiled, Zenon
  <2>2. QED
    BY <2>1, Zenon DEF IsCut
<1>5. F \ run = Page \ held'
  BY <1>2 DEF Taking
<1>6. Linked(links', heads') /\ Tiled(property', heads', F \ run, {})
  <2>1. CASE property[page] > n
    <3>1. PICK q \in Page : q = page + n
      BY <1>4, <2>1
    <3>2. Linked(Split(ListDel(links, page), links.prev[page], q), (heads \cup {q}) \ {page})
      BY <1>1, <1>3, <2>1, <3>1, SplitLinked
    <3>3. QED
      BY <1>4, <2>1, <3>1, <3>2 DEF Taking, Rest
  <2>2. CASE ~(property[page] > n)
    <3>1. property[page] = n
      BY <1>1, <2>2
    <3>2. Linked(ListDel(links, page), heads \ {page})
      BY <1>1, <1>3, DelLinked
    <3>3. QED
      BY <1>4, <2>2, <3>1, <3>2 DEF Taking
  <2>3. QED
    BY <2>1, <2>2
<1>7. held' \subseteq 1..NPAGE - Headroom
  <2>1. run \subseteq 1..NPAGE - Headroom
    BY <1>1, <1>2
  <2>2. QED
    BY <1>2, <2>1 DEF Taking, ListInv
<1>8. nr_free' = Cardinality(Page \ held')
  <2>0. Counted(F, n, run)
    <3>1. F \subseteq Page
      BY <1>2
    <3>2. QED
      BY <1>1, <1>2, <3>1, CountRun, Zenon
  <2>1. Cardinality(F \ run) = Cardinality(F) - n
    BY <1>4, <2>0 DEF Counted
  <2>2. QED
    BY <1>2, <1>5, <2>1 DEF Taking, ListInv
<1>9. ret' \in Entry
  BY <1>1 DEF Taking
<1>10. QED
  BY <1>1, <1>2, <1>4, <1>5, <1>6, <1>7, <1>8, <1>9 DEF ListInv

\* Giving back a run of pages keeps the list exact, as long as the top page stays free.
LEMMA FreeKeeps ==
    ASSUME Headroom # 0, ListInv, NEW n \in Page, NEW base \in Page, FreePages(base, n)
    PROVE  ListInv'
<1> USE PageTypes
<1>1. PICK run, F : run = base .. base + n - 1 /\ F = Page \ held
  BY Zenon
<1>2. /\ Linked(links, heads) /\ Tiled(property, heads, F, {}) /\ F \subseteq Page
      /\ run \subseteq held /\ run \cap heads = {} /\ held' = held \ run
      /\ nr_free' = nr_free + n /\ ret' = ret
  BY <1>1, Zenon DEF ListInv, FreePages
<1>3. held \subseteq Page /\ \A p \in held : p \in Nat /\ p <= NPAGE - Headroom
  BY DEF ListInv
<1>4. base \in Nat /\ n \in Nat /\ n >= 1 /\ base \in run /\ base + n - 1 \in run
  BY <1>1
<1>5. base + n <= NPAGE + 1 /\ base \notin F /\ NPAGE \in F /\ run \cap F = {}
  <2>1. base + n - 1 <= NPAGE /\ base \in held /\ NPAGE \notin held
    BY <1>2, <1>3, <1>4
  <2>2. NPAGE \in F
    BY <1>1, <2>1
  <2>3. base \notin F /\ run \cap F = {}
    BY <1>1, <1>2, <2>1
  <2>4. QED
    BY <1>4, <2>1, <2>2, <2>3
<1>6. PICK w \in Nat : w = base + n
  BY <1>4
<1>7. /\ base \notin heads
      /\ Tiled([property EXCEPT ![base] = n], heads \cup {base}, F \cup run, {base, w})
  <2> HIDE PageTypes
  <2>0. /\ Tiled(property, heads, F, {}) /\ n \in Nat /\ n >= 1 /\ base + n <= NPAGE + 1
        /\ run = base .. base + n - 1 /\ run \cap F = {}
    BY <1>1, <1>2, <1>4, <1>5, Zenon
  <2>1. /\ base \notin heads
        /\ Tiled([property EXCEPT ![base] = n], heads \cup {base}, F \cup run, {base, base + n})
    BY <2>0, AddTiled, Zenon
  <2>2. QED
    BY <1>6, <2>1, Zenon
<1>8. Linked(Insert(links, base), heads \cup {base})
  BY <1>2, <1>5, InsertLinked
<1>9. PICK a : a = Area(Insert(links, base), [property EXCEPT ![base] = n],
                        (heads \ run) \cup {base})
  OBVIOUS
<1>10. /\ a.links = Insert(links, base) /\ a.property = [property EXCEPT ![base] = n]
       /\ a.heads = heads \cup {base} /\ a = Area(a.links, a.property, a.heads)
  <2>1. (heads \ run) \cup {base} = heads \cup {base}
    BY <1>2
  <2>2. QED
    BY <1>9, <2>1 DEF Area
<1>11. Sound(a, F \cup run, {base, w})
  BY <1>7, <1>8, <1>10 DEF Sound
<1>12. base \in a.heads /\ base + a.property[base] = w
  <2>1. property \in [Page -> 0..NPAGE]
    BY <1>2 DEF Tiled
  <2>2. QED
    BY <1>6, <1>10, <2>1
<1>13. PICK low, b, top :
         /\ low = a.links.prev[base]
         /\ b = IF Adjacent(a, low, base) THEN Join(a, low, base) ELSE a
         /\ top = IF Adjacent(a, low, base) THEN low ELSE base
  OBVIOUS
<1>14. Sound(b, F \cup run, {w}) /\ top \in b.heads /\ top + b.property[top] = w
  <2>1. PICK G : G = F \cup run
    OBVIOUS
  <2>2. Sound(a, G, {base, w})
    BY <1>11, <2>1
  <2>3. /\ low = a.links.prev[base]
        /\ b = IF Adjacent(a, low, base) THEN Join(a, low, base) ELSE a
        /\ top = IF Adjacent(a, low, base) THEN low ELSE base
    BY <1>13
  <2>4. Based(b, G, w, top)
    BY <1>12, <2>2, <2>3, LowerJoined
  <2>5. QED
    BY <2>1, <2>4 DEF Based
<1>15. PICK high, c :
         /\ high = b.links.next[top]
         /\ c = IF Adjacent(b, top, high) THEN Join(b, top, high) ELSE b
  OBVIOUS
<1>16. Sound(c, F \cup run, {})
  BY <1>14, <1>15, UpperJoined
<1>17. links' = c.links /\ property' = c.property /\ heads' = c.heads
  BY <1>1, <1>9, <1>13, <1>15, Zenon DEF FreePages
<1>18. F \cup run = Page \ held'
  <2>1. run \subseteq Page
    BY <1>2, <1>3
  <2>2. QED
    BY <1>1, <1>2, <2>1
<1>19. nr_free' = Cardinality(Page \ held')
  <2>0. Counted(F, n, run)
    BY <1>1, <1>2, <1>4, CountRun, Zenon
  <2>1. Cardinality(F \cup run) = Cardinality(F) + n
    BY <1>5, <2>0 DEF Counted
  <2>2. QED
    BY <1>1, <1>2, <1>18, <2>1 DEF ListInv
<1>20. held' \subseteq 1..NPAGE - Headroom /\ ret' \in Entry
  BY <1>2 DEF ListInv
<1>21. QED
  BY <1>16, <1>17, <1>18, <1>19, <1>20 DEF ListInv, Sound

-----------------------------------------------------------------------------
(* What the invariant implies.                                             *)

\* The blocks of the list, as default_alloc_pages meets them.
LEMMA ListedBlocks ==
    ASSUME ListInv
    PROVE  \E bs \in Seq(Page) :
              /\ bs = Blocks(links) /\ IsWalk(bs, links, heads)
              /\ Len(bs) \in Nat /\ DOMAIN bs = 1..Len(bs)
              /\ \A i \in 1..Len(bs) : bs[i] \in heads
              /\ \A h \in heads : \E i \in 1..Len(bs) : bs[i] = h
              /\ \A i, j \in 1..Len(bs) : i < j => bs[i] < bs[j]
<1>1. PICK bs : bs = Blocks(links) /\ IsWalk(bs, links, heads)
  BY BlocksWalk DEF ListInv
<1>2. bs \in Seq(Page) /\ Range(bs) = heads
  BY <1>1 DEF IsWalk
<1>3. Len(bs) \in Nat /\ DOMAIN bs = 1..Len(bs)
  BY <1>2
<1>4. /\ \A i \in 1..Len(bs) : bs[i] \in heads
      /\ \A h \in heads : \E i \in 1..Len(bs) : bs[i] = h
  BY <1>2, <1>3 DEF Range
<1>5. \A i, j \in 1..Len(bs) : i < j => bs[i] < bs[j]
  BY <1>1 DEF IsWalk
<1>6. QED
  BY <1>1, <1>2, <1>3, <1>4, <1>5

\* prev leads from every entry of the ring to the one before it.
Backwards(l, ring) == \A i \in 1..Len(ring)-1 : l.prev[ring[i+1]] = ring[i]

\* prev walks the ring backwards.
LEMMA RingBackwards ==
    ASSUME NEW l, NEW H, Linked(l, H), NEW bs, IsWalk(bs, l, H),
           NEW ring, ring = << 0 >> \o bs \o << 0 >>
    PROVE  Backwards(l, ring)
<1>0. bs \in Seq(Page) /\ Range(bs) = H
  BY Zenon DEF IsWalk
<1>1. Len(bs) \in Nat /\ DOMAIN bs = 1..Len(bs)
  BY <1>0, Z3
<1>2. PICK n \in Nat : n = Len(bs)
  BY <1>1, Zenon
<1>3. /\ \A i \in 1..n : bs[i] \in H
      /\ \A i \in 1..n-1 : l.next[bs[i]] = bs[i+1]
      /\ n # 0 => l.next[0] = bs[1] /\ l.next[bs[n]] = 0
      /\ n = 0 => l.next[0] = 0
  BY <1>0, <1>2 DEF IsWalk, Range
<1>4. /\ Len(ring) = n + 2 /\ ring[1] = 0 /\ ring[n + 2] = 0
      /\ \A i \in 1..n : ring[i + 1] = bs[i]
  <2>1. bs \in Seq(Entry) /\ 0 \in Entry
    <3>1. Page \subseteq Entry /\ 0 \in Entry
      BY PageTypes DEF Entry
    <3>2. QED
      BY <1>0, <3>1
  <2>2. PICK c : c = <<0>> \o bs
    OBVIOUS
  <2>3. /\ c \in Seq(Entry) /\ Len(c) = n + 1 /\ c[1] = 0
        /\ \A i \in 1..n : c[i + 1] = bs[i]
    BY <1>2, <2>1, <2>2, RangeCons
  <2>4. ring = Append(c, 0)
    BY <2>1, <2>2, <2>3
  <2>5. Len(ring) = n + 2 /\ ring[n + 2] = 0 /\ \A i \in 1..n+1 : ring[i] = c[i]
    BY <2>1, <2>3, <2>4
  <2>6. QED
    BY <2>3, <2>5
<1>5. ASSUME NEW i \in 1..n+1 PROVE ring[i] \in H \cup {0} /\ l.next[ring[i]] = ring[i+1]
  <2>1. CASE i = 1
    <3>1. CASE n = 0
      BY <1>3, <1>4, <2>1, <3>1
    <3>2. CASE n # 0
      <4>1. ring[1 + 1] = bs[1]
        BY <1>4, <3>2
      <4>2. QED
        BY <1>3, <1>4, <2>1, <3>2, <4>1
    <3>3. QED
      BY <3>1, <3>2
  <2>2. CASE i # 1
    <3>1. PICK j \in 1..n : i = j + 1
      <4>1. i - 1 \in 1..n /\ i = (i - 1) + 1
        BY <2>2
      <4>2. QED
        BY <4>1
    <3>2. ring[i] = bs[j] /\ bs[j] \in H
      BY <1>3, <1>4, <3>1
    <3>3. CASE j = n
      <4>1. i + 1 = n + 2 /\ l.next[bs[n]] = 0
        BY <1>3, <3>1, <3>3
      <4>2. QED
        BY <1>4, <3>2, <3>3, <4>1
    <3>4. CASE j # n
      <4>1. j \in 1..n-1 /\ j + 1 \in 1..n /\ i + 1 = (j + 1) + 1
        BY <3>1, <3>4
      <4>2. l.next[bs[j]] = bs[j + 1] /\ ring[(j + 1) + 1] = bs[j + 1]
        BY <1>3, <1>4, <4>1
      <4>3. QED
        BY <3>2, <4>1, <4>2
    <3>5. QED
      BY <3>3, <3>4
  <2>3. QED
    BY <2>1, <2>2
<1>6. ASSUME NEW i \in 1..n+1 PROVE l.prev[ring[i+1]] = ring[i]
  <2>1. PICK e \in H \cup {0} : e = ring[i] /\ l.next[e] = ring[i+1]
    BY <1>5
  <2>2. l.prev[l.next[e]] = e
    BY Neighbours
  <2>3. QED
    BY <2>1, <2>2
<1>7. Len(ring) - 1 = n + 1
  BY <1>4
<1>8. QED
  BY <1>6, <1>7, Zenon DEF Backwards

\* The inductive invariant implies what the runs check.
LEMMA ListedExact == ListInv => TypeOK /\ FreeListExact
<1> SUFFICES ASSUME ListInv PROVE TypeOK /\ FreeListExact
  OBVIOUS
<1>1. PICK bs \in Seq(Page) :
              /\ bs = Blocks(links) /\ IsWalk(bs, links, heads)
              /\ Len(bs) \in Nat /\ DOMAIN bs = 1..Len(bs)
              /\ \A i \in 1..Len(bs) : bs[i] \in heads
              /\ \A h \in heads : \E i \in 1..Len(bs) : bs[i] = h
              /\ \A i, j \in 1..Len(bs) : i < j => bs[i] < bs[j]
  BY ListedBlocks
<1>2. PICK F : F = Page \ held
  OBVIOUS
<1>3. Linked(links, heads) /\ Tiled(property, heads, F, {}) /\ nr_free = Cardinality(F)
  BY <1>2 DEF ListInv
<1>4. Range(bs) = heads
  BY <1>1 DEF IsWalk
<1>5. /\ \A p \in Page : p \in Nat /\ property[p] \in Nat
      /\ \A p \in Nat : p >= 1 /\ p <= NPAGE => p \in Page
      /\ \A h \in heads : /\ h \in Page /\ h \in Nat /\ property[h] \in Nat /\ h >= 1
                          /\ h + property[h] <= NPAGE + 1
      /\ NPAGE \in Nat
  <2>1. /\ \A p \in Page : p \in Nat /\ property[p] \in Nat
        /\ \A p \in Nat : p >= 1 /\ p <= NPAGE => p \in Page
        /\ \A h \in heads : h \in Page /\ h \in Nat /\ property[h] \in Nat /\ h >= 1
        /\ NPAGE \in Nat
    BY <1>3, TiledTypes
  <2>2. QED
    BY <1>3, <2>1 DEF Tiled
<1>6. UNION {BlockPages(p) : p \in heads} = F
  <2>1. ASSUME NEW h \in heads, NEW p \in BlockPages(h) PROVE p \in F
    <3>1. p \in Nat /\ h <= p /\ p < h + property[h]
      BY <1>5, <2>1 DEF BlockPages
    <3>2. p \in Page /\ InBlock(property, h, p)
      BY <1>5, <3>1 DEF InBlock
    <3>3. QED
      BY <1>3, <3>2 DEF Tiled
  <2>2. ASSUME NEW p \in F PROVE \E h \in heads : p \in BlockPages(h)
    <3>1. p \in Page /\ p \in Nat
      BY <1>2, <1>5
    <3>2. PICK h \in heads : InBlock(property, h, p)
      BY <1>3, <3>1 DEF Tiled
    <3>3. QED
      BY <1>5, <3>1, <3>2 DEF InBlock, BlockPages
  <2>3. QED
    BY <2>1, <2>2
<1>7. \A i \in 1..Len(bs)-1 : bs[i] + property[bs[i]] < bs[i+1]
  <2>1. ASSUME NEW i \in 1..Len(bs)-1 PROVE bs[i] + property[bs[i]] < bs[i+1]
    <3>1. i \in 1..Len(bs) /\ i + 1 \in 1..Len(bs) /\ i < i + 1
      BY <1>1
    <3>2. bs[i] \in heads /\ bs[i+1] \in heads /\ bs[i] < bs[i+1]
      BY <1>1, <3>1
    <3>3. QED
      BY <1>3, <3>2 DEF Tiled
  <2>2. QED
    BY <2>1
<1>8. PICK ring : ring = <<0>> \o bs \o <<0>>
  OBVIOUS
<1>9. \A i \in 1..Len(ring)-1 : links.prev[ring[i+1]] = ring[i]
  <2>1. Backwards(links, ring)
    BY <1>1, <1>3, <1>8, RingBackwards, Zenon
  <2>2. QED
    BY <2>1, Zenon DEF Backwards
<1>10. FreeListExact
  BY <1>1, <1>2, <1>3, <1>4, <1>6, <1>7, <1>8, <1>9 DEF FreeListExact
<1>11. TypeOK
  <2>1. Cardinality(F) \in Nat /\ Cardinality(F) <= NPAGE
    <3>1. 1 .. 0 = 1 .. 1 + 0 - 1 /\ F \subseteq Page
      BY <1>2
    <3>2. Counted(F, 0, 1 .. 0)
      BY <3>1, CountRun
    <3>3. QED
      BY <3>2 DEF Counted
  <2>2. held \subseteq Page
    BY PageTypes DEF ListInv, Page
  <2>3. nr_free \in 0..NPAGE
    BY <1>3, <1>5, <2>1
  <2>4. links \in [next : [Entry -> Entry], prev : [Entry -> Entry]]
    BY <1>3 DEF Linked
  <2>5. property \in [Page -> 0..NPAGE] /\ heads \subseteq Page
    BY <1>3 DEF Tiled
  <2>6. QED
    BY <2>2, <2>3, <2>4, <2>5 DEF TypeOK, ListInv
<1>12. QED
  BY <1>10, <1>11

\* The first-fit search takes the first block that is large enough.
LEMMA FoundTakes ==
    ASSUME ListInv, NEW n \in Page, AllocFound(n)
    PROVE  \E page : /\ Taking(page, n)
                     /\ \A h \in heads : property[h] >= n => page <= h
<1>1. PICK bs \in Seq(Page) :
              /\ bs = Blocks(links) /\ IsWalk(bs, links, heads)
              /\ Len(bs) \in Nat /\ DOMAIN bs = 1..Len(bs)
              /\ \A i \in 1..Len(bs) : bs[i] \in heads
              /\ \A h \in heads : \E i \in 1..Len(bs) : bs[i] = h
              /\ \A i, j \in 1..Len(bs) : i < j => bs[i] < bs[j]
  BY ListedBlocks
<1> DEFINE Here(i) ==
        LET page == bs[i]
            prv  == links.prev[page]
            cut  == ListDel(links, page)
        IN /\ n <= nr_free
           /\ LargeEnough(page, n)
           /\ \A j \in 1..i-1 : ~LargeEnough(bs[j], n)
           /\ page + n - 1 <= NPAGE - Headroom
           /\ IF property[page] > n
              THEN /\ property' = [property EXCEPT ![page + n] = Rest(page, n)]
                   /\ heads' = (heads \cup {page + n}) \ {page}
                   /\ links' = Split(cut, prv, page + n)
              ELSE /\ heads' = heads \ {page}
                   /\ links' = cut
                   /\ UNCHANGED property
           /\ nr_free' = nr_free - n
           /\ held' = held \cup page .. page + n - 1
           /\ ret' = page
<1>2. \E i \in DOMAIN bs : Here(i)
  BY <1>1, Zenon DEF AllocFound
<1>3. PICK i \in 1..Len(bs) : Here(i)
  BY <1>1, <1>2
<1>4. bs[i] \in heads
  BY <1>1
<1>5. Taking(bs[i], n)
  BY <1>3, <1>4 DEF Taking, LargeEnough
<1>6. ASSUME NEW h \in heads, property[h] >= n PROVE bs[i] <= h
  <2>1. PICK j \in 1..Len(bs) : bs[j] = h
    BY <1>1
  <2>2. ~(j \in 1..i-1)
    BY <1>3, <1>6, <2>1 DEF LargeEnough
  <2>3. i <= j
    BY <1>1, <2>2
  <2>4. bs[i] \in Nat /\ h \in Nat
    BY <1>4, TiledTypes DEF ListInv
  <2>5. QED
    BY <1>1, <2>1, <2>3, <2>4
<1>7. QED
  BY <1>5, <1>6

\* A block is never larger than what is free.
LEMMA BlockWithinFree ==
    ASSUME ListInv, NEW h \in heads
    PROVE  /\ h \in Page /\ property[h] \in Nat /\ property[h] >= 1 /\ property[h] \in Page
           /\ h .. h + property[h] - 1 \subseteq Page \ held
           /\ property[h] <= nr_free
<1>1. PICK F : F = Page \ held
  OBVIOUS
<1>2. Tiled(property, heads, F, {}) /\ nr_free = Cardinality(F) /\ F \subseteq Page
  BY <1>1 DEF ListInv
<1>3. /\ NPAGE \in Nat
      /\ \A p \in Nat : p >= 1 /\ p <= NPAGE => p \in Page
      /\ h \in Page /\ h \in Nat /\ property[h] \in Nat /\ h >= 1
  BY <1>2, TiledTypes
<1>4. property[h] >= 1 /\ h + property[h] <= NPAGE + 1
  BY <1>2 DEF Tiled
<1>a. PICK m \in Nat : m = property[h]
  BY <1>3
<1>5. PICK run : m = property[h] /\ run = h .. h + m - 1
  BY <1>a
<1>6. ASSUME NEW p \in run PROVE p \in F
  <2>1. p \in Nat /\ h <= p /\ p < h + property[h]
    BY <1>3, <1>5
  <2>2. p \in Page /\ InBlock(property, h, p)
    BY <1>3, <1>4, <2>1 DEF InBlock
  <2>3. QED
    BY <1>2, <2>2 DEF Tiled
<1>7. Counted(F, m, run)
  BY <1>2, <1>3, <1>5, CountRun
<1>8. m <= Cardinality(F)
  BY <1>6, <1>7 DEF Counted
<1>9. QED
  BY <1>1, <1>2, <1>3, <1>4, <1>5, <1>6, <1>8

\* The step of the pool that the first-fit allocator takes when it finds a block.
LEMMA TakeRefines ==
    ASSUME ListInv, NEW n \in Page, AllocFound(n)
    PROVE  Pool!Take(n)
<1>1. PICK page : /\ Taking(page, n)
                  /\ \A h \in heads : property[h] >= n => page <= h
  BY FoundTakes
<1>2. page \in Page /\ page .. page + n - 1 \subseteq Page \ held
  BY <1>1, TakingKeeps
<1>3. PICK F : F = Page \ held
  OBVIOUS
<1>4. Tiled(property, heads, F, {})
  BY <1>3 DEF ListInv
<1>5. n \in Nat /\ n >= 1 /\ page \in Nat /\ Page = 1..NPAGE
  BY <1>2, PageTypes DEF Page
<1>6. \A b : b \in Pool!Fits(n) <=> b \in Page /\ b .. b + n - 1 \subseteq F
  BY <1>3, <1>5 DEF Pool!Fits, Pool!Run
<1>7. page \in Pool!Fits(n)
  BY <1>2, <1>3, <1>6
<1>8. ASSUME NEW b \in Pool!Fits(n) PROVE page <= b
  <2>1. b \in Page /\ b .. b + n - 1 \subseteq F /\ b \in Nat
    BY <1>6, PageTypes
  <2>2. PICK h \in heads : h <= b /\ b + n <= h + property[h]
    BY <1>4, <1>5, <2>1, RunInOneBlock
  <2>3. h \in Nat /\ property[h] \in Nat
    BY <1>4, TiledTypes
  <2>4. property[h] >= n
    BY <1>5, <2>1, <2>2, <2>3
  <2>5. page <= h
    BY <1>1, <2>4
  <2>6. QED
    BY <1>5, <2>1, <2>2, <2>3, <2>5
<1>9. Pool!Min(Pool!Fits(n)) = page
  <2>1. \A b \in Pool!Fits(n) : b \in Nat
    BY <1>6, PageTypes
  <2>2. PICK S : S = Pool!Fits(n)
    OBVIOUS
  <2>3. page \in S /\ (\A b \in S : page <= b) /\ \A b \in S : b \in Nat
    BY <1>7, <1>8, <2>1, <2>2
  <2>4. Pool!Min(S) = CHOOSE x \in S : \A y \in S : x <= y
    BY Zenon DEF Pool!Min
  <2>5. PICK z : z = CHOOSE x \in S : \A y \in S : x <= y
    OBVIOUS
  <2>6. z \in S /\ \A y \in S : z <= y
    BY <2>3, <2>5
  <2>7. z = page
    BY <2>3, <2>6
  <2>8. QED
    BY <2>2, <2>4, <2>5, <2>7
<1>10. /\ page + n - 1 <= NPAGE - Headroom /\ ret' = page
       /\ held' = held \cup page .. page + n - 1
  BY <1>1 DEF Taking
<1>11. Page \ held' = (Page \ held) \ Pool!Run(page, n)
  BY <1>10 DEF Pool!Run
<1>12. QED
  BY <1>7, <1>9, <1>10, <1>11 DEF Pool!Take

\* It refuses only what does not fit anywhere.
LEMMA RefuseRefines ==
    ASSUME ListInv, NEW n \in Page, AllocFailed(n)
    PROVE  Pool!Refuse(n)
<1>1. PICK F : F = Page \ held
  OBVIOUS
<1>2. Tiled(property, heads, F, {}) /\ nr_free = Cardinality(F) /\ F \subseteq Page
  BY <1>1 DEF ListInv
<1>3. n \in Nat /\ n >= 1 /\ Page = 1..NPAGE
  BY PageTypes DEF Page
<1>4. \A b : b \in Pool!Fits(n) <=> b \in Page /\ b .. b + n - 1 \subseteq F
  BY <1>1, <1>3 DEF Pool!Fits, Pool!Run
<1>5. ASSUME NEW b, b \in Pool!Fits(n) PROVE FALSE
  <2>1. b \in Page /\ b .. b + n - 1 \subseteq F /\ b \in Nat
    BY <1>4, <1>5, PageTypes
  <2>2. PICK h \in heads : h <= b /\ b + n <= h + property[h]
    BY <1>2, <1>3, <2>1, RunInOneBlock
  <2>3. /\ h \in Nat /\ property[h] \in Nat /\ property[h] <= nr_free /\ nr_free \in Nat
    <3>1. nr_free \in Nat
      BY ListedExact, PageTypes DEF TypeOK
    <3>2. QED
      BY <3>1, BlockWithinFree, PageTypes
  <2>4. property[h] >= n
    BY <1>3, <2>1, <2>2, <2>3
  <2>5. h \in Range(Blocks(links))
    BY ListedExact DEF FreeListExact
  <2>6. QED
    BY <1>3, <2>3, <2>4, <2>5 DEF AllocFailed, LargeEnough
<1>6. QED
  BY <1>5 DEF Pool!Refuse, AllocFailed

\* Every step of the first-fit allocator is a step of the pool.
LEMMA StepRefines ==
    ASSUME ListInv, Next
    PROVE  Pool!PoolNext
<1>1. PICK n \in Page : \/ AllocFound(n) \/ AllocFailed(n)
                        \/ \E base \in Page : FreePages(base, n)
  BY DEF Next
<1>2. Page = 1..NPAGE
  BY DEF Page
<1>3. CASE AllocFound(n)
  BY <1>2, <1>3, TakeRefines, Zenon DEF Pool!PoolNext
<1>4. CASE AllocFailed(n)
  BY <1>2, <1>4, RefuseRefines, Zenon DEF Pool!PoolNext
<1>5. ASSUME NEW base \in Page, FreePages(base, n) PROVE Pool!PoolNext
  <2>1. PICK run : run = base .. base + n - 1
    BY Zenon
  <2>2. run \subseteq held /\ held' = held \ run /\ ret' = ret
    BY <1>5, <2>1, Zenon DEF FreePages
  <2>3. held \subseteq Page
    BY PageTypes DEF ListInv, Page
  <2>4. Pool!Run(base, n) = run
    BY <2>1 DEF Pool!Run
  <2>5. run \subseteq 1..NPAGE \ (Page \ held) /\ Page \ held' = (Page \ held) \cup run
    BY <1>2, <2>2, <2>3
  <2>6. Pool!Give(base, n)
    BY <2>2, <2>4, <2>5 DEF Pool!Give
  <2>7. QED
    BY <1>2, <2>6 DEF Pool!PoolNext
<1>6. QED
  BY <1>1, <1>3, <1>4, <1>5

-----------------------------------------------------------------------------
(* The best-fit search.                                                    *)

\* What best_fit_alloc_pages has after i blocks: none is large enough so far, or the
\* smallest that is, the first of these.
SoFar(bs, n, i, b) ==
    \/ /\ b = [page |-> 0, size |-> nr_free + 1]
       /\ \A j \in 1..i : ~(property[bs[j]] >= n)
    \/ \E k \in 1..i :
          /\ b = [page |-> bs[k], size |-> property[bs[k]]]
          /\ property[bs[k]] >= n
          /\ \A j \in 1..i : property[bs[j]] >= n =>
                \/ property[bs[k]] < property[bs[j]]
                \/ property[bs[k]] = property[bs[j]] /\ k <= j

\* One round of the loop.
Round(bs, n, i, b) ==
    IF property[bs[i]] >= n /\ property[bs[i]] < b.size
    THEN [page |-> bs[i], size |-> property[bs[i]]] ELSE b

\* A round of the loop takes account of one more block.
LEMMA RoundSoFar ==
    ASSUME NEW bs, NEW n \in Nat, NEW i \in Nat, NEW b, SoFar(bs, n, i, b),
           \A j \in 1..(i + 1) : property[bs[j]] \in Nat /\ property[bs[j]] <= nr_free,
           nr_free \in Nat
    PROVE  SoFar(bs, n, i + 1, Round(bs, n, i + 1, b))
<1>1. PICK x \in Nat : x = property[bs[i + 1]] /\ x <= nr_free
  OBVIOUS
<1>2. PICK c : c = Round(bs, n, i + 1, b)
  OBVIOUS
<1>3. CASE /\ b = [page |-> 0, size |-> nr_free + 1]
           /\ \A j \in 1..i : ~(property[bs[j]] >= n)
  <2>1. b.size = nr_free + 1
    BY <1>3
  <2>2. CASE x >= n
    <3>1. c = [page |-> bs[i + 1], size |-> property[bs[i + 1]]]
      BY <1>1, <1>2, <2>1, <2>2 DEF Round
    <3>2. ASSUME NEW j \in 1..(i + 1), property[bs[j]] >= n PROVE j = i + 1
      BY <1>3, <3>2
    <3>3. QED
      BY <1>1, <1>2, <2>2, <3>1, <3>2 DEF SoFar
  <2>3. CASE ~(x >= n)
    <3>1. c = b
      BY <1>1, <1>2, <2>3 DEF Round
    <3>2. \A j \in 1..(i + 1) : ~(property[bs[j]] >= n)
      BY <1>1, <1>3, <2>3
    <3>3. QED
      BY <1>2, <1>3, <3>1, <3>2 DEF SoFar
  <2>4. QED
    BY <2>2, <2>3
<1>4. ASSUME NEW k \in 1..i,
             b = [page |-> bs[k], size |-> property[bs[k]]], property[bs[k]] >= n,
             \A j \in 1..i : property[bs[j]] >= n =>
                \/ property[bs[k]] < property[bs[j]]
                \/ property[bs[k]] = property[bs[j]] /\ k <= j
      PROVE  SoFar(bs, n, i + 1, c)
  <2>1. PICK y \in Nat : y = property[bs[k]] /\ b.size = y
    BY <1>4
  <2>2. CASE x >= n /\ x < y
    <3>1. c = [page |-> bs[i + 1], size |-> property[bs[i + 1]]]
      BY <1>1, <1>2, <2>1, <2>2 DEF Round
    <3>2. ASSUME NEW j \in 1..(i + 1), property[bs[j]] >= n
          PROVE  \/ property[bs[i + 1]] < property[bs[j]]
                 \/ property[bs[i + 1]] = property[bs[j]] /\ i + 1 <= j
      BY <1>1, <1>4, <2>1, <2>2, <3>2
    <3>3. QED
      BY <1>1, <2>2, <3>1, <3>2 DEF SoFar
  <2>3. CASE ~(x >= n /\ x < y)
    <3>1. c = b
      BY <1>1, <1>2, <2>1, <2>3 DEF Round
    <3>2. k \in 1..(i + 1)
      OBVIOUS
    <3>3. ASSUME NEW j \in 1..(i + 1), property[bs[j]] >= n
          PROVE  \/ property[bs[k]] < property[bs[j]]
                 \/ property[bs[k]] = property[bs[j]] /\ k <= j
      BY <1>1, <1>4, <2>1, <2>3, <3>3
    <3>4. QED
      BY <1>4, <3>1, <3>2, <3>3 DEF SoFar
  <2>4. QED
    BY <2>2, <2>3
<1>5. QED
  BY <1>2, <1>3, <1>4 DEF SoFar

\* The rounds of the loop, over the blocks bs.
Search(bs, n) ==
    LET best[i \in 0..Len(bs)] ==
            IF i = 0 THEN [page |-> 0, size |-> nr_free + 1]
            ELSE IF property[bs[i]] >= n /\ property[bs[i]] < best[i-1].size
                 THEN [page |-> bs[i], size |-> property[bs[i]]]
            ELSE best[i-1]
    IN best

\* What the search ends with: 0 if no block is large enough, or the smallest that is,
\* the lowest of these.
IsSmallest(page, n) ==
    \/ page = 0 /\ \A h \in heads : ~(property[h] >= n)
    \/ /\ page \in heads /\ property[page] >= n
       /\ \A h \in heads : property[h] >= n =>
             \/ property[page] < property[h]
             \/ property[page] = property[h] /\ page <= h

\* The search goes through the whole list.
LEMMA SmallestFound ==
    ASSUME ListInv, NEW n \in Page
    PROVE  IsSmallest(Smallest(n), n)
<1>1. PICK bs \in Seq(Page) :
              /\ bs = Blocks(links) /\ IsWalk(bs, links, heads)
              /\ Len(bs) \in Nat /\ DOMAIN bs = 1..Len(bs)
              /\ \A i \in 1..Len(bs) : bs[i] \in heads
              /\ \A h \in heads : \E i \in 1..Len(bs) : bs[i] = h
              /\ \A i, j \in 1..Len(bs) : i < j => bs[i] < bs[j]
  BY ListedBlocks
<1>2. PICK m \in Nat : m = Len(bs)
  BY <1>1, Zenon
<1>3. nr_free \in Nat /\ n \in Nat
  BY ListedExact, PageTypes DEF TypeOK
<1>4. \A i \in 1..m : bs[i] \in heads /\ property[bs[i]] \in Nat /\ property[bs[i]] <= nr_free
  BY <1>1, <1>2, BlockWithinFree
<1>5. PICK none : none = [page |-> 0, size |-> nr_free + 1]
  OBVIOUS
<1> DEFINE Best(f) == f = [i \in 0..Len(bs) |-> IF i = 0 THEN [page |-> 0, size |-> nr_free + 1]
                                              ELSE Round(bs, n, i, f[i - 1])]
<1>6. \E f : Best(f)
  <2>1. PICK S : S = [page : Entry, size : Nat]
    OBVIOUS
  <2>2. none \in S
    BY <1>3, <1>5, <2>1, PageTypes DEF Entry
  <2>3. PICK g : g = [x \in S \X (1..m) |-> Round(bs, n, x[2], x[1])]
    OBVIOUS
  <2>4. ASSUME NEW b \in S, NEW i \in 1..m PROVE Round(bs, n, i, b) \in S
    <3>1. bs[i] \in Entry /\ property[bs[i]] \in Nat
      BY <1>1, <1>2, <1>4, PageTypes
    <3>2. [page |-> bs[i], size |-> property[bs[i]]] \in S
      BY <2>1, <3>1
    <3>3. QED
      BY <3>2 DEF Round
  <2>5. g \in [S \X (1..m) -> S]
    BY <2>3, <2>4
  <2>6. PICK f : Repeats(f, m, none, g)
    BY <2>2, <2>5, Repeated
  <2>7. f \in [0..m -> S]
    BY <2>2, <2>5, <2>6, Repeated
  <2>8. ASSUME NEW i \in 0..m, i # 0 PROVE g[<<f[i - 1], i>>] = Round(bs, n, i, f[i - 1])
    <3>1. f[i - 1] \in S /\ i \in 1..m
      BY <2>7, <2>8
    <3>2. QED
      BY <2>3, <3>1
  <2>9. Best(f)
    BY <1>2, <1>5, <2>6, <2>8 DEF Repeats
  <2>10. QED
    BY <2>9
<1>7. PICK best : best = CHOOSE f : Best(f)
  OBVIOUS
<1>8. Best(best)
  BY <1>6, <1>7, Zenon
<1>9. best[0] = none /\ \A i \in 1..m : best[i] = Round(bs, n, i, best[i - 1])
  BY <1>2, <1>5, <1>8
<1>10. Smallest(n) = best[m].page
  <2>1. Smallest(n) = Search(Blocks(links), n)[Len(Blocks(links))].page
    BY Zenon DEF Smallest, Search
  <2>2. Search(bs, n) = CHOOSE f : Best(f)
    BY Zenon DEF Search, Round
  <2>3. QED
    BY <1>1, <1>2, <1>7, <2>1, <2>2, Zenon
<1>11. SoFar(bs, n, m, best[m])
  <2> DEFINE U == {i \in Nat : i <= m => SoFar(bs, n, i, best[i])}
  <2>1. 0 \in U
    BY <1>5, <1>9 DEF SoFar
  <2>2. ASSUME NEW i \in Nat, i \in U PROVE i + 1 \in U
    <3>1. SUFFICES ASSUME i + 1 <= m PROVE SoFar(bs, n, i + 1, best[i + 1])
      OBVIOUS
    <3>2. SoFar(bs, n, i, best[i])
      BY <2>2, <3>1
    <3>3. \A j \in 1..(i + 1) : property[bs[j]] \in Nat /\ property[bs[j]] <= nr_free
      BY <1>4, <3>1
    <3>4. SoFar(bs, n, i + 1, Round(bs, n, i + 1, best[i]))
      BY <1>3, <3>2, <3>3, RoundSoFar
    <3>5. best[i + 1] = Round(bs, n, i + 1, best[i])
      BY <1>9, <3>1
    <3>6. QED
      BY <3>4, <3>5
  <2>3. Nat \subseteq U
    <3> HIDE DEF U
    <3>1. QED
      BY <2>1, <2>2, Induction
  <2>4. QED
    BY <2>3
<1>12. CASE /\ best[m] = [page |-> 0, size |-> nr_free + 1]
            /\ \A j \in 1..m : ~(property[bs[j]] >= n)
  BY <1>1, <1>2, <1>10, <1>12 DEF IsSmallest
<1>13. ASSUME NEW k \in 1..m,
              best[m] = [page |-> bs[k], size |-> property[bs[k]]], property[bs[k]] >= n,
              \A j \in 1..m : property[bs[j]] >= n =>
                \/ property[bs[k]] < property[bs[j]]
                \/ property[bs[k]] = property[bs[j]] /\ k <= j
       PROVE  IsSmallest(Smallest(n), n)
  <2>1. Smallest(n) = bs[k] /\ bs[k] \in heads
    BY <1>1, <1>2, <1>10, <1>13
  <2>2. ASSUME NEW h \in heads, property[h] >= n
        PROVE  \/ property[bs[k]] < property[h]
               \/ property[bs[k]] = property[h] /\ bs[k] <= h
    <3>1. PICK j \in 1..m : bs[j] = h
      BY <1>1, <1>2
    <3>2. \/ property[bs[k]] < property[h]
          \/ property[bs[k]] = property[h] /\ k <= j
      BY <1>13, <2>2, <3>1
    <3>3. k <= j => bs[k] <= bs[j]
      <4>1. k < j => bs[k] < bs[j]
        BY <1>1, <1>2
      <4>2. bs[k] \in Nat /\ bs[j] \in Nat
        BY <1>1, <1>2, PageTypes
      <4>3. QED
        BY <4>1, <4>2
    <3>4. QED
      BY <3>1, <3>2, <3>3
  <2>3. QED
    BY <1>13, <2>1, <2>2 DEF IsSmallest
<1>14. QED
  BY <1>11, <1>12, <1>13 DEF SoFar

-----------------------------------------------------------------------------
(* The gaps that the best-fit search looks for.                            *)

\* The gaps between what clients hold are the blocks of the list.
LEMMA GapsAreBlocks ==
    ASSUME ListInv
    PROVE  /\ \A h \in heads : <<h, property[h]>> \in Gaps
           /\ \A g \in Gaps : g[1] \in heads /\ g[2] = property[g[1]]
<1>1. PICK F : F = Page \ held
  OBVIOUS
<1>2. Tiled(property, heads, F, {}) /\ F \subseteq Page
  BY <1>1 DEF ListInv
<1>3. /\ NPAGE \in Nat
      /\ \A p \in Page : p \in Nat /\ p >= 1 /\ p <= NPAGE
      /\ \A h \in heads : h \in Page /\ h \in Nat /\ property[h] \in Nat /\ h >= 1
  BY <1>2, TiledTypes
<1>4. ASSUME NEW h \in heads PROVE <<h, property[h]>> \in Gaps
  <2>1. h \in Page /\ property[h] \in Page /\ h .. h + property[h] - 1 \subseteq F
        /\ property[h] >= 1
    BY <1>1, BlockWithinFree
  <2>2. h - 1 \notin F
    <3>1. SUFFICES ASSUME h - 1 \in F PROVE FALSE
      OBVIOUS
    <3>2. PICK g \in heads : InBlock(property, g, h - 1)
      BY <1>2, <3>1 DEF Tiled
    <3>3. /\ g \in Nat /\ h \in Nat /\ property[g] \in Nat /\ g <= h - 1
          /\ h - 1 < g + property[g]
      BY <1>3, <3>2 DEF InBlock
    <3>4. g < h
      BY <3>3
    <3>5. g + property[g] < h
      BY <1>2, <3>4 DEF Tiled
    <3>6. QED
      BY <3>3, <3>5
  <2>3. h + property[h] \notin F
    <3>1. SUFFICES ASSUME h + property[h] \in F PROVE FALSE
      OBVIOUS
    <3>2. PICK g \in heads : InBlock(property, g, h + property[h])
      BY <1>2, <3>1 DEF Tiled
    <3>3. /\ g \in Nat /\ h \in Nat /\ property[g] \in Nat /\ property[h] \in Nat
          /\ g <= h + property[h] /\ h + property[h] < g + property[g]
      BY <1>3, <3>2 DEF InBlock
    <3>4. g < h => g + property[g] < h
      BY <1>2 DEF Tiled
    <3>5. h < g => h + property[h] < g
      BY <1>2 DEF Tiled
    <3>6. QED
      BY <3>3, <3>4, <3>5
  <2>4. PICK g : g = <<h, property[h]>>
    OBVIOUS
  <2>5. g \in Page \X Page /\ g[1] = h /\ g[2] = property[h]
    BY <2>1, <2>4
  <2>6. QED
    BY <1>1, <2>1, <2>2, <2>3, <2>4, <2>5 DEF Gaps
<1>5. ASSUME NEW g \in Gaps PROVE g[1] \in heads /\ g[2] = property[g[1]]
  <2>1. PICK b \in Page, n \in Page : b = g[1] /\ n = g[2]
    BY DEF Gaps
  <2>2. b .. b + n - 1 \subseteq F /\ b - 1 \notin F /\ b + n \notin F
    BY <1>1, <2>1 DEF Gaps
  <2>3. b \in Nat /\ n \in Nat /\ n >= 1 /\ b >= 1
    BY <1>3
  <2>4. PICK h \in heads : h <= b /\ b + n <= h + property[h]
    BY <1>2, <2>2, <2>3, RunInOneBlock
  <2>5. h \in Nat /\ property[h] \in Nat /\ h >= 1 /\ h .. h + property[h] - 1 \subseteq F
    BY <1>1, <1>3, BlockWithinFree
  <2>6. h = b
    BY <2>2, <2>3, <2>4, <2>5
  <2>7. b + n = h + property[h]
    BY <2>2, <2>3, <2>4, <2>5
  <2>8. n = property[h]
    BY <2>3, <2>5, <2>6, <2>7
  <2>9. QED
    BY <2>1, <2>6, <2>8
<1>6. QED
  BY <1>4, <1>5

\* The block that best_fit_alloc_pages takes.
LEMMA BestTakes ==
    ASSUME ListInv, NEW n \in Page, BestAlloc(n)
    PROVE  /\ Taking(Smallest(n), n)
           /\ \A h \in heads : property[h] >= n =>
                 \/ property[Smallest(n)] < property[h]
                 \/ property[Smallest(n)] = property[h] /\ Smallest(n) <= h
<1>1. PICK page : page = Smallest(n)
  OBVIOUS
<1>2. IsSmallest(page, n) /\ page # 0
  BY <1>1, SmallestFound DEF BestAlloc
<1>3. /\ page \in heads /\ property[page] >= n
      /\ \A h \in heads : property[h] >= n =>
             \/ property[page] < property[h]
             \/ property[page] = property[h] /\ page <= h
  BY <1>2 DEF IsSmallest
<1>4. Taking(page, n)
  BY <1>1, <1>3 DEF Taking, BestAlloc
<1>5. QED
  BY <1>1, <1>3, <1>4

\* Every step in which the best-fit allocator serves or refuses a request is a best fit.
LEMMA BestStep ==
    ASSUME ListInv
    PROVE  BestFits
<1> SUFFICES ASSUME NEW n \in Page
             PROVE  LET fits == {g \in Gaps : g[2] >= n}
                    IN /\ BestAlloc(n) =>
                          \E g \in fits : /\ ret' = g[1]
                                          /\ held' = held \cup g[1] .. g[1] + n - 1
                                          /\ held \cap g[1] .. g[1] + n - 1 = {}
                                          /\ \A f \in fits : g[2] < f[2] \/ (g[2] = f[2] /\ g[1] <= f[1])
                       /\ BestAllocFailed(n) => fits = {}
  BY DEF BestFits
<1> DEFINE fits == {g \in Gaps : g[2] >= n}
<1>1. /\ \A h \in heads : <<h, property[h]>> \in Gaps
      /\ \A g \in Gaps : g[1] \in heads /\ g[2] = property[g[1]]
  BY GapsAreBlocks
<1>2. ASSUME BestAlloc(n)
      PROVE  \E g \in fits : /\ ret' = g[1]
                             /\ held' = held \cup g[1] .. g[1] + n - 1
                             /\ held \cap g[1] .. g[1] + n - 1 = {}
                             /\ \A f \in fits : g[2] < f[2] \/ (g[2] = f[2] /\ g[1] <= f[1])
  <2>1. PICK page : /\ Taking(page, n)
                    /\ \A h \in heads : property[h] >= n =>
                         \/ property[page] < property[h]
                         \/ property[page] = property[h] /\ page <= h
    BY <1>2, BestTakes
  <2>2. PICK g : g = <<page, property[page]>>
    OBVIOUS
  <2>3. g[1] = page /\ g[2] = property[page]
    BY <2>2
  <2>4. page \in heads /\ property[page] >= n /\ ret' = page /\ held' = held \cup page .. page + n - 1
    BY <2>1 DEF Taking
  <2>5. g \in fits
    BY <1>1, <2>2, <2>3, <2>4
  <2>6. held \cap page .. page + n - 1 = {}
    BY <2>1, TakingKeeps
  <2>7. ASSUME NEW f \in fits PROVE g[2] < f[2] \/ (g[2] = f[2] /\ g[1] <= f[1])
    BY <1>1, <2>1, <2>3
  <2>8. QED
    BY <2>3, <2>4, <2>5, <2>6, <2>7
<1>3. ASSUME BestAllocFailed(n) PROVE fits = {}
  <2>1. SUFFICES ASSUME NEW g \in fits PROVE FALSE
    OBVIOUS
  <2>2. g[1] \in heads /\ property[g[1]] >= n
    BY <1>1
  <2>3. Smallest(n) # 0
    <3>1. IsSmallest(Smallest(n), n)
      BY SmallestFound
    <3>2. 0 \notin heads
      BY BlockWithinFree, PageTypes
    <3>3. QED
      BY <2>2, <3>1, <3>2 DEF IsSmallest
  <2>4. property[g[1]] <= nr_free /\ property[g[1]] \in Nat /\ nr_free \in Nat /\ n \in Nat
    <3>1. nr_free \in Nat
      BY ListedExact, PageTypes DEF TypeOK
    <3>2. QED
      BY <2>2, <3>1, BlockWithinFree, PageTypes
  <2>5. QED
    BY <1>3, <2>2, <2>3, <2>4 DEF BestAllocFailed
<1>4. QED
  BY <1>2, <1>3, Zenon

\* Every step of both allocators keeps the list exact.
LEMMA StepKeeps ==
    ASSUME Headroom # 0, ListInv, Next \/ BestNext \/ UNCHANGED vars
    PROVE  ListInv'
<1>1. CASE UNCHANGED vars
  BY <1>1 DEF ListInv, Linked, Tiled, vars
<1>2. ASSUME NEW n \in Page, AllocFound(n) PROVE ListInv'
  BY <1>2, FoundTakes, TakingKeeps
<1>3. ASSUME NEW n \in Page, BestAlloc(n) PROVE ListInv'
  BY <1>3, BestTakes, TakingKeeps
<1>4. ASSUME NEW n \in Page, AllocFailed(n) \/ BestAllocFailed(n) PROVE ListInv'
  <2>1. UNCHANGED <<links, property, heads, nr_free, held>> /\ ret' = 0 /\ 0 \in Entry
    BY <1>4, PageTypes DEF AllocFailed, BestAllocFailed, Entry
  <2>2. QED
    BY <2>1 DEF ListInv, Linked, Tiled
<1>5. ASSUME NEW n \in Page, NEW base \in Page, FreePages(base, n) PROVE ListInv'
  BY <1>5, FreeKeeps
<1>6. QED
  BY <1>1, <1>2, <1>3, <1>4, <1>5 DEF Next, BestNext

-----------------------------------------------------------------------------
(* The theorems.                                                           *)

\* The first-fit allocator keeps its free list exact: default_free_pages finds the
\* place of every block and joins it to both neighbours, and default_alloc_pages
\* leaves what it does not need in the place of the block, so no page is lost or
\* given out twice, however they are called.
THEOREM FirstFitExact ==
    ASSUME Headroom # 0
    PROVE  Spec => [](TypeOK /\ FreeListExact)
<1>1. FirstFitInit => ListInv
  BY InitListed
<1>2. ListInv /\ [Next]_vars => ListInv'
  BY StepKeeps
<1>3. QED
  BY <1>1, <1>2, ListedExact, PTL DEF Spec

\* So does the best-fit allocator, whose best_fit_alloc_pages takes blocks from
\* anywhere in the list.
THEOREM BestFitExact ==
    ASSUME Headroom # 0
    PROVE  BestSpec => [](TypeOK /\ FreeListExact)
<1>1. FirstFitInit => ListInv
  BY InitListed
<1>2. ListInv /\ [BestNext]_vars => ListInv'
  BY StepKeeps
<1>3. QED
  BY <1>1, <1>2, ListedExact, PTL DEF BestSpec

\* default_alloc_pages serves every request from the lowest place it fits, and refuses
\* it only if it fits nowhere: the allocator implements the pool.
THEOREM FirstFitIsPool ==
    ASSUME Headroom # 0
    PROVE  Spec => FirstFitPool /\ Pool!PoolSpec
<1>1. FirstFitInit => ListInv
  BY InitListed
<1>2. ListInv /\ [Next]_vars => ListInv'
  BY StepKeeps
<1>3. FirstFitInit => Pool!PoolInit
  BY DEF FirstFitInit, Pool!PoolInit, Page
<1>4. ListInv /\ [Next]_vars => [Next => Pool!PoolNext]_vars
  BY StepRefines
<1>5. ListInv /\ [Next]_vars => [Pool!PoolNext]_(Pool!poolvars)
  BY StepRefines DEF vars, Pool!poolvars
<1>6. QED
  BY <1>1, <1>2, <1>3, <1>4, <1>5, PTL DEF Spec, FirstFitPool, Pool!PoolSpec

\* best_fit_alloc_pages serves every request from the smallest gap it fits in, the lowest
\* of these, and refuses it only if it fits in none.
THEOREM BestFitIsBest ==
    ASSUME Headroom # 0
    PROVE  BestSpec => BestFitting
<1>1. FirstFitInit => ListInv
  BY InitListed
<1>2. ListInv /\ [BestNext]_vars => ListInv'
  BY StepKeeps
<1>3. ListInv /\ [BestNext]_vars => [BestFits]_vars
  BY BestStep
<1>4. QED
  BY <1>1, <1>2, <1>3, PTL DEF BestSpec, BestFitting

-----------------------------------------------------------------------------
(* The address spaces.                                                     *)

\* Every page has a table, every table a directory, and both an entry for it.
LEMMA Levels ==
    /\ NFRAME \in Nat /\ NPTE \in Nat \ {0} /\ NPT \in Nat \ {0} /\ NPD \in Nat \ {0}
    /\ USERTOP \in Nat /\ STACK \in 1..USERTOP /\ STACKMAPPED \in 1..STACK
    /\ \A t \in Table : DirOf(t) \in Dir
    /\ \A a \in Addr : TableOf(a) \in Table
<1>1. /\ NFRAME \in Nat /\ NPTE \in Nat \ {0} /\ NPT \in Nat \ {0} /\ NPD \in Nat \ {0}
      /\ STACK \in 1..USERTOP /\ STACKMAPPED \in 1..STACK
  BY SpaceAssumption
<1>2. ASSUME NEW n \in Nat, n > 0, NEW k \in Nat, NEW t \in 0..k*n-1 PROVE t \div n \in 0..k-1
  OBVIOUS
<1>3. \A t \in Table : DirOf(t) \in Dir
  BY <1>1, <1>2 DEF Table, Dir, DirOf
<1>4. PICK k \in Nat : k = NPD * NPT
  BY <1>1
<1>5. \A a \in Addr : TableOf(a) \in Table
  <2>1. Addr = 0 .. k * NPTE - 1 /\ Table = 0 .. k - 1
    BY <1>4 DEF Addr, USERTOP, Table
  <2>2. QED
    BY <1>1, <1>2, <1>4, <2>1 DEF TableOf
<1>6. USERTOP \in Nat
  BY <1>1, <1>4 DEF USERTOP
<1>7. QED
  BY <1>1, <1>3, <1>5, <1>6

\* The places of an address space, one kind after the other.
LEMMA Slots ==
    /\ <<"pgdir", 0>> \in Slot
    /\ \A d \in Dir : <<"pd", d>> \in Slot
    /\ \A t \in Table : <<"pt", t>> \in Slot
    /\ \A a \in Addr : <<"pte", a>> \in Slot
    /\ \A x \in Slot : \/ x = <<"pgdir", 0>>
                       \/ \E d \in Dir : x = <<"pd", d>>
                       \/ \E t \in Table : x = <<"pt", t>>
                       \/ \E a \in Addr : x = <<"pte", a>>
BY DEF Slot

\* What each of them refers to
LEMMA SlotRefs ==
    ASSUME NEW m
    PROVE  /\ RefAt(m, <<"pgdir", 0>>) = m.pgdir
           /\ \A d : RefAt(m, <<"pd", d>>) = m.pd[d]
           /\ \A t : RefAt(m, <<"pt", t>>) = m.pt[t]
           /\ \A a : RefAt(m, <<"pte", a>>) = m.pte[a]
BY DEF RefAt

\* An address space refers to a frame in one of its places only.
Apart(m) == \A x, y \in Slot : RefAt(m, x) = RefAt(m, y) /\ RefAt(m, x) # 0 => x = y

\* Every page that is mapped lies in an area.
Covered(m) == \A a \in Addr : m.pte[a] # 0 => \E v \in Range(m.areas) : a \in Pages(v)

\* The frames fr are divided up between those still free and those the address space
\* that is being built refers to, and it can be taken down again.
Owns(w, fr) ==
    /\ w \in Works
    /\ w.free \cup Frames(w.m) = fr
    /\ w.free \cap Frames(w.m) = {}
    /\ Apart(w.m)
    /\ Covered(w.m)
    /\ w.st # "failed" => w.m.pgdir # 0

\* m1 is m with f in the place x.
Changed(m1, m, x, f) ==
    /\ m1 \in Space /\ m1.areas = m.areas
    /\ m.pgdir # 0 => m1.pgdir # 0
    /\ \A y \in Slot : RefAt(m1, y) = IF y = x THEN f ELSE RefAt(m, y)

\* The entries refer to frames.
LEMMA FramesAre ==
    ASSUME NEW m \in Space
    PROVE  /\ \A x \in Slot : RefAt(m, x) \in Ref
           /\ Frames(m) \subseteq Frame
           /\ \A f \in Frames(m) : \E x \in Slot : f = RefAt(m, x) /\ f # 0
           /\ \A x \in Slot : RefAt(m, x) # 0 => RefAt(m, x) \in Frames(m)
<1>1. \A x \in Slot : RefAt(m, x) \in Ref
  <2>1. m.pgdir \in Ref /\ m.pd \in [Dir -> Ref] /\ m.pt \in [Table -> Ref] /\ m.pte \in [Addr -> Ref]
    BY DEF Space
  <2>2. QED
    BY <2>1, Slots, SlotRefs
<1>2. \A f \in Ref : f # 0 => f \in Frame
  BY Levels DEF Ref, Frame
<1>3. QED
  BY <1>1, <1>2 DEF Frames, Valid

\* Every entry that is valid refers to one of the frames.
LEMMA EntriesInFrames ==
    ASSUME NEW m \in Space
    PROVE  /\ m.pgdir # 0 => m.pgdir \in Frames(m)
           /\ \A d \in Dir : m.pd[d] # 0 => m.pd[d] \in Frames(m)
           /\ \A t \in Table : m.pt[t] # 0 => m.pt[t] \in Frames(m)
           /\ \A a \in Addr : m.pte[a] # 0 => m.pte[a] \in Frames(m)
<1>1. ASSUME m.pgdir # 0 PROVE m.pgdir \in Frames(m)
  <2>1. RefAt(m, <<"pgdir", 0>>) = m.pgdir /\ <<"pgdir", 0>> \in Slot
    BY Slots, SlotRefs
  <2>2. QED
    BY <1>1, <2>1, FramesAre
<1>2. ASSUME NEW d \in Dir, m.pd[d] # 0 PROVE m.pd[d] \in Frames(m)
  <2>1. RefAt(m, <<"pd", d>>) = m.pd[d] /\ <<"pd", d>> \in Slot
    BY Slots, SlotRefs
  <2>2. QED
    BY <1>2, <2>1, FramesAre
<1>3. ASSUME NEW t \in Table, m.pt[t] # 0 PROVE m.pt[t] \in Frames(m)
  <2>1. RefAt(m, <<"pt", t>>) = m.pt[t] /\ <<"pt", t>> \in Slot
    BY Slots, SlotRefs
  <2>2. QED
    BY <1>3, <2>1, FramesAre
<1>4. ASSUME NEW a \in Addr, m.pte[a] # 0 PROVE m.pte[a] \in Frames(m)
  <2>1. RefAt(m, <<"pte", a>>) = m.pte[a] /\ <<"pte", a>> \in Slot
    BY Slots, SlotRefs
  <2>2. QED
    BY <1>4, <2>1, FramesAre
<1>5. QED
  BY <1>1, <1>2, <1>3, <1>4

\* The lowest free frame.
LEMMA LowestFree ==
    ASSUME NEW S, S \subseteq Frame, S # {}
    PROVE  Min(S) \in S /\ Min(S) \in Frame /\ Min(S) # 0
<1>1. S \subseteq Nat /\ 0 \notin S
  BY Levels DEF Frame
<1>2. \E x \in S : \A y \in S : x <= y
  BY <1>1, LeastNatural
<1>3. Min(S) \in S
  BY <1>2, Zenon DEF Min
<1>4. QED
  BY <1>1, <1>3

\* An entry of one of the tables is set.
LEMMA PdChanged ==
    ASSUME NEW m \in Space, NEW d \in Dir, NEW f \in Ref
    PROVE  Changed([m EXCEPT !.pd[d] = f], m, <<"pd", d>>, f)
<1>1. PICK n : n = [m EXCEPT !.pd[d] = f]
  OBVIOUS
<1>2. /\ n \in Space /\ n.areas = m.areas /\ n.pgdir = m.pgdir /\ n.pt = m.pt /\ n.pte = m.pte
      /\ \A e \in Dir : n.pd[e] = IF e = d THEN f ELSE m.pd[e]
  BY <1>1 DEF Space
<1>3. ASSUME NEW y \in Slot PROVE RefAt(n, y) = IF y = <<"pd", d>> THEN f ELSE RefAt(m, y)
  BY <1>2, Slots, SlotRefs
<1>4. QED
  BY <1>1, <1>2, <1>3 DEF Changed

\* The same for the entry of a directory that refers to a table
LEMMA PtChanged ==
    ASSUME NEW m \in Space, NEW t \in Table, NEW f \in Ref
    PROVE  Changed([m EXCEPT !.pt[t] = f], m, <<"pt", t>>, f)
<1>1. PICK n : n = [m EXCEPT !.pt[t] = f]
  OBVIOUS
<1>2. /\ n \in Space /\ n.areas = m.areas /\ n.pgdir = m.pgdir /\ n.pd = m.pd /\ n.pte = m.pte
      /\ \A e \in Table : n.pt[e] = IF e = t THEN f ELSE m.pt[e]
  BY <1>1 DEF Space
<1>3. ASSUME NEW y \in Slot PROVE RefAt(n, y) = IF y = <<"pt", t>> THEN f ELSE RefAt(m, y)
  BY <1>2, Slots, SlotRefs
<1>4. QED
  BY <1>1, <1>2, <1>3 DEF Changed

\* The same for the entry of a table that refers to a page
LEMMA PteChanged ==
    ASSUME NEW m \in Space, NEW a \in Addr, NEW f \in Ref
    PROVE  Changed([m EXCEPT !.pte[a] = f], m, <<"pte", a>>, f)
<1>1. PICK n : n = [m EXCEPT !.pte[a] = f]
  OBVIOUS
<1>2. /\ n \in Space /\ n.areas = m.areas /\ n.pgdir = m.pgdir /\ n.pd = m.pd /\ n.pt = m.pt
      /\ \A e \in Addr : n.pte[e] = IF e = a THEN f ELSE m.pte[e]
  BY <1>1 DEF Space
<1>3. ASSUME NEW y \in Slot PROVE RefAt(n, y) = IF y = <<"pte", a>> THEN f ELSE RefAt(m, y)
  BY <1>2, Slots, SlotRefs
<1>4. QED
  BY <1>1, <1>2, <1>3 DEF Changed

\* A frame that is neither free nor in use goes to a place, and what was there is free.
LEMMA PutOwned ==
    ASSUME NEW w, NEW v, NEW fr, NEW f \in fr, f \in Frame, Owns(w, fr \ {f}),
           NEW x \in Slot, Changed(v.m, w.m, x, f), Covered(v.m),
           v \in Works, v.free = w.free \cup Valid({RefAt(w.m, x)}),
           v.st = w.st
    PROVE  Owns(v, fr)
<1>1. w.m \in Space /\ v.m \in Space /\ f # 0
  BY Levels DEF Owns, Works, Frame
<1>2. PICK old : old = RefAt(w.m, x)
  OBVIOUS
<1>3. f \notin w.free /\ f \notin Frames(w.m) /\ w.free \cap Frames(w.m) = {}
  BY DEF Owns
<1>4. \A y \in Slot : RefAt(v.m, y) = IF y = x THEN f ELSE RefAt(w.m, y)
  BY DEF Changed
<1>5. Frames(v.m) = (Frames(w.m) \ {old}) \cup {f}
  <2>1. ASSUME NEW g \in Frames(v.m) PROVE g \in (Frames(w.m) \ {old}) \cup {f}
    <3>1. PICK y \in Slot : g = RefAt(v.m, y) /\ g # 0
      BY <1>1, FramesAre
    <3>2. CASE y # x
      <4>1. g = RefAt(w.m, y) /\ g \in Frames(w.m)
        BY <1>1, <1>4, <3>1, <3>2, FramesAre
      <4>2. g # old
        BY <1>2, <3>1, <3>2, <4>1 DEF Owns, Apart
      <4>3. QED
        BY <4>1, <4>2
    <3>3. QED
      BY <1>4, <3>1, <3>2
  <2>2. ASSUME NEW g \in Frames(w.m), g # old PROVE g \in Frames(v.m)
    <3>1. PICK y \in Slot : g = RefAt(w.m, y) /\ g # 0
      BY <1>1, FramesAre
    <3>2. g = RefAt(v.m, y)
      BY <1>2, <1>4, <2>2, <3>1
    <3>3. QED
      BY <1>1, <3>1, <3>2, FramesAre
  <2>3. f \in Frames(v.m)
    BY <1>1, <1>4, FramesAre
  <2>4. QED
    BY <2>1, <2>2, <2>3
<1>6. old # 0 => old \in Frames(w.m)
  BY <1>1, <1>2, FramesAre
<1>7. v.free = w.free \cup (IF old = 0 THEN {} ELSE {old})
  BY <1>2 DEF Valid
<1>8. 0 \notin Frames(w.m)
  BY DEF Frames, Valid
<1>9. v.free \cup Frames(v.m) = fr /\ v.free \cap Frames(v.m) = {}
  <2>1. w.free \cup Frames(w.m) = fr \ {f}
    BY DEF Owns
  <2>2. v.free \cup Frames(v.m) = fr
    <3>1. v.free \cup (Frames(w.m) \ {old}) = w.free \cup Frames(w.m)
      BY <1>6, <1>7, <1>8
    <3>2. QED
      BY <1>5, <2>1, <3>1
  <2>3. f \notin v.free
    BY <1>3, <1>6, <1>7
  <2>4. v.free \cap (Frames(w.m) \ {old}) = {}
    BY <1>3, <1>7
  <2>5. QED
    BY <1>5, <2>2, <2>3, <2>4
<1>10. Apart(v.m)
  <2>1. SUFFICES ASSUME NEW y \in Slot, NEW z \in Slot, RefAt(v.m, y) = RefAt(v.m, z),
                        RefAt(v.m, y) # 0
                 PROVE  y = z
    BY DEF Apart
  <2>2. \A u \in Slot : RefAt(w.m, u) # f
    BY <1>1, <1>3, FramesAre
  <2>3. CASE y # x /\ z # x
    BY <1>4, <2>1, <2>3 DEF Owns, Apart
  <2>4. QED
    BY <1>4, <2>1, <2>2, <2>3
<1>11. v.st # "failed" => v.m.pgdir # 0
  BY DEF Owns, Changed
<1>12. QED
  BY <1>9, <1>10, <1>11 DEF Owns

\* alloc_page
LEMMA TakenOut ==
    ASSUME NEW w, NEW fr, Owns(w, fr), NEW f \in w.free
    PROVE  Owns([w EXCEPT !.free = @ \ {f}], fr \ {f}) /\ f \in fr /\ f \in Frame
<1>1. PICK v : v = [w EXCEPT !.free = @ \ {f}]
  OBVIOUS
<1>2. v \in Works /\ v.m = w.m /\ v.free = w.free \ {f} /\ v.st = w.st /\ w.free \subseteq Frame
  BY <1>1 DEF Owns, Works
<1>3. QED
  BY <1>1, <1>2 DEF Owns

\* free_page of one that nobody refers to
LEMMA PutBack ==
    ASSUME NEW w, NEW fr, NEW f \in fr, f \in Frame, Owns(w, fr \ {f})
    PROVE  Owns([w EXCEPT !.free = @ \cup {f}], fr)
<1>1. PICK v : v = [w EXCEPT !.free = @ \cup {f}]
  OBVIOUS
<1>2. v \in Works /\ v.m = w.m /\ v.free = w.free \cup {f} /\ v.st = w.st
  BY <1>1 DEF Owns, Works
<1>3. QED
  BY <1>1, <1>2 DEF Owns

\* A step that fails
LEMMA StopOwned ==
    ASSUME NEW w, NEW fr, Owns(w, fr), w.st # "failed",
           NEW s \in {"failed", "overlap", "memory"}
    PROVE  Owns([w EXCEPT !.st = s], fr)
<1>1. PICK v : v = [w EXCEPT !.st = s]
  OBVIOUS
<1>2. v \in Works /\ v.m = w.m /\ v.free = w.free /\ v.st = s
  BY <1>1 DEF Owns, Works
<1>3. QED
  BY <1>1, <1>2 DEF Owns

\* What a step that allocates leaves: it may have failed.
Grown(v, w, fr) ==
    /\ Owns(v, fr) /\ v.st \in {"ok", "failed"}
    /\ v.m.areas = w.m.areas /\ v.m.pgdir = w.m.pgdir

\* The page for a directory that is not there
LEMMA PdFilled ==
    ASSUME NEW w, NEW fr, Owns(w, fr), w.st = "ok", NEW d \in Dir, w.m.pd[d] = 0
    PROVE  Grown(Filled(w, "pd", d), w, fr)
<1>1. CASE w.free = {}
  <2>1. Owns(Failed(w), fr)
    BY StopOwned DEF Failed
  <2>2. Failed(w).m = w.m /\ Failed(w).st = "failed"
    BY DEF Failed, Owns, Works
  <2>3. QED
    BY <1>1, <2>1, <2>2 DEF Filled, Grown
<1>2. CASE w.free # {}
  <2>1. w \in Works /\ w.m \in Space /\ w.free \subseteq Frame
    BY DEF Owns, Works
  <2>2. PICK f \in w.free : f = Min(w.free) /\ f \in Frame /\ f \in Ref
    BY <1>2, <2>1, LowestFree DEF Frame, Ref
  <2>3. PICK u, v : u = [w EXCEPT !.free = @ \ {f}] /\ v = Filled(w, "pd", d)
    OBVIOUS
  <2>4. /\ v \in Works /\ v.m = [w.m EXCEPT !.pd[d] = f] /\ v.free = w.free \ {f} /\ v.st = "ok"
        /\ v.m.pte = w.m.pte /\ v.m.areas = w.m.areas /\ v.m.pgdir = w.m.pgdir
    BY <1>2, <2>1, <2>2, <2>3 DEF Filled, Works, Space
  <2>5. u.m = w.m /\ u.free = w.free \ {f} /\ u.st = w.st
    BY <2>1, <2>3 DEF Works
  <2>6. Owns(u, fr \ {f}) /\ f \in fr
    BY <2>3, TakenOut
  <2>7. Changed(v.m, u.m, <<"pd", d>>, f) /\ <<"pd", d>> \in Slot /\ RefAt(u.m, <<"pd", d>>) = 0
    BY <2>1, <2>2, <2>4, <2>5, PdChanged, Slots, SlotRefs
  <2>8. Covered(v.m)
    BY <2>4 DEF Owns, Covered
  <2>9. v.free = u.free \cup Valid({RefAt(u.m, <<"pd", d>>)}) /\ v.st = u.st
    BY <2>4, <2>5, <2>7 DEF Valid
  <2>10. Owns(v, fr)
    BY <2>2, <2>4, <2>6, <2>7, <2>8, <2>9, PutOwned
  <2>11. QED
    BY <2>3, <2>4, <2>10 DEF Grown
<1>3. QED
  BY <1>1, <1>2

\* The page for a table that is not there
LEMMA PtFilled ==
    ASSUME NEW w, NEW fr, Owns(w, fr), w.st = "ok", NEW t \in Table, w.m.pt[t] = 0
    PROVE  Grown(Filled(w, "pt", t), w, fr)
<1>1. CASE w.free = {}
  <2>1. Owns(Failed(w), fr)
    BY StopOwned DEF Failed
  <2>2. Failed(w).m = w.m /\ Failed(w).st = "failed"
    BY DEF Failed, Owns, Works
  <2>3. QED
    BY <1>1, <2>1, <2>2 DEF Filled, Grown
<1>2. CASE w.free # {}
  <2>1. w \in Works /\ w.m \in Space /\ w.free \subseteq Frame
    BY DEF Owns, Works
  <2>2. PICK f \in w.free : f = Min(w.free) /\ f \in Frame /\ f \in Ref
    BY <1>2, <2>1, LowestFree DEF Frame, Ref
  <2>3. PICK u, v : u = [w EXCEPT !.free = @ \ {f}] /\ v = Filled(w, "pt", t)
    OBVIOUS
  <2>4. /\ v \in Works /\ v.m = [w.m EXCEPT !.pt[t] = f] /\ v.free = w.free \ {f} /\ v.st = "ok"
        /\ v.m.pte = w.m.pte /\ v.m.areas = w.m.areas /\ v.m.pgdir = w.m.pgdir
    BY <1>2, <2>1, <2>2, <2>3 DEF Filled, Works, Space
  <2>5. u.m = w.m /\ u.free = w.free \ {f} /\ u.st = w.st
    BY <2>1, <2>3 DEF Works
  <2>6. Owns(u, fr \ {f}) /\ f \in fr
    BY <2>3, TakenOut
  <2>7. Changed(v.m, u.m, <<"pt", t>>, f) /\ <<"pt", t>> \in Slot /\ RefAt(u.m, <<"pt", t>>) = 0
    BY <2>1, <2>2, <2>4, <2>5, PtChanged, Slots, SlotRefs
  <2>8. Covered(v.m)
    BY <2>4 DEF Owns, Covered
  <2>9. v.free = u.free \cup Valid({RefAt(u.m, <<"pt", t>>)}) /\ v.st = u.st
    BY <2>4, <2>5, <2>7 DEF Valid
  <2>10. Owns(v, fr)
    BY <2>2, <2>4, <2>6, <2>7, <2>8, <2>9, PutOwned
  <2>11. QED
    BY <2>3, <2>4, <2>10 DEF Grown
<1>3. QED
  BY <1>1, <1>2

\* get_pte with create
LEMMA GetPteGrows ==
    ASSUME NEW w, NEW fr, Owns(w, fr), w.st = "ok", NEW a \in Addr
    PROVE  Grown(GetPte(w, a), w, fr)
<1>1. PICK t \in Table, d \in Dir : t = TableOf(a) /\ d = DirOf(t)
  BY Levels
<1>2. PICK v : v = IF w.m.pd[d] # 0 THEN w ELSE Filled(w, "pd", d)
  OBVIOUS
<1>3. Grown(v, w, fr)
  BY <1>2, PdFilled DEF Grown
<1>4. GetPte(w, a) = IF v.st # "ok" \/ v.m.pt[t] # 0 THEN v ELSE Filled(v, "pt", t)
  BY <1>1, <1>2 DEF GetPte
<1>5. CASE v.st # "ok" \/ v.m.pt[t] # 0
  BY <1>3, <1>4, <1>5
<1>6. CASE v.st = "ok" /\ v.m.pt[t] = 0
  <2>1. Grown(Filled(v, "pt", t), v, fr)
    BY <1>3, <1>6, PtFilled DEF Grown
  <2>2. QED
    BY <1>3, <1>4, <1>6, <2>1 DEF Grown
<1>7. QED
  BY <1>5, <1>6

\* page_insert at a page that lies in an area
LEMMA InsertedOwned ==
    ASSUME NEW w, NEW fr, NEW f \in fr, f \in Frame, Owns(w, fr \ {f}), NEW a \in Addr,
           \E x \in Range(w.m.areas) : a \in Pages(x)
    PROVE  /\ Owns(Inserted(w, f, a), fr)
           /\ Inserted(w, f, a).m.areas = w.m.areas /\ Inserted(w, f, a).m.pgdir = w.m.pgdir
           /\ Inserted(w, f, a).st = w.st
<1>0. w \in Works /\ w.m \in Space /\ w.free \subseteq Frame /\ f \in Ref
  BY Levels DEF Owns, Works, Frame, Ref
<1>1. PICK v : v = Inserted(w, f, a)
  OBVIOUS
<1>2. PICK old \in Ref : old = w.m.pte[a]
  BY <1>0 DEF Space
<1>3. old # 0 => old \in Frame
  BY Levels DEF Frame, Ref
<1>4. /\ v \in Works /\ v.m = [w.m EXCEPT !.pte[a] = f] /\ v.st = w.st
      /\ v.free = IF old = 0 THEN w.free ELSE w.free \cup {old}
      /\ v.m.areas = w.m.areas /\ v.m.pgdir = w.m.pgdir /\ v.m.pte = [w.m.pte EXCEPT ![a] = f]
  BY <1>1, <1>0, <1>2, <1>3 DEF Inserted, Works, Space
<1>5. Changed(v.m, w.m, <<"pte", a>>, f) /\ <<"pte", a>> \in Slot /\ RefAt(w.m, <<"pte", a>>) = old
  BY <1>0, <1>2, <1>4, PteChanged, Slots, SlotRefs
<1>6. v.free = w.free \cup Valid({RefAt(w.m, <<"pte", a>>)})
  BY <1>4, <1>5 DEF Valid
<1>7. Covered(v.m)
  <2>1. w.m.pte \in [Addr -> Ref]
    BY <1>0 DEF Space
  <2>2. QED
    BY <1>4, <2>1 DEF Owns, Covered
<1>8. Owns(v, fr)
  BY <1>4, <1>5, <1>6, <1>7, PutOwned
<1>9. QED
  BY <1>1, <1>4, <1>8

\* pgdir_alloc_page
LEMMA PageGrows ==
    ASSUME NEW w, NEW fr, Owns(w, fr), w.st = "ok", NEW a \in Addr,
           \E x \in Range(w.m.areas) : a \in Pages(x)
    PROVE  Grown(PgdirAllocPage(w, a), w, fr)
<1>1. w \in Works /\ w.m \in Space /\ w.free \subseteq Frame
  BY DEF Owns, Works
<1>2. CASE w.free = {}
  <2>1. Owns(Failed(w), fr)
    BY StopOwned DEF Failed
  <2>2. Failed(w).m = w.m /\ Failed(w).st = "failed"
    BY <1>1 DEF Failed, Works
  <2>3. QED
    BY <1>2, <2>1, <2>2 DEF PgdirAllocPage, Grown
<1>3. CASE w.free # {}
  <2>1. PICK f \in w.free : f = Min(w.free)
    BY <1>1, <1>3, LowestFree
  <2>2. PICK u : u = [w EXCEPT !.free = @ \ {f}]
    OBVIOUS
  <2>3. Owns(u, fr \ {f}) /\ f \in fr /\ f \in Frame
    BY <2>2, TakenOut
  <2>4. u.m = w.m /\ u.st = "ok"
    BY <1>1, <2>2 DEF Works
  <2>5. PICK v : v = GetPte(u, a)
    OBVIOUS
  <2>6. Grown(v, u, fr \ {f})
    BY <2>3, <2>4, <2>5, GetPteGrows
  <2>7. /\ v.m.areas = w.m.areas /\ v.m.pgdir = w.m.pgdir
        /\ Owns(v, fr \ {f}) /\ v.st \in {"ok", "failed"}
    BY <2>4, <2>6 DEF Grown
  <2>8. PgdirAllocPage(w, a) = IF v.st = "ok" THEN Inserted(v, f, a) ELSE [v EXCEPT !.free = @ \cup {f}]
    BY <1>3, <2>1, <2>2, <2>5 DEF PgdirAllocPage
  <2>9. CASE v.st = "ok"
    BY <2>3, <2>7, <2>8, <2>9, InsertedOwned DEF Grown
  <2>10. CASE v.st # "ok"
    <3>1. PICK b : b = [v EXCEPT !.free = @ \cup {f}]
      OBVIOUS
    <3>2. Owns(b, fr)
      BY <2>3, <2>7, <3>1, PutBack
    <3>3. b.m = v.m /\ b.st = v.st
      BY <2>7, <3>1 DEF Owns, Works
    <3>4. QED
      BY <2>7, <2>8, <2>10, <3>1, <3>2, <3>3 DEF Grown
  <2>11. QED
    BY <2>9, <2>10
<1>4. QED
  BY <1>2, <1>3

\* The rounds of a loop, one after the other
Rounds(f, n, s, rounds) == f = [i \in 0..n |-> IF i = 0 THEN s ELSE rounds[i][f[i-1]]]

\* What every round of a loop keeps, the loop keeps.
LEMMA RepeatStays ==
    ASSUME NEW S, NEW n \in Nat, NEW s \in S, NEW rounds,
           \A i \in 1..n : \A v \in S : rounds[i][v] \in S
    PROVE  Repeat(n, s, rounds) \in S
<1>1. PICK g : g = [x \in S \X (1..n) |-> rounds[x[2]][x[1]]]
  OBVIOUS
<1>2. g \in [S \X (1..n) -> S] /\ \A v \in S, i \in 1..n : g[<<v, i>>] = rounds[i][v]
  BY <1>1
<1>3. PICK f \in [0..n -> S] : Repeats(f, n, s, g)
  BY <1>2, Repeated
<1>4. Rounds(f, n, s, rounds)
  <2>1. f = [i \in 0..n |-> IF i = 0 THEN s ELSE g[<<f[i-1], i>>]]
    BY <1>3, Zenon DEF Repeats
  <2>2. \A i \in 0..n : i # 0 => f[i-1] \in S /\ i \in 1..n
    OBVIOUS
  <2>3. \A i \in 0..n : f[i] = IF i = 0 THEN s ELSE rounds[i][f[i-1]]
    BY <1>2, <2>1, <2>2
  <2>4. QED
    BY <2>3 DEF Rounds
<1>5. PICK h : h = CHOOSE f1 : Rounds(f1, n, s, rounds)
  OBVIOUS
<1>6. Rounds(h, n, s, rounds)
  BY <1>4, <1>5, Zenon
<1>7. Repeat(n, s, rounds) = h[n]
  BY <1>5, Zenon DEF Repeat, Rounds
<1>8. h[0] = s /\ \A i \in 1..n : h[i] = rounds[i][h[i-1]]
  BY <1>6 DEF Rounds
<1> DEFINE T == {m \in Nat : m <= n => h[m] \in S}
<1>9. 0 \in T
  BY <1>8
<1>10. ASSUME NEW m \in Nat, m \in T PROVE m + 1 \in T
  <2>1. SUFFICES ASSUME m + 1 <= n PROVE h[m + 1] \in S
    OBVIOUS
  <2>2. h[m] \in S /\ m + 1 \in 1..n /\ (m + 1) - 1 = m
    BY <1>10, <2>1
  <2>3. QED
    BY <1>8, <2>2
<1>11. n \in T
  <2> HIDE DEF T
  <2>1. QED
    BY <1>9, <1>10, Induction
<1>12. QED
  BY <1>7, <1>11

\* A sequence with an element put in at one place has it and all it had.
LEMMA InsertAtRange ==
    ASSUME NEW S, NEW s \in Seq(S), NEW k \in 1..(Len(s) + 1), NEW x \in S
    PROVE  /\ InsertAt(s, k, x) \in Seq(S)
           /\ Range(InsertAt(s, k, x)) = Range(s) \cup {x}
<1>1. PICK u : u = InsertAt(s, k, x) /\ IsInserted(u, S, s, k, x)
  BY InsertAtElements
<1>2. PICK n \in Nat : n = Len(s)
  OBVIOUS
<1>3. /\ u \in Seq(S) /\ DOMAIN u = 1..(n + 1) /\ k \in 1..(n + 1) /\ DOMAIN s = 1..n
      /\ \A i \in 1..(n + 1) : u[i] = IF i < k THEN s[i] ELSE IF i = k THEN x ELSE s[i - 1]
  BY <1>1, <1>2 DEF IsInserted
<1>4. ASSUME NEW y \in Range(u) PROVE y \in Range(s) \cup {x}
  <2>1. PICK i \in 1..(n + 1) : y = u[i]
    BY <1>3 DEF Range
  <2>2. CASE i < k
    <3>1. i \in 1..n /\ y = s[i]
      BY <1>3, <2>1, <2>2
    <3>2. QED
      BY <1>3, <3>1 DEF Range
  <2>3. CASE i = k
    BY <1>3, <2>1, <2>3
  <2>4. CASE i > k
    <3>1. i - 1 \in 1..n /\ y = s[i - 1]
      BY <1>3, <2>1, <2>4
    <3>2. QED
      BY <1>3, <3>1 DEF Range
  <2>5. QED
    BY <1>3, <2>2, <2>3, <2>4
<1>5. ASSUME NEW i \in 1..n PROVE s[i] \in Range(u)
  <2>1. CASE i < k
    <3>1. i \in 1..(n + 1) /\ u[i] = s[i]
      BY <1>3, <2>1
    <3>2. QED
      BY <1>3, <3>1 DEF Range
  <2>2. CASE ~(i < k)
    <3>1. i + 1 \in 1..(n + 1) /\ u[i + 1] = s[(i + 1) - 1] /\ (i + 1) - 1 = i
      BY <1>3, <2>2
    <3>2. QED
      BY <1>3, <3>1 DEF Range
  <2>3. QED
    BY <2>1, <2>2
<1>6. x \in Range(u)
  <2>1. u[k] = x /\ k \in DOMAIN u
    BY <1>3
  <2>2. QED
    BY <2>1 DEF Range
<1>7. \A y \in Range(s) : y \in Range(u)
  BY <1>3, <1>5 DEF Range
<1>8. Range(u) = Range(s) \cup {x}
  BY <1>4, <1>6, <1>7
<1>9. QED
  BY <1>1, <1>3, <1>8

\* What inserting an area leaves: it may have stopped at an assertion or be refused.
Mapped(v, w, area, fr) ==
    /\ Owns(v, fr)
    /\ v.st = "ok" => Range(v.m.areas) = Range(w.m.areas) \cup {area}

\* insert_vma_struct
LEMMA InsertMaps ==
    ASSUME NEW w, NEW fr, Owns(w, fr), w.st = "ok", NEW area \in Vma
    PROVE  Mapped(InsertVma(w, area), w, area, fr)
<1>1. PICK areas : areas = w.m.areas
  OBVIOUS
<1>2. areas \in Seq(Vma) /\ w \in Works /\ w.m \in Space
  BY <1>1 DEF Owns, Works, Space
<1>3. PICK above : above = {i \in DOMAIN areas : areas[i][1] > area[1]}
  OBVIOUS
<1>4. PICK k : k = IF above = {} THEN Len(areas) + 1 ELSE Min(above)
  OBVIOUS
<1>5. k \in 1..(Len(areas) + 1)
  <2>1. above \subseteq 1..Len(areas) /\ Len(areas) \in Nat
    BY <1>2, <1>3
  <2>2. CASE above = {}
    BY <1>4, <2>1, <2>2
  <2>3. CASE above # {}
    <3>1. above \subseteq Nat
      BY <2>1
    <3>2. \E x \in above : \A y \in above : x <= y
      BY <2>3, <3>1, LeastNatural
    <3>3. Min(above) \in above
      BY <3>2, Zenon DEF Min
    <3>4. QED
      BY <1>4, <2>1, <2>3, <3>3
  <2>4. QED
    BY <2>2, <2>3
<1>6. PICK v1, v2 : /\ v1 = [w EXCEPT !.st = "overlap"]
                    /\ v2 = [w EXCEPT !.m.areas = InsertAt(areas, k, area)]
  OBVIOUS
<1>7. InsertVma(w, area) \in {v1, v2}
  BY <1>1, <1>3, <1>4, <1>6 DEF InsertVma
<1>8. Mapped(v1, w, area, fr)
  <2>1. Owns(v1, fr)
    BY <1>6, StopOwned
  <2>2. v1.st # "ok"
    BY <1>2, <1>6 DEF Works
  <2>3. QED
    BY <2>1, <2>2 DEF Mapped
<1>9. Mapped(v2, w, area, fr)
  <2>1. PICK new : new = InsertAt(areas, k, area)
    OBVIOUS
  <2>2. new \in Seq(Vma) /\ Range(new) = Range(areas) \cup {area}
    BY <1>2, <1>5, <2>1, InsertAtRange
  <2>3. /\ v2 \in Works /\ v2.free = w.free /\ v2.st = w.st
        /\ v2.m.areas = new /\ v2.m.pgdir = w.m.pgdir /\ v2.m.pd = w.m.pd /\ v2.m.pt = w.m.pt
        /\ v2.m.pte = w.m.pte
    BY <1>2, <1>6, <2>1, <2>2 DEF Works, Space
  <2>4. \A x \in Slot : RefAt(v2.m, x) = RefAt(w.m, x)
    BY <2>3, Slots, SlotRefs
  <2>5. Frames(v2.m) = Frames(w.m)
    BY <2>4 DEF Frames
  <2>6. Apart(v2.m)
    BY <2>4 DEF Owns, Apart
  <2>7. Covered(v2.m)
    BY <1>1, <2>2, <2>3 DEF Owns, Covered
  <2>8. Owns(v2, fr)
    BY <2>3, <2>5, <2>6, <2>7 DEF Owns
  <2>9. QED
    BY <1>1, <2>2, <2>3, <2>8 DEF Mapped
<1>10. QED
  BY <1>7, <1>8, <1>9

\* mm_map
LEMMA MmMapMaps ==
    ASSUME NEW w, NEW fr, Owns(w, fr), w.st = "ok", NEW area \in Vma
    PROVE  Mapped(MmMap(w, area), w, area, fr)
<1>1. Mapped(Failed(w), w, area, fr)
  <2>1. Owns(Failed(w), fr)
    BY StopOwned DEF Failed
  <2>2. Failed(w).st = "failed"
    BY DEF Failed, Owns, Works
  <2>3. QED
    BY <2>1, <2>2 DEF Mapped
<1>2. QED
  BY <1>1, InsertMaps DEF MmMap

\* An address space that is being built and, as long as all goes well, has the area.
Owners(fr) == {w \in Works : Owns(w, fr)}
With(fr, area) == {w \in Owners(fr) : w.st = "ok" => area \in Range(w.m.areas)}

\* copy_range, one page
LEMMA CopyPageStays ==
    ASSUME NEW w, NEW fr, Owns(w, fr), w.st = "ok", NEW a \in Addr,
           \E x \in Range(w.m.areas) : a \in Pages(x)
    PROVE  Owns(CopyPage(w, a), fr) /\ CopyPage(w, a).m.areas = w.m.areas
<1>1. PICK v : v = GetPte(w, a)
  OBVIOUS
<1>2. Owns(v, fr) /\ v.m.areas = w.m.areas /\ v.st \in {"ok", "failed"}
  BY <1>1, GetPteGrows DEF Grown
<1>3. v \in Works /\ v.free \subseteq Frame
  BY <1>2 DEF Owns, Works
<1>4. CASE v.st # "ok"
  <2>1. CopyPage(w, a) = v
    BY <1>1, <1>4 DEF CopyPage
  <2>2. QED
    BY <1>2, <2>1
<1>5. CASE v.st = "ok" /\ v.free = {}
  <2>1. PICK u : u = [v EXCEPT !.st = "memory"]
    OBVIOUS
  <2>2. CopyPage(w, a) = u
    BY <1>1, <1>5, <2>1 DEF CopyPage
  <2>3. Owns(u, fr)
    BY <1>2, <1>5, <2>1, StopOwned
  <2>4. u.m = v.m
    BY <1>3, <2>1 DEF Works
  <2>5. QED
    BY <1>2, <2>2, <2>3, <2>4
<1>6. CASE v.st = "ok" /\ v.free # {}
  <2>1. PICK f \in v.free : f = Min(v.free)
    BY <1>3, <1>6, LowestFree
  <2>2. PICK u : u = [v EXCEPT !.free = @ \ {f}]
    OBVIOUS
  <2>3. CopyPage(w, a) = Inserted(u, f, a)
    BY <1>1, <1>6, <2>1, <2>2 DEF CopyPage
  <2>4. Owns(u, fr \ {f}) /\ f \in fr /\ f \in Frame
    BY <1>2, <2>2, TakenOut
  <2>5. u.m = v.m
    BY <1>3, <2>2 DEF Works
  <2>6. Owns(Inserted(u, f, a), fr) /\ Inserted(u, f, a).m.areas = u.m.areas
    BY <1>2, <2>4, <2>5, InsertedOwned
  <2>7. QED
    BY <1>2, <2>3, <2>5, <2>6
<1>7. QED
  BY <1>4, <1>5, <1>6

\* One page of the stack
LEMMA StackPageStays ==
    ASSUME NEW w, NEW fr, Owns(w, fr), w.st = "ok", NEW a \in Addr,
           \E x \in Range(w.m.areas) : a \in Pages(x)
    PROVE  Owns(StackPage(w, a), fr) /\ StackPage(w, a).m.areas = w.m.areas
<1>1. PICK v : v = PgdirAllocPage(w, a)
  OBVIOUS
<1>2. /\ Owns(v, fr) /\ v.st \in {"ok", "failed"}
      /\ v.m.areas = w.m.areas /\ v.m.pgdir = w.m.pgdir
  BY <1>1, PageGrows DEF Grown
<1>3. CASE v.st = "ok"
  <2>1. StackPage(w, a) = v
    BY <1>1, <1>3 DEF StackPage
  <2>2. QED
    BY <1>2, <2>1
<1>4. CASE v.st = "failed"
  <2>1. PICK u : u = [v EXCEPT !.st = "memory"]
    OBVIOUS
  <2>2. StackPage(w, a) = u
    BY <1>1, <1>4, <2>1 DEF StackPage
  <2>3. v \in Works
    BY <1>2 DEF Owns
  <2>4. u.m = v.m
    BY <2>1, <2>3 DEF Works
  <2>5. Owns(u, fr)
    <3>1. u \in Works /\ u.free = v.free
      BY <2>1, <2>3 DEF Works
    <3>2. v.m.pgdir # 0
      BY <1>2 DEF Owns
    <3>3. QED
      BY <1>2, <2>4, <3>1, <3>2 DEF Owns
  <2>6. QED
    BY <1>2, <2>2, <2>4, <2>5
<1>5. QED
  BY <1>2, <1>3, <1>4

\* The pages of an area, from its start on
LEMMA AreaPages ==
    ASSUME NEW area \in Vma
    PROVE  /\ area[2] - area[1] \in Nat
           /\ \A j \in 1 .. area[2] - area[1] : area[1] + j - 1 \in Addr /\ area[1] + j - 1 \in Pages(area)
<1>1. area[1] \in Addr /\ area[2] \in 1..USERTOP /\ area[1] < area[2] /\ USERTOP \in Nat
  BY Levels DEF Vma
<1>2. PICK l \in Nat, h \in Nat : l = area[1] /\ h = area[2] /\ l < h /\ h <= USERTOP
  BY <1>1 DEF Addr
<1>3. ASSUME NEW j \in 1 .. h - l
      PROVE  l + j - 1 \in Addr /\ l + j - 1 \in Pages(area)
  <2>1. l + j - 1 \in 0 .. USERTOP - 1
    BY <1>1, <1>2
  <2>2. l <= l + j - 1 /\ l + j - 1 < h
    BY <1>2
  <2>3. QED
    BY <1>2, <2>1, <2>2 DEF Addr, Pages
<1>4. QED
  BY <1>2, <1>3

\* A step that is cut, or not taken any more
LEMMA GoStays ==
    ASSUME NEW w, NEW fr, Owns(w, fr), NEW iscut \in BOOLEAN, NEW next, NEW area,
           w.st = "ok" => Owns(next, fr)
    PROVE  /\ Owns(Go(w, iscut, next), fr)
           /\ (w.st = "ok" => (next.st = "ok" => area \in Range(next.m.areas)))
              => (Go(w, iscut, next).st = "ok" => area \in Range(Go(w, iscut, next).m.areas))
<1>1. CASE w.st # "ok"
  <2>1. Go(w, iscut, next) = w
    BY <1>1 DEF Go
  <2>2. QED
    BY <1>1, <2>1
<1>2. CASE w.st = "ok" /\ iscut
  <2>1. Go(w, iscut, next) = Failed(w)
    BY <1>2 DEF Go
  <2>2. Owns(Failed(w), fr)
    BY <1>2, StopOwned DEF Failed
  <2>3. Failed(w).st = "failed"
    BY DEF Failed, Owns, Works
  <2>4. QED
    BY <2>1, <2>2, <2>3
<1>3. CASE w.st = "ok" /\ ~iscut
  <2>1. Go(w, iscut, next) = next
    BY <1>3 DEF Go
  <2>2. QED
    BY <1>3, <2>1
<1>4. QED
  BY <1>1, <1>2, <1>3

\* load_icode: the pages of a segment that is mapped
LEMMA LoadPagesStay ==
    ASSUME NEW fr, NEW area \in Vma, NEW w \in With(fr, area), NEW i, NEW cut
    PROVE  LoadPages(w, area, i, cut) \in With(fr, area)
<1>1. PICK n \in Nat : n = area[2] - area[1]
  BY AreaPages
<1>2. PICK rounds :
        rounds = [j \in 1..n |-> [v \in Works |->
                    Go(v, cut = <<i, j>>, PgdirAllocPage(v, area[1] + j - 1))]]
  OBVIOUS
<1>3. ASSUME NEW j \in 1..n, NEW v \in With(fr, area)
      PROVE  rounds[j][v] \in With(fr, area)
  <2>1. PICK a \in Addr : a = area[1] + j - 1 /\ a \in Pages(area)
    BY <1>1, AreaPages
  <2>2. v \in Works /\ Owns(v, fr) /\ (v.st = "ok" => area \in Range(v.m.areas))
    BY DEF With, Owners
  <2>3. PICK iscut \in BOOLEAN : iscut = (cut = <<i, j>>)
    OBVIOUS
  <2>4. PICK next : next = PgdirAllocPage(v, a)
    OBVIOUS
  <2>5. PICK u : u = Go(v, iscut, next)
    OBVIOUS
  <2>6. rounds[j][v] = u
    BY <1>2, <2>1, <2>2, <2>3, <2>4, <2>5
  <2>7. v.st = "ok" => Owns(next, fr) /\ next.m.areas = v.m.areas
    BY <2>1, <2>2, <2>4, PageGrows DEF Grown
  <2>8. Owns(u, fr) /\ (u.st = "ok" => area \in Range(u.m.areas))
    BY <2>2, <2>5, <2>7, GoStays
  <2>9. u \in Works
    BY <2>8 DEF Owns
  <2>10. QED
    BY <2>6, <2>8, <2>9 DEF With, Owners
<1>4. LoadPages(w, area, i, cut) = Repeat(n, w, rounds)
  BY <1>1, <1>2 DEF LoadPages
<1>5. QED
  BY <1>3, <1>4, RepeatStays

\* dup_mmap: the pages of an area that is inserted
LEMMA CopyRangeStays ==
    ASSUME NEW fr, NEW area \in Vma, NEW w \in With(fr, area), NEW from, NEW i, NEW cut
    PROVE  CopyRange(w, from, area, i, cut) \in With(fr, area)
<1>1. PICK n \in Nat : n = area[2] - area[1]
  BY AreaPages
<1>2. PICK rounds :
        rounds = [j \in 1..n |-> [v \in Works |->
                    IF from.pte[area[1] + j - 1] = 0 THEN v
                    ELSE Go(v, cut = <<i, j>>, CopyPage(v, area[1] + j - 1))]]
  OBVIOUS
<1>3. ASSUME NEW j \in 1..n, NEW v \in With(fr, area)
      PROVE  rounds[j][v] \in With(fr, area)
  <2>1. PICK a \in Addr : a = area[1] + j - 1 /\ a \in Pages(area)
    BY <1>1, AreaPages
  <2>2. v \in Works /\ Owns(v, fr) /\ (v.st = "ok" => area \in Range(v.m.areas))
    BY DEF With, Owners
  <2>3. PICK iscut \in BOOLEAN : iscut = (cut = <<i, j>>)
    OBVIOUS
  <2>4. PICK next : next = CopyPage(v, a)
    OBVIOUS
  <2>5. PICK u : u = Go(v, iscut, next)
    OBVIOUS
  <2>6. rounds[j][v] = IF from.pte[a] = 0 THEN v ELSE u
    BY <1>2, <2>1, <2>2, <2>3, <2>4, <2>5
  <2>7. v.st = "ok" => Owns(next, fr) /\ next.m.areas = v.m.areas
    BY <2>1, <2>2, <2>4, CopyPageStays
  <2>8. Owns(u, fr) /\ (u.st = "ok" => area \in Range(u.m.areas))
    BY <2>2, <2>5, <2>7, GoStays
  <2>9. u \in Works
    BY <2>8 DEF Owns
  <2>10. u \in With(fr, area)
    BY <2>8, <2>9 DEF With, Owners
  <2>11. QED
    BY <2>6, <2>10
<1>4. CopyRange(w, from, area, i, cut) = Repeat(n, w, rounds)
  BY <1>1, <1>2 DEF CopyRange
<1>5. QED
  BY <1>3, <1>4, RepeatStays

\* setup_pgdir
LEMMA SetupOwns ==
    ASSUME NEW fr, fr \subseteq Frame
    PROVE  /\ Owns(SetupPgdir(fr), fr)
           /\ Owns(Failed(Work(NoMm, fr)), fr)
<1>1. /\ NoMm \in Space /\ NoMm.areas = <<>> /\ NoMm.pgdir = 0
      /\ \A d \in Dir : NoMm.pd[d] = 0
      /\ \A t \in Table : NoMm.pt[t] = 0
      /\ \A a \in Addr : NoMm.pte[a] = 0
  BY Levels DEF NoMm, Space, Ref
<1>2. PICK none : none = NoMm
  OBVIOUS
<1>3. /\ none \in Space /\ none.pgdir = 0 /\ \A x \in Slot : RefAt(none, x) = 0
  BY <1>1, <1>2, Slots, SlotRefs
<1>4. Frames(none) = {} /\ Apart(none) /\ Covered(none)
  BY <1>1, <1>2, <1>3 DEF Frames, Valid, Apart, Covered
<1>5. Owns(Failed(Work(NoMm, fr)), fr)
  <2>1. PICK u : u = Failed(Work(NoMm, fr))
    OBVIOUS
  <2>2. u \in Works /\ u.m = none /\ u.free = fr /\ u.st = "failed"
    BY <1>2, <1>3, <2>1 DEF Failed, Work, Works
  <2>3. QED
    BY <1>4, <2>1, <2>2 DEF Owns
<1>6. CASE fr = {}
  BY <1>5, <1>6 DEF SetupPgdir
<1>7. CASE fr # {}
  <2>0. PICK f \in fr : f = Min(fr) /\ f \in Frame /\ f # 0
    BY <1>7, LowestFree
  <2>1. f = Min(fr) /\ f \in Frame /\ f # 0 /\ f \in Ref
    BY <2>0 DEF Frame, Ref
  <2>2. PICK m : m = [none EXCEPT !.pgdir = f]
    OBVIOUS
  <2>3. PICK u : u = SetupPgdir(fr)
    OBVIOUS
  <2>4. m \in Space /\ m.pgdir = f /\ m.areas = none.areas /\ m.pd = none.pd /\ m.pt = none.pt /\ m.pte = none.pte
    BY <1>3, <2>1, <2>2 DEF Space
  <2>5. u \in Works /\ u.m = m /\ u.free = fr \ {f} /\ u.st = "ok"
    BY <1>2, <1>7, <2>1, <2>2, <2>3, <2>4 DEF SetupPgdir, Work, Works
  <2>6. \A x \in Slot : RefAt(m, x) = IF x = <<"pgdir", 0>> THEN f ELSE 0
    BY <1>1, <1>2, <2>4, Slots, SlotRefs
  <2>7. Frames(m) = {f}
    <3>1. \A g \in Frames(m) : g = f
      BY <2>4, <2>6, FramesAre
    <3>2. f \in Frames(m)
      BY <2>1, <2>4, <2>6, FramesAre, Slots
    <3>3. QED
      BY <3>1, <3>2
  <2>8. Apart(m)
    BY <2>6 DEF Apart
  <2>9. Covered(m)
    BY <1>1, <1>2, <2>4 DEF Covered
  <2>10. QED
    BY <1>5, <2>1, <2>3, <2>4, <2>5, <2>7, <2>8, <2>9 DEF Owns
<1>8. QED
  BY <1>6, <1>7

\* What mm_map or insert_vma_struct leaves has the area if all went well.
LEMMA MappedWith ==
    ASSUME NEW v, NEW w, NEW area, NEW fr, Mapped(v, w, area, fr)
    PROVE  v \in With(fr, area)
<1>1. Owns(v, fr) /\ v \in Works /\ (v.st = "ok" => area \in Range(v.m.areas))
  BY DEF Mapped, Owns
<1>2. QED
  BY <1>1 DEF With, Owners

\* load_icode: the segments of a program
LEMMA LoadSegmentsStay ==
    ASSUME NEW fr, NEW w \in Owners(fr), NEW prog \in Seq(Vma), NEW cut
    PROVE  LoadSegments(w, prog, cut) \in Owners(fr)
<1>1. PICK n \in Nat : n = Len(prog) /\ DOMAIN prog = 1..n
  OBVIOUS
<1>2. PICK rounds :
        rounds = [i \in 1..n |-> [v \in Works |->
                    Go(v, cut = <<i, 0>>, LoadPages(MmMap(v, prog[i]), prog[i], i, cut))]]
  OBVIOUS
<1>3. ASSUME NEW i \in 1..n, NEW v \in Owners(fr)
      PROVE  rounds[i][v] \in Owners(fr)
  <2>1. PICK area \in Vma : area = prog[i]
    BY <1>1
  <2>2. v \in Works /\ Owns(v, fr)
    BY DEF Owners
  <2>3. PICK iscut \in BOOLEAN : iscut = (cut = <<i, 0>>)
    OBVIOUS
  <2>4. PICK x : x = MmMap(v, area)
    OBVIOUS
  <2>5. PICK next : next = LoadPages(x, area, i, cut)
    OBVIOUS
  <2>6. PICK u : u = Go(v, iscut, next)
    OBVIOUS
  <2>7. rounds[i][v] = u
    BY <1>2, <2>1, <2>2, <2>3, <2>4, <2>5, <2>6
  <2>8. ASSUME v.st = "ok" PROVE Owns(next, fr)
    <3>1. Mapped(x, v, area, fr)
      BY <2>2, <2>4, <2>8, MmMapMaps
    <3>2. x \in With(fr, area)
      BY <3>1, MappedWith
    <3>3. next \in With(fr, area)
      BY <2>5, <3>2, LoadPagesStay
    <3>4. QED
      BY <3>3 DEF With, Owners
  <2>9. Owns(u, fr)
    BY <2>2, <2>6, <2>8, GoStays
  <2>10. QED
    BY <2>7, <2>9 DEF Owners, Owns
<1>4. LoadSegments(w, prog, cut) = Repeat(n, w, rounds)
  BY <1>1, <1>2 DEF LoadSegments
<1>5. QED
  BY <1>3, <1>4, RepeatStays

\* The area of the stack, and the pages at its high end
LEMMA StackArea ==
    /\ <<USERTOP - STACK, USERTOP>> \in Vma
    /\ \A j \in 1..STACKMAPPED : /\ USERTOP - j \in Addr
                                 /\ USERTOP - j \in Pages(<<USERTOP - STACK, USERTOP>>)
<1>1. PICK top \in Nat, s \in Nat, k \in Nat :
        top = USERTOP /\ s = STACK /\ k = STACKMAPPED /\ 1 <= s /\ s <= top /\ 1 <= k /\ k <= s
  BY Levels
<1>2. \A j \in 1..k : /\ top - j \in 0 .. top - 1
                      /\ top - s <= top - j /\ top - j < top
  BY <1>1
<1>3. top - s \in 0 .. top - 1 /\ top \in 1..top /\ top - s < top
  BY <1>1
<1>4. QED
  BY <1>1, <1>2, <1>3 DEF Vma, Addr, Pages

\* load_icode: the stack
LEMMA LoadStackStays ==
    ASSUME NEW fr, NEW w \in Owners(fr), NEW prog, NEW cut
    PROVE  LoadStack(w, prog, cut) \in Owners(fr)
<1>0. PICK n \in Nat : n = STACKMAPPED
  BY Levels
<1>1. PICK area \in Vma :
        /\ area = <<USERTOP - STACK, USERTOP>>
        /\ \A j \in 1..n : USERTOP - j \in Addr /\ USERTOP - j \in Pages(area)
  BY <1>0, StackArea
<1>2. PICK rounds :
        rounds = [j \in 1..n |-> [v \in Works |-> Go(v, FALSE, StackPage(v, USERTOP - j))]]
  OBVIOUS
<1>3. ASSUME NEW j \in 1..n, NEW v \in With(fr, area)
      PROVE  rounds[j][v] \in With(fr, area)
  <2>1. PICK a \in Addr : a = USERTOP - j /\ a \in Pages(area)
    BY <1>1
  <2>2. v \in Works /\ Owns(v, fr) /\ (v.st = "ok" => area \in Range(v.m.areas))
    BY DEF With, Owners
  <2>3. PICK next : next = StackPage(v, a)
    OBVIOUS
  <2>4. PICK u : u = Go(v, FALSE, next)
    OBVIOUS
  <2>5. rounds[j][v] = u
    BY <1>2, <2>1, <2>2, <2>3, <2>4
  <2>6. v.st = "ok" => Owns(next, fr) /\ next.m.areas = v.m.areas
    BY <2>1, <2>2, <2>3, StackPageStays
  <2>7. Owns(u, fr) /\ (u.st = "ok" => area \in Range(u.m.areas))
    BY <2>2, <2>4, <2>6, GoStays
  <2>8. QED
    BY <2>5, <2>7 DEF With, Owners, Owns
<1>4. PICK iscut \in BOOLEAN : iscut = (cut = <<Len(prog) + 1, 0>>)
  OBVIOUS
<1>5. PICK x, next : x = MmMap(w, area) /\ next = Repeat(n, x, rounds)
  OBVIOUS
<1>6. LoadStack(w, prog, cut) = Go(w, iscut, next)
  BY <1>4, <1>0, <1>1, <1>2, <1>5 DEF LoadStack
<1>7. Owns(w, fr)
  BY DEF Owners
<1>8. ASSUME w.st = "ok" PROVE Owns(next, fr)
  <2>1. x \in With(fr, area)
    BY <1>5, <1>7, <1>8, MmMapMaps, MappedWith
  <2>2. next \in With(fr, area)
    BY <1>3, <1>5, <2>1, RepeatStays
  <2>3. QED
    BY <2>2 DEF With, Owners
<1>9. Owns(Go(w, iscut, next), fr)
  BY <1>7, <1>8, GoStays
<1>10. QED
  BY <1>6, <1>9 DEF Owners, Owns

\* load_icode
LEMMA LoadIcodeOwns ==
    ASSUME NEW fr, fr \subseteq Frame, NEW prog \in Seq(Vma), NEW cut
    PROVE  Owns(LoadIcode(fr, prog, cut), fr)
<1>1. PICK u, v : u = SetupPgdir(fr) /\ v = LoadSegments(u, prog, cut)
  OBVIOUS
<1>2. u \in Owners(fr)
  BY <1>1, SetupOwns DEF Owners, Owns
<1>3. v \in Owners(fr)
  BY <1>1, <1>2, LoadSegmentsStay
<1>4. LoadIcode(fr, prog, cut) = LoadStack(v, prog, cut)
  BY <1>1 DEF LoadIcode
<1>5. QED
  BY <1>3, <1>4, LoadStackStays DEF Owners

\* dup_mmap
LEMMA DupMmapOwns ==
    ASSUME NEW fr, fr \subseteq Frame, NEW from \in Space, NEW cut
    PROVE  Owns(DupMmap(fr, from, cut), fr)
<1>1. PICK n \in Nat : /\ n = Len(from.areas) /\ DOMAIN from.areas = 1..n
                       /\ \A i \in 1..n : FromBehind(from.areas, i) \in Vma
  <2>1. from.areas \in Seq(Vma)
    BY DEF Space
  <2>2. PICK n \in Nat : n = Len(from.areas) /\ DOMAIN from.areas = 1..n
    BY <2>1
  <2>3. \A i \in 1..n : n + 1 - i \in 1..n
    BY <2>2
  <2>4. QED
    BY <2>1, <2>2, <2>3 DEF FromBehind
<1>2. PICK rounds :
        rounds = [i \in 1..n |-> [v \in Works |->
                    LET area == FromBehind(from.areas, i)
                    IN Go(v, cut = <<i, 0>>, CopyRange(InsertVma(v, area), from, area, i, cut))]]
  OBVIOUS
<1>3. ASSUME NEW i \in 1..n, NEW v \in Owners(fr)
      PROVE  rounds[i][v] \in Owners(fr)
  <2>1. PICK area \in Vma : area = FromBehind(from.areas, i)
    BY <1>1
  <2>2. v \in Works /\ Owns(v, fr)
    BY DEF Owners
  <2>3. PICK iscut \in BOOLEAN : iscut = (cut = <<i, 0>>)
    OBVIOUS
  <2>4. PICK x : x = InsertVma(v, area)
    OBVIOUS
  <2>5. PICK next : next = CopyRange(x, from, area, i, cut)
    OBVIOUS
  <2>6. PICK u : u = Go(v, iscut, next)
    OBVIOUS
  <2>7. rounds[i][v] = u
    BY <1>2, <2>1, <2>2, <2>3, <2>4, <2>5, <2>6
  <2>8. ASSUME v.st = "ok" PROVE Owns(next, fr)
    <3>1. Mapped(x, v, area, fr)
      BY <2>2, <2>4, <2>8, InsertMaps
    <3>2. x \in With(fr, area)
      BY <3>1, MappedWith
    <3>3. next \in With(fr, area)
      BY <2>5, <3>2, CopyRangeStays
    <3>4. QED
      BY <3>3 DEF With, Owners
  <2>9. Owns(u, fr)
    BY <2>2, <2>6, <2>8, GoStays
  <2>10. QED
    BY <2>7, <2>9 DEF Owners, Owns
<1>4. DupMmap(fr, from, cut) = Repeat(n, SetupPgdir(fr), rounds)
  BY <1>1, <1>2 DEF DupMmap
<1>5. SetupPgdir(fr) \in Owners(fr)
  BY SetupOwns DEF Owners, Owns
<1>6. Repeat(n, SetupPgdir(fr), rounds) \in Owners(fr)
  BY <1>3, <1>5, RepeatStays
<1>7. QED
  BY <1>4, <1>6 DEF Owners

\* The pages of an address space
PagesOf(m) == Valid(Range(m.pte))

\* What taking down goes through: the frames lo are free, and all that is free or
\* referred to is in hi.
Between(v, lo, hi) == v \in Works /\ lo \subseteq v.free /\ v.free \cup Frames(v.m) \subseteq hi

\* unmap_range of every area: no page is left.
LEMMA UnmapFrees ==
    ASSUME NEW w \in Works, Covered(w.m)
    PROVE  Between(UnmapRanges(w), w.free \cup PagesOf(w.m), w.free \cup Frames(w.m))
<1>1. w.m \in Space /\ w.m.pte \in [Addr -> Ref] /\ w.free \subseteq Frame
  BY DEF Works, Space
<1>2. PICK pages : pages = UNION {Pages(area) : area \in Range(w.m.areas)}
  OBVIOUS
<1>3. pages \subseteq Addr
  BY <1>2 DEF Pages
<1>4. PICK v : v = UnmapRanges(w)
  OBVIOUS
<1>5. \A a \in Addr : w.m.pte[a] # 0 => a \in pages
  BY <1>2 DEF Covered
<1>6. PICK back : back = Valid({w.m.pte[a] : a \in pages})
  OBVIOUS
<1>7. \A a \in Addr : w.m.pte[a] # 0 => w.m.pte[a] \in Frames(w.m)
  BY <1>1, EntriesInFrames
<1>8. back = PagesOf(w.m)
  <2>1. \A f \in back : \E a \in Addr : f = w.m.pte[a] /\ f # 0
    BY <1>3, <1>6 DEF Valid
  <2>2. \A a \in Addr : w.m.pte[a] # 0 => w.m.pte[a] \in back
    BY <1>5, <1>6 DEF Valid
  <2>3. \A f \in PagesOf(w.m) : \E a \in Addr : f = w.m.pte[a] /\ f # 0
    BY <1>1 DEF PagesOf, Valid, Range
  <2>4. \A a \in Addr : w.m.pte[a] # 0 => w.m.pte[a] \in PagesOf(w.m)
    BY <1>1 DEF PagesOf, Valid, Range
  <2>5. QED
    BY <2>1, <2>2, <2>3, <2>4
<1>9. back \subseteq Frames(w.m) /\ Frames(w.m) \subseteq Frame
  <2>1. ASSUME NEW f \in back PROVE f \in Frames(w.m)
    <3>1. f \in {w.m.pte[a] : a \in pages} /\ f # 0
      BY <1>6, Zenon DEF Valid
    <3>2. PICK a \in pages : f = w.m.pte[a]
      BY <3>1, Zenon
    <3>3. QED
      BY <1>3, <1>7, <3>1, <3>2
  <2>2. QED
    BY <1>1, <2>1, FramesAre
<1>10. /\ v \in Works /\ v.free = w.free \cup back /\ v.m \in Space
       /\ v.m.pgdir = w.m.pgdir /\ v.m.pd = w.m.pd /\ v.m.pt = w.m.pt
       /\ v.m.pte = [a \in Addr |-> IF a \in pages THEN 0 ELSE w.m.pte[a]]
  <2>1. [a \in Addr |-> IF a \in pages THEN 0 ELSE w.m.pte[a]] \in [Addr -> Ref]
    BY <1>1, Levels DEF Ref
  <2>2. QED
    BY <1>1, <1>2, <1>4, <1>6, <1>9, <2>1 DEF UnmapRanges, Works, Space
<1>11. \A a \in Addr : v.m.pte[a] = 0
  BY <1>5, <1>10
<1>12. Frames(v.m) \subseteq Frames(w.m)
  <2>1. ASSUME NEW f \in Frames(v.m) PROVE f \in Frames(w.m)
    <3>1. PICK x \in Slot : f = RefAt(v.m, x) /\ f # 0
      BY <1>10, FramesAre
    <3>2. RefAt(v.m, x) = RefAt(w.m, x)
      BY <1>10, <1>11, <3>1, Slots, SlotRefs
    <3>3. QED
      BY <1>1, <3>1, <3>2, FramesAre
  <2>2. QED
    BY <2>1
<1>13. QED
  BY <1>4, <1>8, <1>9, <1>10, <1>12 DEF Between

\* exit_range: what it frees an entry referred to.
LEMMA ExitRangeFrees ==
    ASSUME NEW lo, NEW hi, NEW v, Between(v, lo, hi), NEW area
    PROVE  Between(ExitRange(v, area), lo, hi)
<1>1. /\ v \in Works /\ v.m \in Space /\ v.free \subseteq Frame
      /\ v.m.pd \in [Dir -> Ref] /\ v.m.pt \in [Table -> Ref]
  BY DEF Between, Works, Space
<1>2. PICK emptied, gone :
        /\ emptied = {t \in TablesOf(area) : v.m.pt[t] # 0 /\ TableEmpty(v.m, t)}
        /\ gone = {d \in DirsOf(area) :
                      /\ v.m.pd[d] # 0
                      /\ \A t \in TablesOf(area) : DirOf(t) = d => v.m.pt[t] # 0}
  OBVIOUS
<1>3. emptied \subseteq Table /\ gone \subseteq Dir
  BY <1>2, Levels DEF TablesOf, DirsOf
<1>4. PICK u, back : u = ExitRange(v, area) /\ back = {v.m.pt[t] : t \in emptied} \cup {v.m.pd[d] : d \in gone}
  OBVIOUS
<1>5. back \subseteq Frames(v.m) /\ Frames(v.m) \subseteq Frame
  <2>1. \A t \in emptied : v.m.pt[t] \in Frames(v.m)
    <3>1. \A t \in Table : v.m.pt[t] # 0 => v.m.pt[t] \in Frames(v.m)
      BY <1>1, EntriesInFrames
    <3>2. \A t \in emptied : v.m.pt[t] # 0
      BY <1>2
    <3>3. QED
      BY <1>3, <3>1, <3>2
  <2>2. \A d \in gone : v.m.pd[d] \in Frames(v.m)
    <3>1. \A d \in Dir : v.m.pd[d] # 0 => v.m.pd[d] \in Frames(v.m)
      BY <1>1, EntriesInFrames
    <3>2. \A d \in gone : v.m.pd[d] # 0
      BY <1>2
    <3>3. QED
      BY <1>3, <3>1, <3>2
  <2>3. \A f \in back : (\E t \in emptied : f = v.m.pt[t]) \/ (\E d \in gone : f = v.m.pd[d])
    BY <1>4, Zenon
  <2>4. back \subseteq Frames(v.m)
    <3>1. ASSUME NEW f \in back PROVE f \in Frames(v.m)
      BY <2>1, <2>2, <2>3
    <3>2. QED
      BY <3>1
  <2>5. QED
    BY <1>1, <2>4, FramesAre
<1>6. PICK pt, pd :
        /\ pt = [t \in Table |-> IF t \in emptied \/ DirOf(t) \in gone THEN 0 ELSE v.m.pt[t]]
        /\ pd = [d \in Dir |-> IF d \in gone THEN 0 ELSE v.m.pd[d]]
  OBVIOUS
<1>7. pt \in [Table -> Ref] /\ pd \in [Dir -> Ref]
  BY <1>1, <1>6, Levels DEF Ref
<1>8. /\ u.free = (v.free \cup {v.m.pt[t] : t \in emptied}) \cup {v.m.pd[d] : d \in gone}
      /\ u.m = [v.m EXCEPT !.pt = pt, !.pd = pd] /\ u.st = v.st
      /\ u = [v EXCEPT !.free = u.free, !.m = u.m]
  BY <1>1, <1>2, <1>4, <1>6 DEF ExitRange, Works, Space
<1>9. /\ u \in Works /\ u.m \in Space /\ u.free = v.free \cup back
      /\ u.m.pgdir = v.m.pgdir /\ u.m.pd = pd /\ u.m.pt = pt /\ u.m.pte = v.m.pte
  BY <1>1, <1>4, <1>5, <1>7, <1>8 DEF Works, Space
<1>10. Frames(u.m) \subseteq Frames(v.m)
  <2>1. ASSUME NEW f \in Frames(u.m) PROVE f \in Frames(v.m)
    <3>1. PICK x \in Slot : f = RefAt(u.m, x) /\ f # 0
      BY <1>9, FramesAre
    <3>2. RefAt(u.m, x) = RefAt(v.m, x)
      BY <1>6, <1>9, <3>1, Slots, SlotRefs
    <3>3. QED
      BY <1>1, <3>1, <3>2, FramesAre
  <2>2. QED
    BY <2>1
<1>11. QED
  BY <1>4, <1>5, <1>9, <1>10 DEF Between

\* exit_mmap, put_pgdir and mm_destroy: every page is free then, and nothing that was
\* not free or referred to before.
LEMMA DestroyedFrees ==
    ASSUME NEW w \in Works, Covered(w.m)
    PROVE  /\ w.free \cup PagesOf(w.m) \subseteq Destroyed(w)
           /\ Destroyed(w) \subseteq w.free \cup Frames(w.m)
<1>1. PICK lo, hi : lo = w.free \cup PagesOf(w.m) /\ hi = w.free \cup Frames(w.m)
  OBVIOUS
<1>2. PICK v : v = UnmapRanges(w)
  OBVIOUS
<1>3. Between(v, lo, hi)
  BY <1>1, <1>2, UnmapFrees
<1>4. PICK S : S = {u \in Works : Between(u, lo, hi)}
  OBVIOUS
<1>5. PICK n \in Nat : n = Len(v.m.areas) /\ DOMAIN v.m.areas = 1..n
  <2>1. v.m.areas \in Seq(Vma)
    BY <1>3 DEF Between, Works, Space
  <2>2. QED
    BY <2>1
<1>6. PICK rounds : rounds = [i \in 1..n |-> [u \in Works |-> ExitRange(u, v.m.areas[i])]]
  OBVIOUS
<1>7. ASSUME NEW i \in 1..n, NEW u \in S PROVE rounds[i][u] \in S
  <2>1. PICK x : x = ExitRange(u, v.m.areas[i])
    OBVIOUS
  <2>2. rounds[i][u] = x
    BY <1>4, <1>6, <2>1
  <2>3. Between(x, lo, hi)
    BY <1>4, <2>1, ExitRangeFrees
  <2>4. QED
    BY <1>4, <2>2, <2>3 DEF Between
<1>8. PICK e : e = ExitRanges(v)
  OBVIOUS
<1>9. e = Repeat(n, v, rounds)
  BY <1>5, <1>6, <1>8 DEF ExitRanges
<1>10. e \in S
  <2>1. v \in S
    BY <1>3, <1>4 DEF Between
  <2>2. QED
    BY <1>7, <1>9, <2>1, RepeatStays
<1>11. Destroyed(w) = e.free \cup Valid({w.m.pgdir})
  BY <1>2, <1>8 DEF Destroyed
<1>12. Valid({w.m.pgdir}) \subseteq hi
  <2>1. w.m \in Space
    BY DEF Works
  <2>2. w.m.pgdir # 0 => w.m.pgdir \in Frames(w.m)
    BY <2>1, EntriesInFrames
  <2>3. QED
    BY <1>1, <2>2 DEF Valid
<1>13. QED
  BY <1>1, <1>4, <1>10, <1>11, <1>12 DEF Between

\* The frames of the processes other than p
Others(p) == UNION {Frames(mm[q]) : q \in Proc \ {p}}

\* What makes FramesSafe inductive: taking an address space down frees the pages of
\* its areas, so every page must lie in one (Covered); it may lose tables, so these
\* must never be what a page of a program was last in.
SpaceTypes ==
    /\ mm \in [Proc -> Space] /\ free \subseteq Frame
    /\ \A p \in Proc : mm[p].pgdir = 0 => mm[p] = NoMm

SpaceApart ==
    /\ \A p \in Proc : Apart(mm[p]) /\ Covered(mm[p]) /\ Frames(mm[p]) \cap free = {}
    /\ \A p, q \in Proc : p # q => Frames(mm[p]) \cap Frames(mm[q]) = {}

UserKept ==
    /\ user \subseteq free \cup Used
    /\ \A p \in Proc : user \cap InTables(mm[p]) = {}

SpaceInv == SpaceTypes /\ SpaceApart /\ UserKept

\* The frames of an address space are its tables and its pages.
LEMMA TablesAndPages ==
    ASSUME NEW m \in Space
    PROVE  /\ Frames(m) = InTables(m) \cup PagesOf(m)
           /\ Apart(m) => InTables(m) \cap PagesOf(m) = {}
<1>1. m.pd \in [Dir -> Ref] /\ m.pt \in [Table -> Ref] /\ m.pte \in [Addr -> Ref]
  BY DEF Space
<1>2. ASSUME NEW f
      PROVE  f \in PagesOf(m) <=> f # 0 /\ \E a \in Addr : f = m.pte[a]
  BY <1>1 DEF PagesOf, Valid, Range
<1>3. ASSUME NEW f
      PROVE  f \in InTables(m) <=> /\ f # 0
                                   /\ \/ f = m.pgdir
                                      \/ \E d \in Dir : f = m.pd[d]
                                      \/ \E t \in Table : f = m.pt[t]
  BY <1>1 DEF InTables, Valid, Range
<1>4. ASSUME NEW f \in Frames(m) PROVE f \in InTables(m) \cup PagesOf(m)
  <2>1. PICK x \in Slot : f = RefAt(m, x) /\ f # 0
    BY FramesAre
  <2>2. QED
    BY <1>2, <1>3, <2>1, Slots, SlotRefs
<1>5. ASSUME NEW f \in PagesOf(m)
      PROVE  \E a \in Addr : f = RefAt(m, <<"pte", a>>) /\ <<"pte", a>> \in Slot /\ f # 0
  BY <1>2, Slots, SlotRefs
<1>6. ASSUME NEW f \in InTables(m)
      PROVE  \E x \in Slot : f = RefAt(m, x) /\ f # 0 /\ x[1] # "pte"
  <2>1. CASE f = m.pgdir
    <3>1. f = RefAt(m, <<"pgdir", 0>>) /\ <<"pgdir", 0>> \in Slot
      BY <2>1, Slots, SlotRefs
    <3>2. QED
      BY <1>3, <3>1
  <2>2. ASSUME NEW d \in Dir, f = m.pd[d] PROVE \E x \in Slot : f = RefAt(m, x) /\ f # 0 /\ x[1] # "pte"
    <3>1. f = RefAt(m, <<"pd", d>>) /\ <<"pd", d>> \in Slot
      BY <2>2, Slots, SlotRefs
    <3>2. QED
      BY <1>3, <3>1
  <2>3. ASSUME NEW t \in Table, f = m.pt[t] PROVE \E x \in Slot : f = RefAt(m, x) /\ f # 0 /\ x[1] # "pte"
    <3>1. f = RefAt(m, <<"pt", t>>) /\ <<"pt", t>> \in Slot
      BY <2>3, Slots, SlotRefs
    <3>2. QED
      BY <1>3, <3>1
  <2>4. QED
    BY <1>3, <2>1, <2>2, <2>3
<1>7. InTables(m) \cup PagesOf(m) \subseteq Frames(m)
  BY <1>5, <1>6, FramesAre
<1>8. ASSUME Apart(m), NEW f \in InTables(m), f \in PagesOf(m) PROVE FALSE
  <2>1. PICK a \in Addr : f = RefAt(m, <<"pte", a>>) /\ <<"pte", a>> \in Slot /\ f # 0
    BY <1>5, <1>8
  <2>2. PICK x \in Slot : f = RefAt(m, x) /\ x[1] # "pte"
    BY <1>6
  <2>3. x = <<"pte", a>>
    BY <1>8, <2>1, <2>2 DEF Apart
  <2>4. QED
    BY <2>2, <2>3
<1>9. QED
  BY <1>4, <1>7, <1>8

\* A process without an mm has no frames.
LEMMA NoMmEmpty ==
    NoMm \in Space /\ Apart(NoMm) /\ Covered(NoMm) /\ Frames(NoMm) = {} /\ InTables(NoMm) = {}
<1>1. PICK none : none = NoMm
  OBVIOUS
<1>2. /\ none \in Space /\ none.pgdir = 0
      /\ \A d \in Dir : none.pd[d] = 0
      /\ \A t \in Table : none.pt[t] = 0
      /\ \A a \in Addr : none.pte[a] = 0
  BY <1>1, Levels DEF NoMm, Space, Ref
<1>3. \A x \in Slot : RefAt(none, x) = 0
  BY <1>2, Slots, SlotRefs
<1>4. Frames(none) = {} /\ Apart(none) /\ Covered(none)
  BY <1>2, <1>3 DEF Frames, Valid, Apart, Covered
<1>5. InTables(none) = {}
  BY <1>2, <1>4, TablesAndPages
<1>6. QED
  BY <1>1, <1>2, <1>4, <1>5

\* A step that gives the process p another address space, out of the frames that were
\* free or its own.
LEMMA Replaced ==
    ASSUME SpaceInv, NEW p \in Proc, NEW m \in Space,
           mm' = [mm EXCEPT ![p] = m],
           Apart(m), Covered(m), m.pgdir = 0 => m = NoMm,
           free' \cap Frames(m) = {},
           free' \cup Frames(m) \subseteq free \cup Frames(mm[p]),
           user' \subseteq user \cup free \cup Frames(mm[p]),
           user' \cap InTables(m) = {},
           user' \subseteq free' \cup Frames(m) \cup Others(p)
    PROVE  SpaceInv'
<1>1. /\ mm \in [Proc -> Space] /\ free \subseteq Frame
      /\ \A q \in Proc : mm[q] \in Space /\ (mm[q].pgdir = 0 => mm[q] = NoMm)
  BY DEF SpaceInv, SpaceTypes
<1>2. mm' \in [Proc -> Space] /\ mm'[p] = m /\ \A q \in Proc : q # p => mm'[q] = mm[q]
  BY <1>1
<1>3. /\ \A q \in Proc : Apart(mm[q]) /\ Covered(mm[q]) /\ Frames(mm[q]) \cap free = {}
      /\ \A q, r \in Proc : q # r => Frames(mm[q]) \cap Frames(mm[r]) = {}
  BY DEF SpaceInv, SpaceApart
<1>4. \A q \in Proc : user \cap InTables(mm[q]) = {}
  BY DEF SpaceInv, UserKept
<1>5. \A q \in Proc : q # p => Frames(mm[q]) \cap (free \cup Frames(mm[p])) = {}
  BY <1>3
<1>6. SpaceTypes'
  <2>1. free' \subseteq Frame
    BY <1>1, FramesAre
  <2>2. ASSUME NEW q \in Proc PROVE mm'[q].pgdir = 0 => mm'[q] = NoMm
    BY <1>1, <1>2
  <2>3. QED
    BY <1>2, <2>1, <2>2 DEF SpaceTypes
<1>7. SpaceApart'
  <2>1. ASSUME NEW q \in Proc
        PROVE  Apart(mm'[q]) /\ Covered(mm'[q]) /\ Frames(mm'[q]) \cap free' = {}
    <3>1. CASE q = p
      BY <1>2, <3>1
    <3>2. CASE q # p
      BY <1>2, <1>3, <1>5, <3>2
    <3>3. QED
      BY <3>1, <3>2
  <2>2. ASSUME NEW q \in Proc, NEW r \in Proc, q # r
        PROVE  Frames(mm'[q]) \cap Frames(mm'[r]) = {}
    <3>1. CASE q = p
      <4>1. mm'[q] = m /\ mm'[r] = mm[r] /\ r # p
        BY <1>2, <2>2, <3>1
      <4>2. QED
        BY <1>5, <4>1
    <3>2. CASE r = p
      <4>1. mm'[r] = m /\ mm'[q] = mm[q] /\ q # p
        BY <1>2, <2>2, <3>2
      <4>2. QED
        BY <1>5, <4>1
    <3>3. CASE q # p /\ r # p
      BY <1>2, <1>3, <2>2, <3>3
    <3>4. QED
      BY <3>1, <3>2, <3>3
  <2>3. QED
    BY <2>1, <2>2 DEF SpaceApart
<1>8. UserKept'
  <2>1. ASSUME NEW q \in Proc PROVE user' \cap InTables(mm'[q]) = {}
    <3>1. CASE q = p
      BY <1>2, <3>1
    <3>2. CASE q # p
      <4>1. InTables(mm[q]) \subseteq Frames(mm[q])
        BY <1>1, TablesAndPages
      <4>2. user' \cap InTables(mm[q]) = {}
        BY <1>4, <1>5, <3>2, <4>1
      <4>3. QED
        BY <1>2, <3>2, <4>2
    <3>3. QED
      BY <3>1, <3>2
  <2>2. Frames(m) \subseteq Used'
    BY <1>2 DEF Used
  <2>3. Others(p) \subseteq Used'
    <3>1. ASSUME NEW f \in Others(p) PROVE f \in Used'
      <4>1. PICK q \in Proc \ {p} : f \in Frames(mm[q])
        BY DEF Others
      <4>2. f \in Frames(mm'[q])
        BY <1>2, <4>1
      <4>3. QED
        BY <4>2 DEF Used
    <3>2. QED
      BY <3>1
  <2>4. user' \subseteq free' \cup Used'
    BY <2>2, <2>3
  <2>5. QED
    BY <2>1, <2>4 DEF UserKept
<1>9. QED
  BY <1>6, <1>7, <1>8 DEF SpaceInv

\* Every used frame is one of p or of another process.
LEMMA UsedParts ==
    ASSUME NEW p \in Proc
    PROVE  Used = Frames(mm[p]) \cup Others(p)
<1>1. ASSUME NEW f \in Used PROVE f \in Frames(mm[p]) \cup Others(p)
  <2>1. PICK q \in Proc : f \in Frames(mm[q])
    BY DEF Used
  <2>2. QED
    BY <2>1 DEF Others
<1>2. ASSUME NEW f \in Others(p) PROVE f \in Used
  BY DEF Used, Others
<1>3. Frames(mm[p]) \subseteq Used
  BY DEF Used
<1>4. QED
  BY <1>1, <1>2, <1>3

\* The mm of a process taken down: what is free then
LEMMA TakenDown ==
    ASSUME SpaceInv, NEW p \in Proc
    PROVE  /\ Destroyed(Work(mm[p], free)) \subseteq free \cup Frames(mm[p])
           /\ user \subseteq Destroyed(Work(mm[p], free)) \cup Others(p)
<1>1. mm[p] \in Space /\ free \subseteq Frame /\ Covered(mm[p])
  BY DEF SpaceInv, SpaceTypes, SpaceApart
<1>2. PICK w : w = Work(mm[p], free)
  OBVIOUS
<1>3. w \in Works /\ w.m = mm[p] /\ w.free = free
  BY <1>1, <1>2 DEF Work, Works
<1>4. /\ free \cup PagesOf(mm[p]) \subseteq Destroyed(w)
      /\ Destroyed(w) \subseteq free \cup Frames(mm[p])
  BY <1>1, <1>3, DestroyedFrees
<1>5. user \subseteq free \cup Used /\ user \cap InTables(mm[p]) = {}
  BY DEF SpaceInv, UserKept
<1>6. Frames(mm[p]) = InTables(mm[p]) \cup PagesOf(mm[p])
  BY <1>1, TablesAndPages
<1>7. user \subseteq free \cup PagesOf(mm[p]) \cup Others(p)
  BY <1>5, <1>6, UsedParts
<1>8. QED
  BY <1>2, <1>4, <1>7

\* The end of a call that has built w out of the frames fr
LEMMA EndsSafe ==
    ASSUME SpaceInv, NEW p \in Proc, NEW fr, NEW w, Owns(w, fr), Ends(p, w),
           fr \subseteq free \cup Frames(mm[p]), user \subseteq fr \cup Others(p)
    PROVE  SpaceInv'
<1>1. w \in Works /\ w.m \in Space /\ w.free \subseteq Frame
  BY DEF Owns, Works
<1>2. /\ w.free \cup Frames(w.m) = fr /\ w.free \cap Frames(w.m) = {}
      /\ Apart(w.m) /\ Covered(w.m) /\ (w.st # "failed" => w.m.pgdir # 0)
  BY DEF Owns
<1>3. /\ mm' = [mm EXCEPT ![p] = IF w.st = "failed" THEN NoMm ELSE w.m]
      /\ free' = IF w.st = "failed" THEN Destroyed(w) ELSE w.free
      /\ user' = (user \ InTables(w.m)) \cup PagesOf(w.m)
  BY DEF Ends, PagesOf
<1>4. Frames(w.m) = InTables(w.m) \cup PagesOf(w.m) /\ InTables(w.m) \cap PagesOf(w.m) = {}
  BY <1>1, <1>2, TablesAndPages
<1>5. /\ user' \subseteq user \cup free \cup Frames(mm[p])
      /\ user' \subseteq w.free \cup PagesOf(w.m) \cup Others(p)
      /\ user' \cap InTables(w.m) = {}
  BY <1>2, <1>3, <1>4
<1>6. CASE w.st = "failed"
  <2>1. w.free \cup PagesOf(w.m) \subseteq Destroyed(w) /\ Destroyed(w) \subseteq fr
    BY <1>1, <1>2, DestroyedFrees
  <2>2. PICK none : none = NoMm
    OBVIOUS
  <2>3. none \in Space /\ Apart(none) /\ Covered(none) /\ Frames(none) = {} /\ InTables(none) = {}
    BY <2>2, NoMmEmpty
  <2>4. mm' = [mm EXCEPT ![p] = none] /\ free' = Destroyed(w)
    BY <1>3, <1>6, <2>2
  <2>5. free' \cap Frames(none) = {} /\ free' \cup Frames(none) \subseteq free \cup Frames(mm[p])
    BY <2>1, <2>3, <2>4
  <2>6. user' \cap InTables(none) = {} /\ user' \subseteq free' \cup Frames(none) \cup Others(p)
    BY <1>5, <2>1, <2>3, <2>4
  <2>7. QED
    BY <1>5, <2>2, <2>3, <2>4, <2>5, <2>6, Replaced
<1>7. CASE w.st # "failed"
  <2>1. mm' = [mm EXCEPT ![p] = w.m] /\ free' = w.free
    BY <1>3, <1>7
  <2>2. free' \cap Frames(w.m) = {} /\ free' \cup Frames(w.m) \subseteq free \cup Frames(mm[p])
    BY <1>2, <2>1
  <2>3. user' \subseteq free' \cup Frames(w.m) \cup Others(p)
    BY <1>4, <1>5, <2>1
  <2>4. QED
    BY <1>1, <1>2, <1>5, <1>7, <2>1, <2>2, <2>3, Replaced
<1>8. QED
  BY <1>6, <1>7

\* do_execve
LEMMA ExecSafe ==
    ASSUME SpaceInv, NEW p \in Proc, NEW prog \in Program, NEW cut, Exec(p, prog, cut)
    PROVE  SpaceInv'
<1>1. PICK fr : fr = IF mm[p].pgdir = 0 THEN free ELSE Destroyed(Work(mm[p], free))
  OBVIOUS
<1>2. PICK w : w = IF cut = <<0, 0>> THEN Failed(Work(NoMm, fr)) ELSE LoadIcode(fr, prog, cut)
  OBVIOUS
<1>3. Ends(p, w)
  BY <1>1, <1>2 DEF Exec
<1>4. mm[p] \in Space /\ free \subseteq Frame /\ (mm[p].pgdir = 0 => mm[p] = NoMm)
  BY DEF SpaceInv, SpaceTypes
<1>5. fr \subseteq free \cup Frames(mm[p]) /\ user \subseteq fr \cup Others(p)
  <2>1. CASE mm[p].pgdir = 0
    <3>1. Frames(mm[p]) = {}
      BY <1>4, <2>1, NoMmEmpty
    <3>2. user \subseteq free \cup Used
      BY DEF SpaceInv, UserKept
    <3>3. QED
      BY <1>1, <2>1, <3>1, <3>2, UsedParts
  <2>2. CASE mm[p].pgdir # 0
    BY <1>1, <2>2, TakenDown
  <2>3. QED
    BY <2>1, <2>2
<1>6. fr \subseteq Frame
  BY <1>4, <1>5, FramesAre
<1>7. prog \in Seq(Vma)
  BY SpaceAssumption
<1>8. Owns(w, fr)
  BY <1>2, <1>6, <1>7, SetupOwns, LoadIcodeOwns
<1>9. QED
  BY <1>3, <1>5, <1>8, EndsSafe

\* copy_mm
LEMMA ForkSafe ==
    ASSUME SpaceInv, NEW p \in Proc, NEW q \in Proc, NEW cut, Fork(p, q, cut)
    PROVE  SpaceInv'
<1>1. PICK w : w = IF cut = <<0, 0>> THEN Failed(Work(NoMm, free)) ELSE DupMmap(free, mm[p], cut)
  OBVIOUS
<1>2. Ends(q, w) /\ mm[q].pgdir = 0
  BY <1>1 DEF Fork
<1>3. mm[p] \in Space /\ mm[q] = NoMm /\ free \subseteq Frame
  BY <1>2 DEF SpaceInv, SpaceTypes
<1>4. Frames(mm[q]) = {}
  BY <1>3, NoMmEmpty
<1>5. free \subseteq free \cup Frames(mm[q]) /\ user \subseteq free \cup Others(q)
  <2>1. user \subseteq free \cup Used
    BY DEF SpaceInv, UserKept
  <2>2. QED
    BY <1>4, <2>1, UsedParts
<1>6. Owns(w, free)
  BY <1>1, <1>3, SetupOwns, DupMmapOwns
<1>7. QED
  BY <1>2, <1>5, <1>6, EndsSafe

\* do_exit
LEMMA ExitSafe ==
    ASSUME SpaceInv, NEW p \in Proc, Exit(p)
    PROVE  SpaceInv'
<1>1. PICK none : none = NoMm
  OBVIOUS
<1>2. /\ mm' = [mm EXCEPT ![p] = none] /\ user' = user
      /\ free' = Destroyed(Work(mm[p], free))
  BY <1>1 DEF Exit
<1>3. none \in Space /\ Apart(none) /\ Covered(none) /\ Frames(none) = {} /\ InTables(none) = {}
  BY <1>1, NoMmEmpty
<1>4. free' \subseteq free \cup Frames(mm[p]) /\ user' \subseteq free' \cup Others(p)
  BY <1>2, TakenDown
<1>5. /\ free' \cap Frames(none) = {} /\ free' \cup Frames(none) \subseteq free \cup Frames(mm[p])
      /\ user' \subseteq user \cup free \cup Frames(mm[p]) /\ user' \cap InTables(none) = {}
      /\ user' \subseteq free' \cup Frames(none) \cup Others(p)
  BY <1>2, <1>3, <1>4
<1>6. QED
  BY <1>1, <1>2, <1>3, <1>5, Replaced

\* Initially every frame is free.
LEMMA SpaceStarts == SpaceInit => SpaceInv
<1>1. SUFFICES ASSUME SpaceInit PROVE SpaceInv
  OBVIOUS
<1>2. PICK none : none = NoMm
  OBVIOUS
<1>3. none \in Space /\ Apart(none) /\ Covered(none) /\ Frames(none) = {} /\ InTables(none) = {}
  BY <1>2, NoMmEmpty
<1>4. mm = [p \in Proc |-> none] /\ free = Frame /\ user = {}
  BY <1>1, <1>2 DEF SpaceInit
<1>5. SpaceTypes
  BY <1>2, <1>3, <1>4 DEF SpaceTypes
<1>6. SpaceApart
  BY <1>3, <1>4 DEF SpaceApart
<1>7. UserKept
  BY <1>4 DEF UserKept
<1>8. QED
  BY <1>5, <1>6, <1>7 DEF SpaceInv

\* A step
LEMMA SpaceSteps == SpaceInv /\ [SpaceNext]_spacevars => SpaceInv'
<1>1. SUFFICES ASSUME SpaceInv, [SpaceNext]_spacevars PROVE SpaceInv'
  OBVIOUS
<1>2. CASE SpaceNext
  <2>1. PICK p \in Proc :
          \/ \E prog \in Program : \E cut \in Cuts(prog) : Exec(p, prog, cut)
          \/ \E q \in Proc, cut \in Cuts(Reverse(mm[p].areas)) : Fork(p, q, cut)
          \/ Exit(p)
    BY <1>2, Zenon DEF SpaceNext
  <2>2. ASSUME NEW prog \in Program, NEW cut, Exec(p, prog, cut) PROVE SpaceInv'
    BY <1>1, <2>2, ExecSafe
  <2>3. ASSUME NEW q \in Proc, NEW cut, Fork(p, q, cut) PROVE SpaceInv'
    BY <1>1, <2>3, ForkSafe
  <2>4. CASE Exit(p)
    BY <1>1, <2>4, ExitSafe
  <2>5. QED
    BY <2>1, <2>2, <2>3, <2>4, Zenon
<1>3. CASE UNCHANGED spacevars
  BY <1>1, <1>3 DEF spacevars, SpaceInv, SpaceTypes, SpaceApart, UserKept, Used
<1>4. QED
  BY <1>1, <1>2, <1>3

\* What the invariant is for
LEMMA SpaceIsSafe == SpaceInv => FramesSafe
<1>1. SUFFICES ASSUME SpaceInv PROVE FramesSafe
  OBVIOUS
<1>2. \A p \in Proc : mm[p] \in Space /\ Apart(mm[p]) /\ Frames(mm[p]) \cap free = {}
  BY <1>1 DEF SpaceInv, SpaceTypes, SpaceApart
<1>3. \A p, q \in Proc : p # q => Frames(mm[p]) \cap Frames(mm[q]) = {}
  BY <1>1 DEF SpaceInv, SpaceApart
<1>4. ASSUME NEW p \in Proc, NEW q \in Proc, NEW x \in Slot, NEW y \in Slot,
             RefAt(mm[p], x) = RefAt(mm[q], y), RefAt(mm[p], x) # 0
      PROVE  p = q /\ x = y
  <2>1. RefAt(mm[p], x) \in Frames(mm[p]) /\ RefAt(mm[q], y) \in Frames(mm[q])
    BY <1>2, <1>4, FramesAre
  <2>2. p = q
    BY <1>3, <1>4, <2>1
  <2>3. QED
    BY <1>2, <1>4, <2>2 DEF Apart
<1>5. Used \cap free = {}
  BY <1>2 DEF Used
<1>6. user \subseteq Used \cup free
  BY <1>1 DEF SpaceInv, UserKept
<1>7. QED
  BY <1>4, <1>5, <1>6 DEF FramesSafe

\* FramesSafe: however many forks, execs and exits there were, and wherever one was cut
\* off, a frame is in one place of one process or free, and pages of programs come back.
THEOREM FramesAreSafe == SpaceSpec => []FramesSafe
<1>1. SpaceInit => SpaceInv
  BY SpaceStarts
<1>2. SpaceInv /\ [SpaceNext]_spacevars => SpaceInv'
  BY SpaceSteps
<1>3. SpaceInv => FramesSafe
  BY SpaceIsSafe
<1>4. QED
  BY <1>1, <1>2, <1>3, PTL DEF SpaceSpec

-----------------------------------------------------------------------------
(* A walk in a circle comes back to where it began.                        *)

\* nxt goes through H in a circle: from s on in the order of d, and back to s.
Circle(H, s, nxt, d, N) ==
    /\ s \in H /\ (\A e \in H : nxt[e] \in H)
    /\ d \in [H -> 0 .. N-1] /\ d[s] = 0
    /\ \A x, y \in H : d[x] = d[y] => x = y
    /\ \A e \in H : \/ nxt[e] = s /\ \A y \in H : d[y] <= d[e]
                    \/ d[e] < d[nxt[e]] /\ \A y \in H : d[y] <= d[e] \/ d[nxt[e]] <= d[y]

\* The walk from s on comes back, and to every member before.
Rounding(f, n, H, s, nxt, N) ==
    /\ n \in 1..N
    /\ \A i \in 0..N : f[i] \in H
    /\ f[0] = s /\ f[n] = s
    /\ \A i \in 1..N : f[i] = nxt[f[i-1]]
    /\ \A i \in 1..n-1 : f[i] # s
    /\ \A x \in H : \E i \in 0..n-1 : f[i] = x
    /\ \A i, j \in 0..n-1 : f[i] = f[j] => i = j

\* Of the members with some property one is the last.
LEMMA LastOf ==
    ASSUME NEW H, NEW N \in Nat, NEW d \in [H -> 0 .. N-1], NEW P, P \subseteq H, P # {}
    PROVE  \E z \in P : \A y \in P : d[y] <= d[z]
<1>1. PICK S : S = {N - d[y] : y \in P}
  OBVIOUS
<1>2. \A y \in P : d[y] \in Nat /\ N - d[y] \in Nat
  OBVIOUS
<1>3. S \subseteq Nat /\ S # {}
  BY <1>1, <1>2
<1>4. PICK k \in S : \A l \in S : k <= l
  BY <1>3, LeastNatural
<1>5. PICK z \in P : k = N - d[z]
  BY <1>1
<1>6. ASSUME NEW y \in P PROVE d[y] <= d[z]
  <2>1. N - d[z] <= N - d[y]
    BY <1>1, <1>4, <1>5
  <2>2. QED
    BY <1>2, <2>1
<1>7. QED
  BY <1>6

LEMMA WalkRounds ==
    ASSUME NEW H, NEW s, NEW nxt, NEW d, NEW N \in Nat, Circle(H, s, nxt, d, N),
           NEW f, \A i \in 0..N : f[i] = IF i = 0 THEN s ELSE nxt[f[i-1]]
    PROVE  \E n \in 1..N : Rounding(f, n, H, s, nxt, N)
<1>1. /\ s \in H /\ (\A e \in H : nxt[e] \in H) /\ d \in [H -> 0 .. N-1] /\ d[s] = 0
      /\ \A x, y \in H : d[x] = d[y] => x = y
      /\ \A e \in H : \/ nxt[e] = s /\ \A y \in H : d[y] <= d[e]
                      \/ d[e] < d[nxt[e]] /\ \A y \in H : d[y] <= d[e] \/ d[nxt[e]] <= d[y]
  BY DEF Circle
<1>2. f[0] = s /\ \A i \in 1..N : f[i] = nxt[f[i-1]]
  OBVIOUS
<1>3. \A i \in 0..N : f[i] \in H
  <2> DEFINE T == {m \in Nat : m <= N => f[m] \in H}
  <2>1. 0 \in T
    BY <1>1, <1>2
  <2>2. ASSUME NEW m \in Nat, m \in T PROVE m + 1 \in T
    <3>1. SUFFICES ASSUME m + 1 <= N PROVE f[m + 1] \in H
      OBVIOUS
    <3>2. f[m] \in H /\ f[m + 1] = nxt[f[m]]
      BY <1>2, <2>2, <3>1
    <3>3. QED
      BY <1>1, <3>2
  <2>3. \A m \in Nat : m \in T
    <3> HIDE DEF T
    <3>1. QED
      BY <2>1, <2>2, Induction
  <2>4. QED
    BY <2>3
<1>4. ASSUME NEW x \in H PROVE \E i \in 0..d[x] : f[i] = x
  <2> DEFINE Missed == {y \in H : \A i \in 0..d[y] : f[i] # y}
             Places == {d[y] : y \in Missed}
  <2>1. SUFFICES ASSUME x \in Missed PROVE FALSE
    OBVIOUS
  <2>2. Places \subseteq Nat /\ d[x] \in Places
    BY <1>1, <2>1
  <2>3. PICK k \in Places : \A l \in Places : k <= l
    <3> HIDE DEF Places, Missed
    <3>1. QED
      BY <2>2, LeastNatural
  <2>4. PICK z \in Missed : k = d[z]
    OBVIOUS
  <2>5. z \in H /\ d[z] \in 0..N-1
    BY <1>1
  <2>6. z # s
    BY <1>1, <1>2, <2>4
  <2>7. PICK P : P = {y \in H : d[y] < d[z]}
    OBVIOUS
  <2>8. s \in P
    <3>1. d[z] # 0
      BY <1>1, <2>5, <2>6
    <3>2. QED
      BY <1>1, <2>5, <2>7, <3>1
  <2>9. PICK y \in P : \A w \in P : d[w] <= d[y]
    <3>1. P \subseteq H /\ P # {} /\ d \in [H -> 0 .. N-1]
      BY <1>1, <2>7, <2>8
    <3>2. QED
      BY <3>1, LastOf, Zenon
  <2>10. y \in H /\ d[y] < d[z] /\ d[y] \in 0..N-1
    BY <1>1, <2>7, <2>9
  <2>11. nxt[y] = z
    <3>1. d[y] < d[nxt[y]] /\ d[nxt[y]] <= d[z]
      BY <1>1, <2>5, <2>10
    <3>2. nxt[y] \in H /\ d[nxt[y]] \in 0..N-1
      BY <1>1, <2>10
    <3>3. ~(d[nxt[y]] < d[z])
      BY <2>7, <2>9, <2>10, <3>1, <3>2
    <3>4. QED
      BY <1>1, <2>5, <3>1, <3>2, <3>3
  <2>12. y \notin Missed
    <3>1. d[y] \notin Places
      BY <2>3, <2>4, <2>5, <2>10
    <3>2. QED
      BY <3>1
  <2>13. PICK i \in 0..d[y] : f[i] = y
    BY <2>10, <2>12
  <2>14. i + 1 \in 0..d[z] /\ f[i + 1] = z
    <3>1. i + 1 \in 1..N /\ (i + 1) - 1 = i /\ i + 1 \in 0..d[z]
      BY <2>5, <2>10
    <3>2. QED
      BY <1>2, <2>11, <2>13, <3>1
  <2>15. QED
    BY <2>4, <2>14
<1>5. PICK z \in H : \A y \in H : d[y] <= d[z]
  BY <1>1, LastOf
<1>6. nxt[z] = s
  BY <1>1, <1>5
<1>7. PICK back : back = {i \in 1..N : f[i] = s}
  OBVIOUS
<1>8. back # {}
  <2>1. PICK i \in 0..d[z] : f[i] = z
    BY <1>4
  <2>2. d[z] \in 0..N-1
    BY <1>1
  <2>3. i + 1 \in 1..N /\ (i + 1) - 1 = i
    BY <2>2
  <2>4. f[i + 1] = s
    BY <1>2, <1>6, <2>1, <2>3
  <2>5. QED
    BY <1>7, <2>3, <2>4
<1>9. PICK n \in back : \A i \in back : n <= i
  <2>1. back \subseteq Nat
    BY <1>7
  <2>2. QED
    BY <1>8, <2>1, LeastNatural
<1>10. n \in 1..N /\ f[n] = s
  BY <1>7
<1>11. \A i \in 1..n-1 : f[i] # s
  BY <1>7, <1>9, <1>10
<1>12. \A i \in n..N : f[i] = f[i - n]
  <2> DEFINE T == {m \in Nat : n + m <= N => f[n + m] = f[m]}
  <2>1. 0 \in T
    BY <1>2, <1>10
  <2>2. ASSUME NEW m \in Nat, m \in T PROVE m + 1 \in T
    <3>1. SUFFICES ASSUME n + (m + 1) <= N PROVE f[n + (m + 1)] = f[m + 1]
      OBVIOUS
    <3>2. f[n + m] = f[m]
      BY <1>10, <2>2, <3>1
    <3>3. /\ n + (m + 1) \in 1..N /\ (n + (m + 1)) - 1 = n + m
          /\ m + 1 \in 1..N /\ (m + 1) - 1 = m
      BY <1>10, <3>1
    <3>4. QED
      BY <1>2, <3>2, <3>3
  <2>3. \A m \in Nat : m \in T
    <3> HIDE DEF T
    <3>1. QED
      BY <2>1, <2>2, Induction
  <2>4. ASSUME NEW i \in n..N PROVE f[i] = f[i - n]
    <3>1. i - n \in Nat /\ n + (i - n) = i /\ i <= N
      BY <1>10
    <3>2. i - n \in T
      BY <2>3, <3>1
    <3>3. QED
      BY <3>1, <3>2
  <2>5. QED
    BY <2>4
<1>13. ASSUME NEW x \in H PROVE \E i \in 0..n-1 : f[i] = x
  <2>1. PICK S : S = {i \in 0..N : f[i] = x}
    OBVIOUS
  <2>2. S # {} /\ S \subseteq Nat
    <3>1. d[x] \in 0..N-1
      BY <1>1
    <3>2. PICK i \in 0..d[x] : f[i] = x
      BY <1>4
    <3>3. QED
      BY <2>1, <3>1, <3>2
  <2>3. PICK i \in S : \A j \in S : i <= j
    BY <2>2, LeastNatural
  <2>4. i \in 0..N /\ f[i] = x
    BY <2>1
  <2>5. CASE i < n
    BY <1>10, <2>4, <2>5
  <2>6. CASE i >= n
    <3>1. f[i] = f[i - n] /\ i - n \in 0..N /\ ~(i <= i - n)
      BY <1>10, <1>12, <2>4, <2>6
    <3>2. QED
      BY <2>1, <2>3, <2>4, <3>1
  <2>7. QED
    BY <1>10, <2>4, <2>5, <2>6
<1>14. \A x, y \in H : nxt[x] = nxt[y] => x = y
  <2>1. SUFFICES ASSUME NEW x \in H, NEW y \in H, nxt[x] = nxt[y] PROVE d[x] = d[y]
    BY <1>1
  <2>2. d[x] \in Nat /\ d[y] \in Nat /\ d[nxt[x]] \in Nat
    BY <1>1
  <2>3. CASE nxt[x] = s
    <3>1. ~(d[x] < d[s]) /\ ~(d[y] < d[s])
      BY <1>1, <2>2
    <3>2. d[y] <= d[x]
      BY <1>1, <2>3, <3>1
    <3>3. d[x] <= d[y]
      BY <1>1, <2>1, <2>3, <3>1
    <3>4. QED
      BY <2>2, <3>2, <3>3
  <2>4. CASE nxt[x] # s
    <3>1. \A w \in H : d[w] <= d[x] \/ d[nxt[x]] <= d[w]
      BY <1>1, <2>4
    <3>2. \A w \in H : d[w] <= d[y] \/ d[nxt[x]] <= d[w]
      BY <1>1, <2>1, <2>4
    <3>3. d[x] < d[nxt[x]] /\ d[y] < d[nxt[x]]
      BY <1>1, <2>1, <2>4
    <3>4. QED
      BY <2>2, <3>1, <3>2, <3>3
  <2>5. QED
    BY <2>3, <2>4
<1>15. ASSUME NEW i \in 0..n-1, NEW j \in 0..n-1, f[i] = f[j], i < j PROVE FALSE
  <2> DEFINE T == {m \in Nat : m <= n - 1 => \A k \in 0..n-1 : m < k => f[m] # f[k]}
  <2>1. 0 \in T
    BY <1>2, <1>10, <1>11
  <2>2. ASSUME NEW m \in Nat, m \in T PROVE m + 1 \in T
    <3>1. SUFFICES ASSUME m + 1 <= n - 1, NEW k \in 0..n-1, m + 1 < k, f[m + 1] = f[k]
                   PROVE  FALSE
      OBVIOUS
    <3>2. m + 1 \in 1..N /\ k \in 1..N /\ (m + 1) - 1 = m /\ m \in 0..N /\ k - 1 \in 0..N
      BY <1>10, <3>1
    <3>3. nxt[f[m]] = nxt[f[k - 1]]
      BY <1>2, <3>1, <3>2
    <3>4. f[m] = f[k - 1]
      BY <1>3, <1>14, <3>2, <3>3
    <3>5. k - 1 \in 0..n-1 /\ m < k - 1 /\ m <= n - 1
      BY <1>10, <3>1
    <3>6. QED
      BY <2>2, <3>4, <3>5
  <2>3. \A m \in Nat : m \in T
    <3> HIDE DEF T
    <3>1. QED
      BY <2>1, <2>2, Induction
  <2>4. i \in T /\ i <= n - 1
    BY <1>10, <2>3
  <2>5. QED
    BY <1>15, <2>4
<1>16. \A i, j \in 0..n-1 : f[i] = f[j] => i = j
  <2>1. SUFFICES ASSUME NEW i \in 0..n-1, NEW j \in 0..n-1, f[i] = f[j], i # j PROVE FALSE
    OBVIOUS
  <2>2. i \in Int /\ j \in Int
    BY <1>10
  <2>3. i < j \/ j < i
    BY <2>1, <2>2
  <2>4. QED
    BY <1>15, <2>1, <2>3
<1>17. Rounding(f, n, H, s, nxt, N)
  BY <1>2, <1>3, <1>10, <1>11, <1>13, <1>16 DEF Rounding
<1>18. QED
  BY <1>10, <1>17

\* The number of units there are
Top == 2 + NHEAP * PageUnits

\* Sizes and addresses are numbers.
LEMMA HeapNumbers ==
    /\ PageUnits \in Nat /\ PageUnits >= 4 /\ PAGE_SIZE = PageUnits * SLOB_UNIT
    /\ Top \in Nat /\ Top >= 2 /\ Unit = 0..Top-1
    /\ Unit \subseteq Nat /\ Max(Unit) = Top - 1
<1>1. /\ NHEAP \in Nat /\ SLOB_UNIT \in Nat \ {0}
      /\ PAGE_SIZE % SLOB_UNIT = 0 /\ PAGE_SIZE > 3 * SLOB_UNIT
  BY HeapAssumption
<1>2. PAGE_SIZE \in Nat
  BY HeapAssumption
<1>3. PICK q \in Int : \E m \in 0..SLOB_UNIT-1 :
            m = PAGE_SIZE % SLOB_UNIT /\ PAGE_SIZE = SLOB_UNIT * q + m
  BY <1>1, <1>2, Remainder
<1>4. PAGE_SIZE = SLOB_UNIT * q
  BY <1>1, <1>3
<1>5. PageUnits = q
  BY <1>1, <1>4 DEF PageUnits
<1>6. q >= 4
  BY <1>1, <1>4
<1>7. NHEAP * PageUnits \in Nat
  BY <1>1, <1>5, <1>6
<1>8. PICK t \in Nat : t = NHEAP * PageUnits
  BY <1>7
<1>9. Unit = 0..1+t /\ Top = 2 + t
  BY <1>8 DEF Unit, Top
<1>10. Max(Unit) = 1 + t
  <2>1. 1 + t \in Unit /\ \A y \in Unit : 1 + t >= y
    BY <1>9
  <2>2. \A x \in Unit : (\A y \in Unit : x >= y) => x = 1 + t
    BY <1>9
  <2>3. QED
    BY <2>1, <2>2 DEF Max
<1>11. QED
  BY <1>1, <1>4, <1>5, <1>6, <1>9, <1>10

-----------------------------------------------------------------------------
(* The ring of the heap's free blocks.                                     *)

\* The links nxt go through H in the order of the addresses, and begin anew at 0.
Circled(nxt, H) ==
    /\ nxt \in [Unit -> Unit]
    /\ H \subseteq Unit /\ 0 \in H /\ 1 \notin H
    /\ \A e \in H : Follows(H, e, nxt[e])

\* The links lead to another block of the ring, to each from one.
LEMMA CircledNext ==
    ASSUME NEW nxt, NEW H, Circled(nxt, H)
    PROVE  /\ \A e \in H : nxt[e] \in H
           /\ \A e, g \in H : nxt[e] = nxt[g] => e = g
           /\ H \subseteq Nat /\ nxt \in [Unit -> Unit]
<1>1. H \subseteq Nat /\ 0 \in H
  BY HeapNumbers DEF Circled
<1>2. ASSUME NEW e \in H PROVE nxt[e] \in H
  <2>1. Follows(H, e, nxt[e])
    BY DEF Circled
  <2>2. QED
    BY <1>1, <2>1 DEF Follows
<1>3. ASSUME NEW e \in H, NEW g \in H, nxt[e] = nxt[g] PROVE e = g
  <2>1. Follows(H, e, nxt[e]) /\ Follows(H, g, nxt[e])
    BY <1>3 DEF Circled
  <2>2. e \in Nat /\ g \in Nat /\ nxt[e] \in Nat
    BY <1>1, <1>2
  <2>3. CASE nxt[e] = 0
    <3>1. e <= g /\ g <= e
      BY <2>1, <2>3 DEF Follows
    <3>2. QED
      BY <2>2, <3>1
  <2>4. CASE nxt[e] # 0
    <3>1. /\ e < nxt[e] /\ g < nxt[e]
          /\ \A y \in H : e < y => nxt[e] <= y
          /\ \A y \in H : g < y => nxt[e] <= y
      BY <2>1, <2>4 DEF Follows
    <3>2. ~(e < g) /\ ~(g < e)
      BY <2>2, <3>1
    <3>3. QED
      BY <2>2, <3>2
  <2>5. QED
    BY <2>3, <2>4
<1>4. QED
  BY <1>1, <1>2, <1>3 DEF Circled

\* The place of an address in the circle that begins at s
Ahead(s, x) ==
    LET c(y) == IF y = 0 THEN 0 ELSE y - 1
    IN IF c(x) >= c(s) THEN c(x) - c(s) ELSE c(x) - c(s) + (Top - 1)

\* Going along the links from a block s counts up the places.
LEMMA CircledIsCircle ==
    ASSUME NEW nxt, NEW H, Circled(nxt, H), NEW s \in H
    PROVE  Circle(H, s, nxt, [e \in H |-> Ahead(s, e)], Top - 1)
<1>1. H \subseteq Nat /\ \A e \in H : nxt[e] \in H /\ Follows(H, e, nxt[e])
  BY CircledNext DEF Circled
<1>2. Top \in Nat /\ Top >= 2 /\ Unit = 0..Top-1
  BY HeapNumbers
<1>3. \A e \in H : e \in Nat /\ e # 1 /\ e <= Top - 1
  BY <1>1, <1>2 DEF Circled
<1>4. PICK N \in Nat : N = Top - 1
  BY <1>2
<1> DEFINE c(y) == IF y = 0 THEN 0 ELSE y - 1
           d(y) == IF c(y) >= c(s) THEN c(y) - c(s) ELSE c(y) - c(s) + N
<1>5. \A e \in H : Ahead(s, e) = d(e)
  BY <1>4 DEF Ahead
<1>6. \A e \in H : c(e) \in 0..N-1
  BY <1>2, <1>3, <1>4
<1>7. \A e, g \in H : /\ c(e) = c(g) <=> e = g
                      /\ c(e) < c(g) <=> e < g
  BY <1>3
<1>8. \A e \in H : d(e) \in 0..N-1 /\ (c(e) >= c(s) <=> e >= s)
  <2>1. ASSUME NEW e \in H PROVE d(e) \in 0..N-1 /\ (c(e) >= c(s) <=> e >= s)
    <3>1. c(e) \in 0..N-1 /\ c(s) \in 0..N-1 /\ e \in Nat /\ s \in Nat
      BY <1>3, <1>6
    <3>2. c(s) < c(e) <=> s < e
      BY <1>7
    <3>3. c(e) = c(s) <=> e = s
      BY <1>7
    <3> HIDE DEF c
    <3>4. QED
      BY <3>1, <3>2, <3>3
  <2>2. QED
    BY <2>1
<1>9. d(s) = 0
  BY <1>6
<1>10. ASSUME NEW e \in H, NEW g \in H
       PROVE  /\ d(e) = d(g) => e = g
              /\ d(e) < d(g) <=> \/ s <= e /\ e < g
                                 \/ e < g /\ g < s
                                 \/ g < s /\ s <= e
  <2>1. /\ c(e) \in 0..N-1 /\ c(g) \in 0..N-1 /\ c(s) \in 0..N-1
        /\ e \in Nat /\ g \in Nat /\ s \in Nat
    BY <1>3, <1>6
  <2>2. /\ c(e) = c(g) <=> e = g
        /\ c(e) < c(g) <=> e < g
        /\ c(e) >= c(s) <=> e >= s
        /\ c(g) >= c(s) <=> g >= s
    BY <1>7, <1>8
  <2> HIDE DEF c
  <2>3. QED
    BY <2>1, <2>2
<1>11. ASSUME NEW e \in H
       PROVE  \/ nxt[e] = s /\ \A y \in H : d(y) <= d(e)
              \/ d(e) < d(nxt[e]) /\ \A y \in H : d(y) <= d(e) \/ d(nxt[e]) <= d(y)
  <2>1. PICK x \in H : x = nxt[e] /\ Follows(H, e, x)
    BY <1>1
  <2>2. e \in Nat /\ x \in Nat /\ s \in Nat /\ 0 \in H
    BY <1>3 DEF Circled
  <2>3. \A y \in H : y \in Nat /\ d(y) \in Nat
    BY <1>3, <1>8
  <2>4. CASE x = s
    <3>1. ASSUME NEW y \in H PROVE ~(d(e) < d(y))
      <4>1. y \in Nat
        BY <2>3
      <4>2. d(e) < d(y) <=> \/ s <= e /\ e < y
                            \/ e < y /\ y < s
                            \/ y < s /\ s <= e
        BY <1>10
      <4>3. CASE s = 0
        BY <2>1, <2>2, <2>4, <4>1, <4>2, <4>3 DEF Follows
      <4>4. CASE s # 0
        <5>1. e < s /\ (e < y => s <= y)
          BY <2>1, <2>4, <4>4 DEF Follows
        <5>2. QED
          BY <2>2, <4>1, <4>2, <5>1
      <4>5. QED
        BY <4>3, <4>4
    <3>2. ASSUME NEW y \in H PROVE d(y) <= d(e)
      <4>1. d(y) \in Nat /\ d(e) \in Nat /\ ~(d(e) < d(y))
        BY <2>3, <3>1
      <4> HIDE DEF d
      <4>2. QED
        BY <4>1
    <3>3. QED
      BY <2>1, <2>4, <3>2
  <2>5. CASE x # s
    <3>1. d(e) < d(x)
      <4>1. d(e) < d(x) <=> \/ s <= e /\ e < x
                            \/ e < x /\ x < s
                            \/ x < s /\ s <= e
        BY <1>10
      <4>2. CASE x = 0
        <5>1. s <= e
          BY <2>1, <4>2 DEF Follows
        <5>2. QED
          BY <2>2, <2>5, <4>1, <4>2, <5>1
      <4>3. CASE x # 0
        <5>1. e < x /\ (e < s => x <= s)
          BY <2>1, <4>3 DEF Follows
        <5>2. QED
          BY <2>2, <2>5, <4>1, <5>1
      <4>4. QED
        BY <4>2, <4>3
    <3>2. ASSUME NEW y \in H PROVE ~(d(e) < d(y) /\ d(y) < d(x))
      <4>1. /\ d(e) < d(y) <=> \/ s <= e /\ e < y
                               \/ e < y /\ y < s
                               \/ y < s /\ s <= e
            /\ d(y) < d(x) <=> \/ s <= y /\ y < x
                               \/ y < x /\ x < s
                               \/ x < s /\ s <= y
        BY <1>10
      <4>2. y \in Nat
        BY <2>3
      <4>3. CASE x = 0
        <5>1. s <= e /\ y <= e
          BY <2>1, <4>3 DEF Follows
        <5>2. QED
          BY <2>2, <4>1, <4>2, <4>3, <5>1
      <4>4. CASE x # 0
        <5>1. e < x /\ (e < s => x <= s) /\ (e < y => x <= y)
          BY <2>1, <4>4 DEF Follows
        <5>2. QED
          BY <2>2, <2>5, <4>1, <4>2, <5>1
      <4>5. QED
        BY <4>3, <4>4
    <3>3. ASSUME NEW y \in H PROVE d(y) <= d(e) \/ d(x) <= d(y)
      <4>1. d(y) \in Nat /\ d(e) \in Nat /\ d(x) \in Nat /\ ~(d(e) < d(y) /\ d(y) < d(x))
        BY <2>3, <3>2
      <4> HIDE DEF d
      <4>2. QED
        BY <4>1
    <3>4. QED
      BY <2>1, <3>1, <3>3
  <2>6. QED
    BY <2>4, <2>5
<1>12. PICK g : g = [e \in H |-> Ahead(s, e)]
  OBVIOUS
<1>13. \A e \in H : g[e] = d(e)
  BY <1>5, <1>12
<1> HIDE DEF d
<1>14. (\A e \in H : nxt[e] \in H) /\ g \in [H -> 0..N-1]
  BY <1>1, <1>5, <1>8, <1>12
<1>15. Circle(H, s, nxt, g, N)
  <2>1. s \in H /\ g[s] = 0
    BY <1>9, <1>13
  <2>2. ASSUME NEW x \in H, NEW y \in H, g[x] = g[y] PROVE x = y
    BY <1>10, <1>13, <2>2
  <2>3. ASSUME NEW e \in H
        PROVE  \/ nxt[e] = s /\ \A y \in H : g[y] <= g[e]
               \/ g[e] < g[nxt[e]] /\ \A y \in H : g[y] <= g[e] \/ g[nxt[e]] <= g[y]
    <3>1. nxt[e] \in H
      BY <1>1
    <3>2. g[e] = d(e) /\ g[nxt[e]] = d(nxt[e]) /\ \A y \in H : g[y] = d(y)
      BY <1>13, <3>1
    <3>3. QED
      BY <1>11, <3>1, <3>2
  <2>4. QED
    BY <1>14, <2>1, <2>2, <2>3 DEF Circle
<1>16. QED
  BY <1>4, <1>12, <1>15

\* The sequence goes once round the ring, from s.
IsRing(ring, s, nxt, H) ==
    /\ Len(ring) \in Nat \ {0} /\ DOMAIN ring = 1..Len(ring)
    /\ \A i \in 1..Len(ring) : ring[i] \in H
    /\ ring[1] = s /\ nxt[ring[Len(ring)]] = s
    /\ \A i \in 1..Len(ring)-1 : nxt[ring[i]] = ring[i+1]
    /\ \A x \in H : \E i \in 1..Len(ring) : ring[i] = x
    /\ \A i, j \in 1..Len(ring) : ring[i] = ring[j] => i = j

\* The function at of Ring, which follows next from slobfree on.
Along(h) == LET at[i \in Unit] == IF i = 0 THEN h.slobfree ELSE h.next[at[i-1]] IN at

\* The round that Ring makes of it
Rounded(h, at) ==
    LET back == {i \in Unit \ {0} : at[i] = h.slobfree}
        n == IF back = {} THEN Max(Unit) + 1 ELSE Min(back)
    IN [i \in 1..n |-> at[i-1]]

\* The rounds of Ring's walk.
LEMMA AlongSteps ==
    ASSUME NEW h, NEW H, Circled(h.next, H), h.slobfree \in H
    PROVE  \A i \in 0..Top-1 :
              Along(h)[i] = IF i = 0 THEN h.slobfree ELSE h.next[Along(h)[i-1]]
<1>1. PICK N \in Nat : N = Top - 1
  BY HeapNumbers
<1>2. Unit = 0..N
  BY <1>1, HeapNumbers
<1>3. PICK s, nxt : s = h.slobfree /\ nxt = h.next
  OBVIOUS
<1>4. s \in H /\ \A e \in H : nxt[e] \in H
  BY <1>3, CircledNext
<1>5. PICK g : g = [x \in H \X (1..N) |-> nxt[x[1]]]
  OBVIOUS
<1>6. g \in [H \X (1..N) -> H]
  BY <1>4, <1>5
<1>7. PICK f \in [0..N -> H] : Repeats(f, N, s, g)
  BY <1>4, <1>6, Repeated
<1> DEFINE Walk(f1) == f1 = [i \in Unit |-> IF i = 0 THEN h.slobfree ELSE h.next[f1[i-1]]]
<1>8. Walk(f)
  <2>1. ASSUME NEW i \in 0..N, i # 0
        PROVE  g[<<f[i-1], i>>] = nxt[f[i-1]]
    <3>1. f[i-1] \in H /\ i \in 1..N
      BY <1>1, <1>7, <2>1
    <3>2. QED
      BY <1>5, <3>1
  <2>2. QED
    BY <1>2, <1>3, <1>7, <2>1 DEF Repeats
<1>9. Walk(Along(h))
  <2>1. Along(h) = CHOOSE f1 : Walk(f1)
    BY Zenon DEF Along
  <2>2. QED
    BY <1>8, <2>1, Zenon
<1>10. QED
  BY <1>1, <1>2, <1>9

\* What Ring returns goes round the ring.
LEMMA RingWalks ==
    ASSUME NEW h, NEW H, Circled(h.next, H), h.slobfree \in H
    PROVE  IsRing(Ring(h), h.slobfree, h.next, H)
<1>1. PICK N \in Nat : N = Top - 1 /\ N >= 1
  BY HeapNumbers
<1>2. Unit = 0..N /\ Max(Unit) = N
  BY <1>1, HeapNumbers
<1>3. PICK s, nxt : s = h.slobfree /\ nxt = h.next
  OBVIOUS
<1>4. Circle(H, s, nxt, [e \in H |-> Ahead(s, e)], N)
  BY <1>1, <1>3, CircledIsCircle
<1>5. PICK at : at = Along(h)
  OBVIOUS
<1>6. \A i \in 0..N : at[i] = IF i = 0 THEN s ELSE nxt[at[i-1]]
  BY <1>1, <1>3, <1>5, AlongSteps
<1>7. PICK n \in 1..N : Rounding(at, n, H, s, nxt, N)
  BY <1>4, <1>6, WalkRounds
<1>8. PICK back : back = {i \in Unit \ {0} : at[i] = s}
  OBVIOUS
<1>9. n \in back /\ \A i \in back : n <= i
  BY <1>1, <1>2, <1>7, <1>8 DEF Rounding
<1>10. Min(back) = n
  <2>1. back \subseteq Int
    BY <1>2, <1>8
  <2>2. \A x \in back : (\A y \in back : x <= y) => x = n
    BY <1>9, <2>1
  <2>3. QED
    BY <1>9, <2>2 DEF Min
<1>11. Ring(h) = [i \in 1..n |-> at[i-1]]
  <2>1. back # {}
    BY <1>9
  <2>2. Ring(h) = [i \in 1..(IF back = {} THEN Max(Unit) + 1 ELSE Min(back)) |-> at[i-1]]
    <3>1. Ring(h) = Rounded(h, Along(h))
      BY Zenon DEF Ring, Along, Rounded
    <3>2. Rounded(h, at) = [i \in 1..(IF back = {} THEN Max(Unit) + 1 ELSE Min(back)) |-> at[i-1]]
      BY <1>3, <1>8, Zenon DEF Rounded
    <3>3. QED
      BY <1>5, <3>1, <3>2, Zenon
  <2>3. QED
    BY <1>10, <2>1, <2>2
<1>12. PICK ring : ring = Ring(h)
  OBVIOUS
<1>13. Len(ring) = n /\ DOMAIN ring = 1..n /\ \A i \in 1..n : ring[i] = at[i-1]
  BY <1>11, <1>12
<1>14. /\ \A i \in 0..N : at[i] \in H
       /\ at[0] = s /\ at[n] = s
       /\ \A i \in 1..N : at[i] = nxt[at[i-1]]
       /\ \A x \in H : \E i \in 0..n-1 : at[i] = x
       /\ \A i, j \in 0..n-1 : at[i] = at[j] => i = j
  BY <1>7 DEF Rounding
<1>15. ASSUME NEW i \in 1..n PROVE ring[i] \in H
  BY <1>13, <1>14
<1>16. ring[1] = s /\ nxt[ring[n]] = s
  BY <1>13, <1>14
<1>17. ASSUME NEW i \in 1..n-1 PROVE nxt[ring[i]] = ring[i+1]
  <2>1. i \in 1..n /\ i + 1 \in 1..n /\ (i + 1) - 1 = i /\ i \in 1..N
    OBVIOUS
  <2>2. ring[i] = at[i-1] /\ ring[i+1] = at[i]
    BY <1>13, <2>1
  <2>3. at[i] = nxt[at[i-1]]
    BY <1>14, <2>1
  <2>4. QED
    BY <2>2, <2>3
<1>18. ASSUME NEW x \in H PROVE \E i \in 1..n : ring[i] = x
  <2>1. PICK i \in 0..n-1 : at[i] = x
    BY <1>14
  <2>2. i + 1 \in 1..n /\ (i + 1) - 1 = i
    OBVIOUS
  <2>3. QED
    BY <1>13, <2>1, <2>2
<1>19. ASSUME NEW i \in 1..n, NEW j \in 1..n, ring[i] = ring[j] PROVE i = j
  <2>1. i - 1 \in 0..n-1 /\ j - 1 \in 0..n-1 /\ at[i-1] = at[j-1]
    BY <1>13, <1>19
  <2>2. i - 1 = j - 1
    BY <1>14, <2>1
  <2>3. QED
    BY <2>2
<1>20. IsRing(ring, s, nxt, H)
  BY <1>13, <1>15, <1>16, <1>17, <1>18, <1>19 DEF IsRing
<1>21. QED
  BY <1>3, <1>12, <1>20

\* A block put behind cur stays in the order.
LEMMA CircleAdd ==
    ASSUME NEW nxt, NEW H, Circled(nxt, H), NEW cur \in H, NEW b \in Unit, b # 1,
           cur < b, nxt[cur] = 0 \/ b < nxt[cur],
           NEW new \in [Unit -> Unit], new[cur] = b, new[b] = nxt[cur],
           \A e \in H \ {cur} : new[e] = nxt[e]
    PROVE  Circled(new, H \cup {b}) /\ b \notin H
<1>1. H \subseteq Nat /\ H \subseteq Unit /\ 0 \in H /\ b \in Nat /\ 1 \notin H
  BY HeapNumbers DEF Circled
<1>2. \A e \in H : nxt[e] \in H /\ Follows(H, e, nxt[e])
  BY CircledNext DEF Circled
<1>3. \A y \in H : y <= cur \/ b < y
  <2>1. ASSUME NEW y \in H PROVE y <= cur \/ b < y
    <3>1. y \in Nat /\ cur \in Nat /\ nxt[cur] \in Nat
      BY <1>1, <1>2
    <3>2. Follows(H, cur, nxt[cur])
      BY <1>2
    <3>3. QED
      BY <1>1, <3>1, <3>2 DEF Follows
  <2>2. QED
    BY <2>1
<1>4. b \notin H
  BY <1>1, <1>3
<1>5. PICK G : G = H \cup {b}
  OBVIOUS
<1>6. Follows(G, cur, b)
  <2>1. \A y \in G : cur < y => b <= y
    BY <1>1, <1>3, <1>5
  <2>2. QED
    BY <1>1, <1>5, <2>1 DEF Follows
<1>7. Follows(G, b, nxt[cur])
  <2>1. Follows(H, cur, nxt[cur]) /\ nxt[cur] \in H
    BY <1>2
  <2>2. CASE nxt[cur] = 0
    <3>1. \A y \in H : y <= cur
      BY <2>1, <2>2 DEF Follows
    <3>2. \A y \in G : y <= b
      BY <1>1, <1>5, <3>1
    <3>3. QED
      BY <2>2, <3>2 DEF Follows
  <2>3. CASE nxt[cur] # 0
    <3>1. b < nxt[cur] /\ \A y \in H : cur < y => nxt[cur] <= y
      BY <2>1, <2>3 DEF Follows
    <3>2. \A y \in G : b < y => nxt[cur] <= y
      BY <1>1, <1>5, <3>1
    <3>3. QED
      BY <1>5, <2>1, <2>3, <3>1, <3>2 DEF Follows
  <2>4. QED
    BY <2>2, <2>3
<1>8. ASSUME NEW e \in H, e # cur PROVE Follows(G, e, nxt[e])
  <2>1. Follows(H, e, nxt[e]) /\ nxt[e] \in H /\ e \in Nat /\ nxt[e] \in Nat
    BY <1>1, <1>2
  <2>2. nxt[e] # nxt[cur]
    BY <1>8, CircledNext
  <2>3. Follows(H, cur, nxt[cur]) /\ nxt[cur] \in H /\ cur \in Nat /\ nxt[cur] \in Nat
    BY <1>1, <1>2
  <2>4. CASE nxt[e] = 0
    <3>1. nxt[cur] # 0 /\ b < nxt[cur] /\ nxt[cur] <= e
      BY <2>1, <2>2, <2>3, <2>4 DEF Follows
    <3>2. \A y \in G : y <= e
      BY <1>1, <1>5, <2>1, <2>3, <2>4, <3>1 DEF Follows
    <3>3. QED
      BY <2>4, <3>2 DEF Follows
  <2>5. CASE nxt[e] # 0
    <3>1. e < nxt[e] /\ \A y \in H : e < y => nxt[e] <= y
      BY <2>1, <2>5 DEF Follows
    <3>2. e < b => nxt[e] <= b
      <4>1. SUFFICES ASSUME e < b PROVE nxt[e] <= b
        OBVIOUS
      <4>2. e < cur
        BY <1>1, <1>3, <1>8, <2>1, <2>3, <4>1
      <4>3. QED
        BY <1>1, <2>1, <2>3, <3>1, <4>2
    <3>3. \A y \in G : e < y => nxt[e] <= y
      BY <1>5, <3>1, <3>2
    <3>4. QED
      BY <1>5, <2>1, <2>5, <3>1, <3>3 DEF Follows
  <2>6. QED
    BY <2>4, <2>5
<1>9. \A e \in G : Follows(G, e, new[e])
  BY <1>5, <1>6, <1>7, <1>8
<1>10. Circled(new, G)
  BY <1>1, <1>5, <1>9 DEF Circled
<1>11. QED
  BY <1>4, <1>5, <1>10

\* A block bypassed leaves the others in the order.
LEMMA CircleDel ==
    ASSUME NEW nxt, NEW H, Circled(nxt, H), NEW cur \in H, nxt[cur] # 0,
           NEW new \in [Unit -> Unit], new[cur] = nxt[nxt[cur]],
           \A e \in H \ {cur, nxt[cur]} : new[e] = nxt[e]
    PROVE  Circled(new, H \ {nxt[cur]}) /\ cur < nxt[cur]
<1>1. PICK x : x = nxt[cur]
  OBVIOUS
<1>2. H \subseteq Nat /\ H \subseteq Unit /\ 0 \in H /\ 1 \notin H
  BY HeapNumbers DEF Circled
<1>3. \A e \in H : nxt[e] \in H /\ Follows(H, e, nxt[e])
  BY CircledNext DEF Circled
<1>4. x \in H /\ x # 0 /\ cur < x /\ \A y \in H : cur < y => x <= y
  BY <1>1, <1>3 DEF Follows
<1>5. PICK G : G = H \ {x}
  OBVIOUS
<1>6. Follows(G, cur, nxt[x])
  <2>1. Follows(H, x, nxt[x]) /\ nxt[x] \in H /\ nxt[x] \in Nat /\ x \in Nat /\ cur \in Nat
    BY <1>2, <1>3, <1>4
  <2>2. CASE nxt[x] = 0
    <3>1. \A y \in H : y <= x
      BY <2>1, <2>2 DEF Follows
    <3>2. \A y \in G : y <= cur
      BY <1>2, <1>4, <1>5, <2>1, <3>1
    <3>3. QED
      BY <2>2, <3>2 DEF Follows
  <2>3. CASE nxt[x] # 0
    <3>1. x < nxt[x] /\ \A y \in H : x < y => nxt[x] <= y
      BY <2>1, <2>3 DEF Follows
    <3>2. \A y \in G : cur < y => nxt[x] <= y
      BY <1>2, <1>4, <1>5, <2>1, <3>1
    <3>3. nxt[x] \in G /\ cur < nxt[x]
      BY <1>4, <1>5, <2>1, <3>1
    <3>4. QED
      BY <2>3, <3>2, <3>3 DEF Follows
  <2>4. QED
    BY <2>2, <2>3
<1>7. ASSUME NEW e \in H, e # cur, e # x PROVE Follows(G, e, nxt[e])
  <2>1. nxt[e] # x
    BY <1>1, <1>7, CircledNext
  <2>2. Follows(H, e, nxt[e])
    BY <1>3
  <2>3. QED
    BY <1>5, <2>1, <2>2 DEF Follows
<1>8. \A e \in G : Follows(G, e, new[e])
  <2>1. \A e \in G : e \in H /\ e # x
    BY <1>5
  <2>2. QED
    BY <1>1, <1>6, <1>7, <2>1
<1>9. Circled(new, G)
  BY <1>2, <1>4, <1>5, <1>8 DEF Circled
<1>10. QED
  BY <1>1, <1>4, <1>5, <1>9

-----------------------------------------------------------------------------
(* A set of units cut up into pieces, each as long as its first unit says. *)

\* Unit x is in the piece at e.
Within(u, e, x) == e <= x /\ x < e + u[e]

\* The pieces at P, of u[e] units, make up the units F, and none is in two of them.
Cut(u, P, F) ==
    /\ u \in [Unit -> Nat] /\ P \subseteq Unit /\ F \subseteq Unit
    /\ \A e \in P : u[e] >= 1 /\ e + u[e] <= Top
    /\ \A e, g \in P : e < g => e + u[e] <= g
    /\ \A x \in Unit : x \in F <=> \E e \in P : Within(u, e, x)

\* The numbers of a cut, and what is inside a piece.
LEMMA CutTypes ==
    ASSUME NEW u, NEW P, NEW F, Cut(u, P, F)
    PROVE  /\ Top \in Nat /\ \A x \in Nat : x < Top => x \in Unit
           /\ \A x \in Unit : x \in Nat /\ x < Top
           /\ \A e \in P : /\ e \in Unit /\ e \in Nat /\ u[e] \in Nat /\ u[e] >= 1
                           /\ e + u[e] <= Top /\ e \in F
           /\ \A e \in P, x \in Nat : Within(u, e, x) => x \in F
           /\ \A e, g \in P, x \in Nat : Within(u, e, x) /\ Within(u, g, x) => e = g
           /\ P \subseteq F /\ F \subseteq Unit
<1>1. Top \in Nat /\ Unit = 0..Top-1
  BY HeapNumbers
<1>2. \A e \in P : /\ e \in Unit /\ e \in Nat /\ u[e] \in Nat /\ u[e] >= 1
                   /\ e + u[e] <= Top
  BY <1>1 DEF Cut
<1>3. \A e \in P, x \in Nat : Within(u, e, x) => x \in F
  BY <1>1, <1>2 DEF Cut, Within
<1>4. \A e \in P : e \in F
  BY <1>2, <1>3 DEF Within
<1>5. ASSUME NEW e \in P, NEW g \in P, NEW x \in Nat, Within(u, e, x), Within(u, g, x)
      PROVE  e = g
  <2>1. e < g => e + u[e] <= g
    BY DEF Cut
  <2>2. g < e => g + u[g] <= e
    BY DEF Cut
  <2>3. QED
    BY <1>2, <1>5, <2>1, <2>2 DEF Within
<1>6. QED
  BY <1>1, <1>2, <1>3, <1>4, <1>5 DEF Cut

\* R is a run of other units than F, and v the sizes with its size.
Adds(u, P, F, b, n, R, v) ==
    /\ Cut(u, P, F)
    /\ b \in Nat /\ n \in Nat /\ n >= 1 /\ b + n <= Top
    /\ R = b .. b + n - 1 /\ R \cap F = {}
    /\ v \in [Unit -> Nat] /\ v[b] = n /\ \A e \in P : v[e] = u[e]

\* A run of other units is one more piece.
LEMMA CutAdd ==
    ASSUME NEW u, NEW P, NEW F, NEW b, NEW n, NEW R, NEW v, Adds(u, P, F, b, n, R, v)
    PROVE  Cut(v, P \cup {b}, F \cup R)
<1>0. /\ Cut(u, P, F)
      /\ b \in Nat /\ n \in Nat /\ n >= 1 /\ b + n <= Top
      /\ R = b .. b + n - 1 /\ R \cap F = {}
      /\ v \in [Unit -> Nat] /\ v[b] = n /\ \A e \in P : v[e] = u[e]
  BY DEF Adds
<1>1. /\ Top \in Nat /\ \A x \in Nat : x < Top => x \in Unit
      /\ \A x \in Unit : x \in Nat /\ x < Top
      /\ \A e \in P : /\ e \in Unit /\ e \in Nat /\ u[e] \in Nat /\ u[e] >= 1
                      /\ e + u[e] <= Top /\ e \in F
      /\ \A e \in P, x \in Nat : Within(u, e, x) => x \in F
      /\ P \subseteq F /\ F \subseteq Unit
  BY <1>0, CutTypes
<1>2. R = b .. b + n - 1
  BY <1>0
<1>3. b \in R /\ b \in Unit /\ b \notin F /\ R \subseteq Unit
  BY <1>0, <1>1, <1>2
<1>4. ASSUME NEW e \in P PROVE /\ e < b => e + u[e] <= b
                               /\ b < e => b + n <= e
  <2>1. e \in Nat /\ u[e] \in Nat /\ u[e] >= 1 /\ e \in F /\ e \notin R
    BY <1>0, <1>1
  <2>2. ~Within(u, e, b)
    BY <1>1, <1>3
  <2>3. QED
    BY <1>0, <1>2, <2>1, <2>2 DEF Within
<1>5. PICK Q, G : Q = P \cup {b} /\ G = F \cup R
  OBVIOUS
<1>6. \A e \in Q : v[e] >= 1 /\ e + v[e] <= Top
  BY <1>0, <1>1, <1>5
<1>7. ASSUME NEW e \in Q, NEW g \in Q, e < g PROVE e + v[e] <= g
  <2>1. CASE e = b
    BY <1>0, <1>4, <1>5, <1>7, <2>1
  <2>2. CASE e # b /\ g = b
    BY <1>0, <1>4, <1>5, <1>7, <2>2
  <2>3. CASE e \in P /\ g \in P
    BY <1>0, <1>7, <2>3 DEF Cut
  <2>4. QED
    BY <1>5, <2>1, <2>2, <2>3
<1>8. ASSUME NEW x \in Unit PROVE x \in G <=> \E e \in Q : Within(v, e, x)
  <2>1. x \in R <=> Within(v, b, x)
    BY <1>0, <1>1, <1>2 DEF Within
  <2>2. x \in F <=> \E e \in P : Within(v, e, x)
    BY <1>0 DEF Cut, Within
  <2>3. QED
    BY <1>5, <2>1, <2>2
<1>9. Cut(v, Q, G)
  BY <1>0, <1>1, <1>3, <1>5, <1>6, <1>7, <1>8 DEF Cut
<1>10. QED
  BY <1>5, <1>9

\* A piece taken out leaves the others.
LEMMA CutLift ==
    ASSUME NEW u, NEW P, NEW F, Cut(u, P, F), NEW b \in P
    PROVE  Cut(u, P \ {b}, F \ (b .. b + u[b] - 1))
<1>1. /\ \A x \in Unit : x \in Nat
      /\ \A e, g \in P, x \in Nat : Within(u, e, x) /\ Within(u, g, x) => e = g
      /\ b \in Nat /\ u[b] \in Nat
  BY CutTypes
<1>2. PICK R : R = b .. b + u[b] - 1
  OBVIOUS
<1>3. ASSUME NEW x \in Unit PROVE x \in F \ R <=> \E e \in P \ {b} : Within(u, e, x)
  <2>1. x \in Nat
    BY <1>1
  <2>2. x \in R <=> Within(u, b, x)
    BY <1>1, <1>2, <2>1 DEF Within
  <2>3. x \in F <=> \E e \in P : Within(u, e, x)
    BY DEF Cut
  <2>4. QED
    BY <1>1, <2>1, <2>2, <2>3
<1>4. Cut(u, P \ {b}, F \ R)
  BY <1>3 DEF Cut
<1>5. QED
  BY <1>2, <1>4

\* Two pieces that meet are one.
LEMMA CutJoin ==
    ASSUME NEW u, NEW P, NEW F, Cut(u, P, F), NEW e \in P, NEW g \in P, e + u[e] = g,
           NEW v \in [Unit -> Nat], v[e] = u[e] + u[g], \A x \in P \ {e, g} : v[x] = u[x]
    PROVE  Cut(v, P \ {g}, F) /\ e < g
<1>1. /\ \A x \in Unit : x \in Nat
      /\ \A x \in P : /\ x \in Unit /\ x \in Nat /\ u[x] \in Nat /\ u[x] >= 1
                      /\ x + u[x] <= Top
  BY CutTypes
<1>2. e < g
  BY <1>1
<1>3. PICK Q : Q = P \ {g}
  OBVIOUS
<1>4. \A x \in Q : v[x] >= 1 /\ x + v[x] <= Top
  <2>1. v[e] >= 1 /\ e + v[e] = g + u[g] /\ g + u[g] <= Top
    BY <1>1
  <2>2. QED
    BY <1>1, <1>3, <2>1
<1>5. ASSUME NEW x \in Q, NEW y \in Q, x < y PROVE x + v[x] <= y
  <2>1. x + u[x] <= y /\ x \in P /\ y \in P /\ y # g
    BY <1>3, <1>5 DEF Cut
  <2>2. CASE x = e
    <3>1. g < y
      BY <1>1, <2>1, <2>2
    <3>2. g + u[g] <= y
      BY <2>1, <3>1 DEF Cut
    <3>3. QED
      BY <1>1, <2>1, <2>2, <3>2
  <2>3. CASE x # e
    BY <1>3, <2>1, <2>3
  <2>4. QED
    BY <2>2, <2>3
<1>6. ASSUME NEW x \in Unit PROVE x \in F <=> \E y \in Q : Within(v, y, x)
  <2>1. x \in F <=> \E y \in P : Within(u, y, x)
    BY DEF Cut
  <2>2. Within(v, e, x) <=> Within(u, e, x) \/ Within(u, g, x)
    BY <1>1 DEF Within
  <2>3. \A y \in Q : y # e => (Within(v, y, x) <=> Within(u, y, x))
    BY <1>3 DEF Within
  <2>4. e \in Q
    BY <1>2, <1>1, <1>3
  <2>5. QED
    BY <1>3, <2>1, <2>2, <2>3, <2>4
<1>7. Cut(v, Q, F)
  <2>1. Q \subseteq Unit /\ F \subseteq Unit
    BY <1>3 DEF Cut
  <2>2. QED
    BY <1>4, <1>5, <1>6, <2>1 DEF Cut
<1>8. QED
  BY <1>2, <1>3, <1>7

\* A piece is cut in two.
LEMMA CutSplit ==
    ASSUME NEW u, NEW P, NEW F, Cut(u, P, F), NEW e \in P, NEW n \in Nat, n >= 1, n < u[e],
           NEW g, g = e + n,
           NEW v \in [Unit -> Nat], v[e] = n, v[g] = u[e] - n, \A x \in P \ {e} : v[x] = u[x]
    PROVE  Cut(v, P \cup {g}, F) /\ g \in Unit /\ g \notin P
<1>1. /\ Top \in Nat /\ \A x \in Nat : x < Top => x \in Unit
      /\ \A x \in Unit : x \in Nat
      /\ \A x \in P : /\ x \in Unit /\ x \in Nat /\ u[x] \in Nat /\ u[x] >= 1
                      /\ x + u[x] <= Top
      /\ \A x, y \in P, z \in Nat : Within(u, x, z) /\ Within(u, y, z) => x = y
  BY CutTypes
<1>2. g \in Nat /\ g \in Unit /\ e < g /\ Within(u, e, g)
  BY <1>1 DEF Within
<1>3. g \notin P
  <2>1. g \in P => Within(u, g, g)
    BY <1>1, <1>2 DEF Within
  <2>2. QED
    BY <1>1, <1>2, <2>1
<1>4. PICK Q : Q = P \cup {g}
  OBVIOUS
<1>5. \A x \in Q : v[x] >= 1 /\ x + v[x] <= Top
  <2>1. v[e] >= 1 /\ e + v[e] <= Top /\ v[g] >= 1 /\ g + v[g] <= Top
    BY <1>1
  <2>2. QED
    BY <1>1, <1>4, <2>1
<1>6. ASSUME NEW x \in Q, NEW y \in Q, x < y PROVE x + v[x] <= y
  <2>1. ASSUME x \in P, y \in P PROVE x + u[x] <= y
    BY <1>6, <2>1 DEF Cut
  <2>2. CASE x \in P /\ y \in P
    BY <1>1, <2>1, <2>2
  <2>3. CASE x = g
    <3>1. y \in P /\ e < y
      BY <1>1, <1>2, <1>4, <1>6, <2>3
    <3>2. e + u[e] <= y
      BY <3>1 DEF Cut
    <3>3. QED
      BY <1>1, <2>3, <3>1, <3>2
  <2>4. CASE x \in P /\ y = g
    <3>1. CASE x = e
      BY <1>1, <2>4, <3>1
    <3>2. CASE x # e
      <4>1. x < e
        <5>1. x \in Nat /\ e \in Nat /\ u[e] \in Nat /\ u[x] \in Nat
          BY <1>1, <2>4
        <5>2. e < x => e + u[e] <= x
          BY <2>4 DEF Cut
        <5>3. QED
          BY <1>6, <2>4, <3>2, <5>1, <5>2
      <4>2. x + u[x] <= e
        BY <2>4, <4>1 DEF Cut
      <4>3. QED
        BY <1>1, <1>2, <2>4, <3>2, <4>2
    <3>3. QED
      BY <3>1, <3>2
  <2>5. QED
    BY <1>4, <2>2, <2>3, <2>4
<1>7. ASSUME NEW x \in Unit PROVE x \in F <=> \E y \in Q : Within(v, y, x)
  <2>1. x \in F <=> \E y \in P : Within(u, y, x)
    BY DEF Cut
  <2>2. Within(u, e, x) <=> Within(v, e, x) \/ Within(v, g, x)
    BY <1>1 DEF Within
  <2>3. \A y \in P : y # e => (Within(v, y, x) <=> Within(u, y, x))
    BY DEF Within
  <2>4. QED
    BY <1>4, <2>1, <2>2, <2>3
<1>8. Cut(v, Q, F)
  <2>1. Q \subseteq Unit /\ F \subseteq Unit
    BY <1>2, <1>4 DEF Cut
  <2>2. QED
    BY <1>5, <1>6, <1>7, <2>1 DEF Cut
<1>9. QED
  BY <1>2, <1>3, <1>4, <1>8

-----------------------------------------------------------------------------
(* slob_free: the block joins the one above it and the one below.          *)

HeapType == [next : [Unit -> Unit], units : [Unit -> Nat], slobfree : Unit]

\* The units F are cut up into the blocks of the ring H and the pieces Q; a block of the
\* ring does not end where the next begins, and the arena is one of them.
Heaped(h, H, Q, F) ==
    /\ h \in HeapType
    /\ Circled(h.next, H) /\ h.slobfree \in H
    /\ Cut(h.units, H \cup Q, F) /\ H \cap Q = {}
    /\ \A e \in H : e + h.units[e] # h.next[e]
    /\ h.units[0] = 1

\* The block at which the loop of slob_free ends
Stopped(h, b) == Ring(h)[Min({j \in DOMAIN Ring(h) : StopsAt(h, Ring(h)[j], b)})]

\* slob_free finds the block that b comes behind.
LEMMA StopsBehind ==
    ASSUME NEW h, NEW H, Circled(h.next, H), h.slobfree \in H,
           NEW b \in Nat, b >= 2, b \notin H
    PROVE  \E cur \in H : cur = Stopped(h, b) /\ cur < b /\ (h.next[cur] = 0 \/ b < h.next[cur])
<1>1. PICK ring, nxt : ring = Ring(h) /\ nxt = h.next
  OBVIOUS
<1>2. /\ Len(ring) \in Nat \ {0} /\ DOMAIN ring = 1..Len(ring)
      /\ \A i \in 1..Len(ring) : ring[i] \in H
      /\ \A x \in H : \E i \in 1..Len(ring) : ring[i] = x
  BY <1>1, RingWalks DEF IsRing
<1>3. /\ H \subseteq Nat /\ 0 \in H
      /\ \A e \in H : nxt[e] \in H /\ Follows(H, e, nxt[e])
  BY <1>1, CircledNext DEF Circled
<1>4. PICK S : S = {j \in DOMAIN ring : StopsAt(h, ring[j], b)}
  OBVIOUS
<1>5. S # {}
  <2>1. PICK T : T = {b - y : y \in {z \in H : z < b}}
    OBVIOUS
  <2>2. T \subseteq Nat /\ T # {}
    <3>1. b - 0 \in T
      BY <1>3, <2>1
    <3>2. QED
      BY <1>3, <2>1, <3>1
  <2>3. PICK t \in T : \A r \in T : t <= r
    BY <2>2, LeastNatural
  <2>4. PICK c \in H : c < b /\ t = b - c
    BY <2>1
  <2>5. \A y \in H : y < b => y <= c
    <3>1. ASSUME NEW y \in H, y < b PROVE y <= c
      <4>1. t <= b - y
        BY <2>1, <2>3, <3>1
      <4>2. y \in Nat /\ c \in Nat
        BY <1>3
      <4>3. QED
        BY <2>4, <4>1, <4>2
    <3>2. QED
      BY <3>1
  <2>6. StopsAt(h, c, b)
    <3>1. Follows(H, c, nxt[c]) /\ nxt[c] \in H /\ c \in Nat /\ nxt[c] \in Nat
      BY <1>3
    <3>2. CASE nxt[c] = 0
      BY <1>1, <2>4, <3>1, <3>2 DEF StopsAt
    <3>3. CASE nxt[c] # 0
      <4>1. c < nxt[c]
        BY <3>1, <3>3 DEF Follows
      <4>2. ~(nxt[c] < b) /\ nxt[c] # b
        BY <2>5, <3>1, <4>1
      <4>3. b < nxt[c]
        BY <3>1, <4>2
      <4>4. QED
        BY <1>1, <2>4, <4>3 DEF StopsAt
    <3>4. QED
      BY <3>2, <3>3
  <2>7. PICK j \in 1..Len(ring) : ring[j] = c
    BY <1>2
  <2>8. QED
    BY <1>2, <1>4, <2>6, <2>7
<1>6. PICK i \in S : i = Min(S)
  <2>1. S \subseteq Nat
    BY <1>2, <1>4
  <2>2. \E x \in S : \A y \in S : x <= y
    BY <1>5, <2>1, LeastNatural
  <2>3. QED
    BY <2>2 DEF Min
<1>7. PICK cur : cur = ring[i]
  OBVIOUS
<1>8. cur \in H /\ StopsAt(h, cur, b)
  BY <1>2, <1>4, <1>7
<1>9. cur < b /\ (nxt[cur] = 0 \/ b < nxt[cur])
  <2>1. Follows(H, cur, nxt[cur]) /\ nxt[cur] \in H /\ cur \in Nat /\ nxt[cur] \in Nat
    BY <1>3, <1>8
  <2>2. (cur < b /\ b < nxt[cur]) \/ (cur >= nxt[cur] /\ (b > cur \/ b < nxt[cur]))
    BY <1>1, <1>8, <2>1 DEF StopsAt
  <2>3. cur >= nxt[cur] => nxt[cur] = 0
    BY <2>1 DEF Follows
  <2>4. QED
    BY <2>1, <2>2, <2>3
<1>10. cur = Stopped(h, b)
  BY <1>1, <1>4, <1>6, <1>7, Zenon DEF Stopped
<1>11. QED
  BY <1>1, <1>8, <1>9, <1>10

\* The two steps of Joined
UpJoined(h, cur, b) ==
    LET after == h.next[cur]
    IN IF b + h.units[b] = after
       THEN [h EXCEPT !.units[b] = @ + h.units[after], !.next[b] = h.next[after],
                      !.units[after] = 0, !.next[after] = 0]
       ELSE [h EXCEPT !.next[b] = after]
DownJoined(h, g, cur, b) ==
    IF cur + h.units[cur] = b
    THEN [g EXCEPT !.units[cur] = @ + g.units[b], !.next[cur] = g.next[b],
                   !.units[b] = 0, !.next[b] = 0]
    ELSE [g EXCEPT !.next[cur] = b]

\* After the first step the block b is not in the ring yet, and leads back into what
\* is left of it, which mid links.
Half(h, H, Q, F, cur, b, g, mid, G) ==
    /\ g \in HeapType /\ G \subseteq H /\ cur \in G
    /\ Circled(mid, G) /\ (mid[cur] = 0 \/ b < mid[cur])
    /\ g.next[b] = mid[cur]
    /\ \A e \in G \ {cur} : g.next[e] = mid[e] /\ mid[e] = h.next[e]
    /\ \A e \in G \cup Q : g.units[e] = h.units[e]
    /\ Cut(g.units, (G \cup Q) \cup {b}, F)
    /\ b + g.units[b] # mid[cur]

\* The block behind cur is joined with b, or not.
LEMMA Upwards ==
    ASSUME NEW h, NEW H, NEW Q, NEW F, Heaped(h, H, Q, F),
           NEW cur \in H, NEW b \in Nat, b >= 2, b \notin H \cup Q,
           cur < b, h.next[cur] = 0 \/ b < h.next[cur],
           NEW n \in Nat, n >= 1,
           NEW k, k = [h EXCEPT !.units[b] = n],
           NEW E, Cut(k.units, (H \cup Q) \cup {b}, E)
    PROVE  \E mid, G : Half(h, H, Q, E, cur, b, UpJoined(k, cur, b), mid, G)
<1>1. /\ h \in HeapType /\ Circled(h.next, H) /\ H \cap Q = {}
      /\ \A e \in H : e + h.units[e] # h.next[e]
      /\ Cut(h.units, H \cup Q, F)
  BY DEF Heaped
<1>2. b \in Unit /\ H \subseteq Unit /\ Q \subseteq Unit /\ 0 \in Unit
  BY <1>1 DEF Cut, Circled
<1>3. PICK nxt, u : nxt = h.next /\ u = k.units
  OBVIOUS
<1>4. /\ nxt \in [Unit -> Unit] /\ u \in [Unit -> Nat] /\ k.next = nxt /\ k \in HeapType
      /\ u[b] = n /\ \A e \in H \cup Q : u[e] = h.units[e]
  BY <1>1, <1>2, <1>3 DEF HeapType
<1>5. PICK after : after = nxt[cur]
  OBVIOUS
<1>6. /\ after \in H /\ \A e \in H : nxt[e] \in H /\ H \subseteq Nat
  BY <1>1, <1>3, <1>5, CircledNext
<1>7. CASE b + n # after
  <2>1. PICK g : g = [k EXCEPT !.next[b] = after]
    OBVIOUS
  <2>2. UpJoined(k, cur, b) = g
    BY <1>3, <1>4, <1>5, <1>7, <2>1 DEF UpJoined
  <2>3. /\ g \in HeapType /\ g.units = u /\ g.next[b] = after
        /\ \A e \in H : g.next[e] = nxt[e]
    <3>1. PICK w : w = [nxt EXCEPT ![b] = after]
      OBVIOUS
    <3>2. w \in [Unit -> Unit] /\ w[b] = after /\ \A e \in H : w[e] = nxt[e]
      BY <1>2, <1>4, <1>6, <3>1
    <3>3. g = [next |-> w, units |-> u, slobfree |-> k.slobfree]
      BY <1>3, <1>4, <2>1, <3>1 DEF HeapType
    <3>4. QED
      BY <1>4, <3>2, <3>3 DEF HeapType
  <2>4. Half(h, H, Q, E, cur, b, g, nxt, H)
    BY <1>1, <1>3, <1>4, <1>5, <1>7, <2>3 DEF Half
  <2>5. QED
    BY <2>2, <2>4
<1>8. CASE b + n = after
  <2>1. after # 0 /\ after # b /\ cur # after
    BY <1>3, <1>5, <1>6, <1>8
  <2>2. PICK g : g = [k EXCEPT !.units[b] = @ + u[after], !.next[b] = nxt[after],
                               !.units[after] = 0, !.next[after] = 0]
    OBVIOUS
  <2>3. UpJoined(k, cur, b) = g
    BY <1>3, <1>4, <1>5, <1>8, <2>2 DEF UpJoined
  <2>4. PICK v, w : /\ v = [[u EXCEPT ![b] = n + u[after]] EXCEPT ![after] = 0]
                    /\ w = [[nxt EXCEPT ![b] = nxt[after]] EXCEPT ![after] = 0]
    OBVIOUS
  <2>5. g.units = v /\ g.next = w /\ g.slobfree = h.slobfree
    BY <1>3, <1>4, <2>2, <2>4 DEF HeapType
  <2>6. /\ v \in [Unit -> Nat] /\ v[b] = n + u[after]
        /\ \A e \in (H \cup Q) \ {after} : v[e] = u[e]
    <3>1. n + u[after] \in Nat /\ after \in Unit
      BY <1>2, <1>4, <1>6
    <3>2. QED
      BY <1>2, <1>4, <2>1, <2>4, <3>1
  <2>7. /\ w \in [Unit -> Unit] /\ w[b] = nxt[after]
        /\ \A e \in H \ {after} : w[e] = nxt[e]
    <3>1. nxt[after] \in Unit /\ after \in Unit
      BY <1>2, <1>4, <1>6
    <3>2. QED
      BY <1>2, <1>4, <2>1, <2>4, <3>1
  <2>8. g \in HeapType
    <3>1. g = [next |-> w, units |-> v, slobfree |-> h.slobfree]
      BY <1>1, <1>3, <1>4, <2>2, <2>4 DEF HeapType
    <3>2. QED
      BY <1>1, <2>6, <2>7, <3>1 DEF HeapType
  <2>9. PICK G, mid : G = H \ {after} /\ mid = [nxt EXCEPT ![cur] = nxt[after]]
    OBVIOUS
  <2>10. /\ mid \in [Unit -> Unit] /\ mid[cur] = nxt[after]
         /\ \A e \in H \ {cur, after} : mid[e] = nxt[e]
    BY <1>2, <1>4, <1>6, <2>9
  <2>11. Circled(mid, G)
    <3>1. Circled(nxt, H) /\ nxt[cur] # 0 /\ mid[cur] = nxt[nxt[cur]]
      BY <1>1, <1>3, <1>5, <2>1, <2>10
    <3>2. \A e \in H \ {cur, nxt[cur]} : mid[e] = nxt[e]
      BY <1>5, <2>10
    <3>3. Circled(mid, H \ {nxt[cur]})
      BY <2>10, <3>1, <3>2, CircleDel
    <3>4. QED
      BY <1>5, <2>9, <3>3
  <2>12. Cut(v, (G \cup Q) \cup {b}, E)
    <3>1. PICK P : P = (H \cup Q) \cup {b}
      OBVIOUS
    <3>2. Cut(u, P, E) /\ b \in P /\ after \in P /\ b + u[b] = after
      BY <1>3, <1>4, <1>6, <1>8, <3>1
    <3>3. v[b] = u[b] + u[after] /\ \A e \in P \ {b, after} : v[e] = u[e]
      BY <1>4, <2>6, <3>1
    <3>4. Cut(v, P \ {after}, E)
      BY <2>6, <3>2, <3>3, CutJoin
    <3>5. P \ {after} = (G \cup Q) \cup {b}
      BY <1>1, <1>6, <2>1, <2>9, <3>1
    <3>6. QED
      BY <3>4, <3>5
  <2>13. b + v[b] # nxt[after]
    <3>1. after + u[after] # nxt[after]
      BY <1>1, <1>3, <1>4, <1>6
    <3>2. b + v[b] = after + u[after]
      <4>1. u[after] \in Nat /\ after \in Nat
        BY <1>2, <1>4, <1>6
      <4>2. QED
        BY <1>8, <2>6, <4>1
    <3>3. QED
      BY <3>1, <3>2
  <2>14. mid[cur] = 0 \/ b < mid[cur]
    <3>1. Follows(H, after, nxt[after])
      BY <1>1, <1>3, <1>6 DEF Circled
    <3>2. nxt[after] = 0 \/ after < nxt[after]
      BY <3>1 DEF Follows
    <3>3. nxt[after] \in Nat /\ after \in Nat
      BY <1>6
    <3>4. QED
      BY <1>8, <2>10, <3>2, <3>3
  <2>15. cur \in G /\ G \subseteq H
    BY <2>1, <2>9
  <2>16. \A e \in G \ {cur} : g.next[e] = mid[e] /\ mid[e] = h.next[e]
    BY <1>3, <2>5, <2>7, <2>9, <2>10
  <2>17. \A e \in G \cup Q : g.units[e] = h.units[e]
    BY <1>1, <1>4, <1>6, <2>5, <2>6, <2>9
  <2>18. Half(h, H, Q, E, cur, b, g, mid, G)
    BY <2>5, <2>7, <2>8, <2>10, <2>11, <2>12, <2>13, <2>14, <2>15, <2>16, <2>17 DEF Half
  <2>19. QED
    BY <2>3, <2>18
<1>9. QED
  BY <1>7, <1>8

\* What a heap consists of
LEMMA HeapOf ==
    ASSUME NEW w \in [Unit -> Unit], NEW u \in [Unit -> Nat], NEW s \in Unit
    PROVE  [next |-> w, units |-> u, slobfree |-> s] \in HeapType
BY DEF HeapType

\* The heap h2 is h with the units of F cut up anew: the pieces Q are as they were.
Keeps(h, h2, Q, F) ==
    \E H : Heaped(h2, H, Q, F) /\ \A q \in Q : h2.units[q] = h.units[q]

\* b comes behind cur.
Behind(h, H, Q, cur, b) ==
    /\ h.units[0] = 1 /\ H \cap Q = {}
    /\ cur \in H /\ b \in Nat /\ b >= 2 /\ b \in Unit /\ b \notin H \cup Q /\ cur < b
    /\ \A e \in H : e + h.units[e] # h.next[e]

\* The block cur is joined with b, or b comes behind it, and cur is where the next search
\* begins.
LEMMA Downwards ==
    ASSUME NEW h, NEW H, NEW Q, NEW E, NEW cur, NEW b, Behind(h, H, Q, cur, b),
           NEW k, \A e \in H : k.units[e] = h.units[e],
           NEW g, NEW mid, NEW G, Half(h, H, Q, E, cur, b, g, mid, G)
    PROVE  Keeps(h, [DownJoined(k, g, cur, b) EXCEPT !.slobfree = cur], Q, E)
<1>0. PICK r : r = [DownJoined(k, g, cur, b) EXCEPT !.slobfree = cur]
  OBVIOUS
<1>1. /\ h.units[0] = 1 /\ H \cap Q = {}
      /\ cur \in H /\ b \in Nat /\ b >= 2 /\ b \in Unit /\ b \notin H \cup Q /\ cur < b
      /\ \A e \in H : e + h.units[e] # h.next[e]
  BY DEF Behind
<1>2. /\ g \in HeapType /\ G \subseteq H /\ cur \in G
      /\ Circled(mid, G) /\ (mid[cur] = 0 \/ b < mid[cur])
      /\ g.next[b] = mid[cur]
      /\ \A e \in G \ {cur} : g.next[e] = mid[e] /\ mid[e] = h.next[e]
      /\ \A e \in G \cup Q : g.units[e] = h.units[e]
      /\ Cut(g.units, (G \cup Q) \cup {b}, E)
      /\ b + g.units[b] # mid[cur]
  BY DEF Half
<1>3. PICK u, w : u = g.units /\ w = g.next
  OBVIOUS
<1>4. /\ u \in [Unit -> Nat] /\ w \in [Unit -> Unit]
      /\ mid \in [Unit -> Unit] /\ G \subseteq Unit /\ 0 \in G /\ 0 \in Unit /\ cur \in Unit
      /\ Q \subseteq Unit /\ cur \in Nat
      /\ g = [next |-> w, units |-> u, slobfree |-> g.slobfree]
  <2>1. g = [next |-> w, units |-> u, slobfree |-> g.slobfree]
    BY <1>1, <1>2, <1>3 DEF HeapType
  <2>2. u \in [Unit -> Nat] /\ w \in [Unit -> Unit]
    BY <1>1, <1>2, <1>3 DEF HeapType
  <2>3. cur \in Nat
    BY <1>1, <1>2, CircledNext
  <2>4. QED
    BY <1>1, <1>2, <2>1, <2>2, <2>3 DEF Circled, Cut
<1>5. k.units[cur] = u[cur] /\ u[0] = 1
  BY <1>1, <1>2, <1>3, <1>4
<1>6. CASE cur + u[cur] = b
  <2>1. r = [[g EXCEPT !.units[cur] = @ + g.units[b], !.next[cur] = g.next[b],
                       !.units[b] = 0, !.next[b] = 0] EXCEPT !.slobfree = cur]
    BY <1>0, <1>1, <1>5, <1>6 DEF DownJoined
  <2>2. PICK v, new : /\ v = [[u EXCEPT ![cur] = u[cur] + u[b]] EXCEPT ![b] = 0]
                      /\ new = [[w EXCEPT ![cur] = w[b]] EXCEPT ![b] = 0]
    OBVIOUS
  <2>3. r = [next |-> new, units |-> v, slobfree |-> cur]
    BY <1>1, <1>3, <1>4, <2>1, <2>2
  <2>4. cur # b /\ cur # 0
    <3>1. cur = 0 => cur + u[cur] = 1
      BY <1>1, <1>5
    <3>2. QED
      BY <1>1, <1>6, <3>1
  <2>5. /\ v \in [Unit -> Nat] /\ v[cur] = u[cur] + u[b]
        /\ \A e \in (G \cup Q) \ {cur} : v[e] = u[e]
    <3>1. u[cur] + u[b] \in Nat
      BY <1>1, <1>4
    <3>2. v \in [Unit -> Nat]
      BY <1>1, <1>4, <2>2, <3>1
    <3>3. v[cur] = u[cur] + u[b]
      BY <1>1, <1>4, <2>2, <2>4
    <3>4. \A e \in (G \cup Q) \ {cur} : v[e] = u[e]
      BY <1>1, <1>2, <1>4, <2>2
    <3>5. QED
      BY <1>1, <3>2, <3>3, <3>4
  <2>6. /\ new \in [Unit -> Unit] /\ \A e \in G : new[e] = mid[e]
    <3>1. new \in [Unit -> Unit]
      BY <1>1, <1>4, <2>2
    <3>2. new[cur] = mid[cur]
      BY <1>1, <1>2, <1>3, <1>4, <2>2, <2>4
    <3>3. \A e \in G \ {cur} : new[e] = mid[e]
      BY <1>1, <1>2, <1>3, <1>4, <2>2
    <3>4. QED
      BY <1>1, <3>1, <3>2, <3>3
  <2>7. Circled(new, G)
    BY <1>1, <1>2, <2>6 DEF Circled
  <2>8. Cut(v, G \cup Q, E)
    <3>1. PICK P : P = (G \cup Q) \cup {b}
      OBVIOUS
    <3>2. Cut(u, P, E) /\ cur \in P /\ b \in P
      BY <1>1, <1>2, <1>3, <3>1
    <3>3. \A e \in P \ {cur, b} : v[e] = u[e]
      BY <1>1, <2>5, <3>1
    <3>4. v \in [Unit -> Nat] /\ v[cur] = u[cur] + u[b] /\ cur + u[cur] = b
      BY <1>6, <2>5
    <3>5. Cut(v, P \ {b}, E)
      BY <3>2, <3>3, <3>4, CutJoin
    <3>6. P \ {b} = G \cup Q
      BY <1>1, <1>2, <3>1
    <3>7. QED
      BY <3>5, <3>6
  <2>9. ASSUME NEW e \in G PROVE e + v[e] # new[e]
    <3>1. CASE e = cur
      <4>1. e + v[e] = b + u[b]
        BY <1>1, <1>4, <1>6, <2>5, <3>1
      <4>2. QED
        BY <1>1, <1>2, <1>3, <2>6, <3>1, <4>1
    <3>2. CASE e # cur
      BY <1>1, <1>2, <1>3, <2>5, <2>6, <3>2
    <3>3. QED
      BY <1>1, <3>1, <3>2
  <2>10. r \in HeapType
    <3>1. cur \in Unit
      BY <1>1, <1>4
    <3>2. [next |-> new, units |-> v, slobfree |-> cur] \in HeapType
      BY <1>1, <2>3, <2>5, <2>6, <3>1, HeapOf, Zenon
    <3>3. QED
      BY <1>1, <2>3, <3>2
  <2>11. v[0] = 1
    BY <1>1, <1>4, <1>5, <2>4, <2>5
  <2>12. Heaped(r, G, Q, E)
    BY <1>1, <1>2, <2>3, <2>7, <2>8, <2>9, <2>10, <2>11 DEF Heaped
  <2>13. \A q \in Q : r.units[q] = h.units[q]
    <3>1. \A q \in Q : q # cur
      BY <1>1
    <3>2. QED
      BY <1>1, <1>2, <1>3, <2>3, <2>5, <3>1
  <2>14. QED
    BY <1>0, <2>12, <2>13 DEF Keeps
<1>7. CASE cur + u[cur] # b
  <2>1. r = [[g EXCEPT !.next[cur] = b] EXCEPT !.slobfree = cur]
    BY <1>0, <1>1, <1>5, <1>7 DEF DownJoined
  <2>2. PICK new : new = [w EXCEPT ![cur] = b]
    OBVIOUS
  <2>3. r = [next |-> new, units |-> u, slobfree |-> cur]
    BY <1>1, <1>3, <1>4, <2>1, <2>2
  <2>4. /\ new \in [Unit -> Unit] /\ new[cur] = b /\ new[b] = mid[cur]
        /\ \A e \in G \ {cur} : new[e] = mid[e]
    BY <1>1, <1>2, <1>3, <1>4, <2>2
  <2>5. Circled(new, G \cup {b})
    BY <1>1, <1>2, <2>4, CircleAdd
  <2>6. (G \cup Q) \cup {b} = (G \cup {b}) \cup Q
    BY <1>1
  <2>7. ASSUME NEW e \in G \cup {b} PROVE e + u[e] # new[e]
    <3>1. CASE e = cur
      BY <1>1, <1>7, <2>4, <3>1
    <3>2. CASE e = b
      BY <1>1, <1>2, <1>3, <2>4, <3>2
    <3>3. CASE e \in G \ {cur}
      BY <1>1, <1>2, <1>3, <2>4, <3>3
    <3>4. QED
      BY <1>1, <3>1, <3>2, <3>3
  <2>8. r \in HeapType
    <3>1. cur \in Unit /\ u \in [Unit -> Nat]
      BY <1>1, <1>4
    <3>2. [next |-> new, units |-> u, slobfree |-> cur] \in HeapType
      BY <1>1, <2>3, <2>4, <3>1, HeapOf, Zenon
    <3>3. QED
      BY <1>1, <2>3, <3>2
  <2>9. (G \cup {b}) \cap Q = {}
    BY <1>1, <1>2
  <2>10. Heaped(r, G \cup {b}, Q, E)
    <3>1. r.next = new /\ r.units = u /\ r.slobfree = cur
      BY <1>1, <2>3
    <3>2. Cut(u, (G \cup {b}) \cup Q, E) /\ cur \in G \cup {b}
      BY <1>1, <1>2, <1>3, <2>6
    <3>3. QED
      BY <1>1, <1>5, <2>5, <2>7, <2>8, <2>9, <3>1, <3>2 DEF Heaped
  <2>11. \A q \in Q : r.units[q] = h.units[q]
    BY <1>1, <1>2, <1>3, <2>3
  <2>12. QED
    BY <1>0, <2>10, <2>11 DEF Keeps
<1>8. QED
  BY <1>6, <1>7

\* slob_free adds a run of units to the ring.
LEMMA Returned ==
    ASSUME NEW h, NEW H, NEW Q, NEW F, Heaped(h, H, Q, F),
           NEW b \in Nat, b >= 2, NEW n \in Nat, n >= 1, b + n <= Top,
           \A x \in b .. b + n - 1 : x \notin F
    PROVE  Keeps(h, SlobFree(h, b, n), Q, F \cup (b .. b + n - 1))
<1>1. /\ h \in HeapType /\ Circled(h.next, H) /\ h.slobfree \in H /\ H \cap Q = {}
      /\ \A e \in H : e + h.units[e] # h.next[e]
      /\ Cut(h.units, H \cup Q, F) /\ h.units[0] = 1
  BY DEF Heaped
<1>2. PICK k : k = [h EXCEPT !.units[b] = n]
  OBVIOUS
<1>3. PICK v : v = [h.units EXCEPT ![b] = n]
  OBVIOUS
<1>4. b \in Unit /\ b \notin F /\ H \cup Q \subseteq F /\ H \cup Q \subseteq Unit
  <2>1. b \in b .. b + n - 1
    OBVIOUS
  <2>2. b \in Unit
    BY HeapNumbers
  <2>3. QED
    BY <1>1, <2>1, <2>2, CutTypes
<1>5. v \in [Unit -> Nat] /\ v[b] = n /\ \A e \in H \cup Q : v[e] = h.units[e]
  <2>1. h.units \in [Unit -> Nat]
    BY <1>1 DEF HeapType
  <2>2. QED
    BY <1>3, <1>4, <2>1
<1>6. k.units = v
  BY <1>1, <1>2, <1>3 DEF HeapType
<1>7. PICK E : E = F \cup (b .. b + n - 1)
  OBVIOUS
<1>8. Cut(k.units, (H \cup Q) \cup {b}, E)
  <2>1. PICK R : R = b .. b + n - 1
    OBVIOUS
  <2>2. R \cap F = {} /\ h.units \in [Unit -> Nat]
    BY <1>1, <2>1 DEF HeapType
  <2>3. Adds(h.units, H \cup Q, F, b, n, R, v)
    BY <1>1, <1>5, <2>1, <2>2 DEF Adds
  <2>4. Cut(v, (H \cup Q) \cup {b}, F \cup R)
    BY <2>3, CutAdd, Zenon
  <2>5. QED
    BY <1>6, <1>7, <2>1, <2>4
<1>9. PICK cur \in H : /\ cur < b /\ (h.next[cur] = 0 \/ b < h.next[cur])
                       /\ SlobFree(h, b, n) = [Joined(k, cur, b) EXCEPT !.slobfree = cur]
  <2>1. b \notin H
    BY <1>4
  <2>2. PICK cur \in H : /\ cur = Stopped(h, b) /\ cur < b
                         /\ h.next[cur] = 0 \/ b < h.next[cur]
    BY <1>1, <2>1, StopsBehind, Zenon
  <2>3. SlobFree(h, b, n) = [Joined(k, Stopped(h, b), b) EXCEPT !.slobfree = Stopped(h, b)]
    BY <1>2, Zenon DEF SlobFree, Stopped
  <2>4. QED
    BY <2>2, <2>3
<1>10. Joined(k, cur, b) = DownJoined(k, UpJoined(k, cur, b), cur, b)
  BY Zenon DEF Joined, DownJoined, UpJoined
<1>11. PICK mid, G : Half(h, H, Q, E, cur, b, UpJoined(k, cur, b), mid, G)
  BY <1>2, <1>4, <1>8, <1>9, Upwards
<1>12. \A e \in H : k.units[e] = h.units[e]
  BY <1>5, <1>6
<1>13. PICK g : g = UpJoined(k, cur, b)
  OBVIOUS
<1>14. Keeps(h, [DownJoined(k, g, cur, b) EXCEPT !.slobfree = cur], Q, E)
  <2>1. Behind(h, H, Q, cur, b)
    BY <1>1, <1>4, <1>9 DEF Behind
  <2>2. Half(h, H, Q, E, cur, b, g, mid, G)
    BY <1>11, <1>13
  <2>3. QED
    BY <1>12, <2>1, <2>2, Downwards, Zenon
<1>15. SlobFree(h, b, n) = [DownJoined(k, g, cur, b) EXCEPT !.slobfree = cur]
  BY <1>9, <1>10, <1>13
<1>16. QED
  BY <1>7, <1>14, <1>15

-----------------------------------------------------------------------------
(* slob_alloc: what is left of the block that is chosen stays in the ring. *)

\* The block before cur on the ring leads to it, and is the one that slob_alloc goes on with.
IsBefore(h, H, n, cur, prv) ==
    /\ cur \in H /\ h.units[cur] >= n
    /\ prv \in H /\ h.next[prv] = cur

\* The block that slob_alloc takes something from, and the one before
Choice(h, n) ==
    LET fits == Found(h, n)
    IN IF fits \ {1} = {} THEN 1 ELSE Min(fits \ {1})
Chosen(h, n) == Ring(h)[Choice(h, n)]
BeforeChosen(h, n) ==
    IF Choice(h, n) = 1 THEN Last(Ring(h)) ELSE Ring(h)[Choice(h, n) - 1]

\* slob_alloc finds a block that is large enough, and the one before.
LEMMA ChosenFits ==
    ASSUME NEW h, NEW H, Circled(h.next, H), h.slobfree \in H,
           NEW n, Found(h, n) # {}
    PROVE  IsBefore(h, H, n, Chosen(h, n), BeforeChosen(h, n))
<1>1. PICK ring : ring = Ring(h)
  OBVIOUS
<1>2. /\ Len(ring) \in Nat \ {0} /\ DOMAIN ring = 1..Len(ring)
      /\ \A i \in 1..Len(ring) : ring[i] \in H
      /\ h.next[ring[Len(ring)]] = ring[1]
      /\ \A i \in 1..Len(ring)-1 : h.next[ring[i]] = ring[i+1]
  <2>1. IsRing(ring, h.slobfree, h.next, H)
    BY <1>1, RingWalks
  <2>2. QED
    BY <2>1 DEF IsRing
<1>3. PICK fits : fits = Found(h, n)
  OBVIOUS
<1>4. fits # {} /\ fits = {i \in 1..Len(ring) : h.units[ring[i]] >= n}
  BY <1>1, <1>2, <1>3 DEF Found
<1>5. PICK i : i = Choice(h, n)
  OBVIOUS
<1>6. i \in fits
  <2>1. CASE fits \ {1} = {}
    BY <1>3, <1>4, <1>5, <2>1 DEF Choice
  <2>2. CASE fits \ {1} # {}
    <3>1. PICK T : T = fits \ {1}
      OBVIOUS
    <3>2. T \subseteq Nat /\ T # {}
      BY <1>4, <2>2, <3>1
    <3>3. \E x \in T : \A y \in T : x <= y
      BY <3>2, LeastNatural
    <3>4. Min(T) \in T
      BY <3>3 DEF Min
    <3>5. i = Min(T)
      BY <1>3, <1>5, <2>2, <3>1 DEF Choice
    <3>6. QED
      BY <3>1, <3>4, <3>5
  <2>3. QED
    BY <2>1, <2>2
<1>7. PICK cur : cur = ring[i]
  OBVIOUS
<1>8. i \in 1..Len(ring) /\ cur \in H /\ h.units[cur] >= n
  BY <1>2, <1>4, <1>6, <1>7
<1>9. PICK prv : prv = IF i = 1 THEN ring[Len(ring)] ELSE ring[i-1]
  OBVIOUS
<1>10. prv \in H /\ h.next[prv] = cur
  <2>1. CASE i = 1
    BY <1>2, <1>7, <1>9, <2>1
  <2>2. CASE i # 1
    <3>1. i - 1 \in 1..Len(ring)-1 /\ i - 1 \in 1..Len(ring) /\ (i - 1) + 1 = i
      BY <1>2, <1>8, <2>2
    <3>2. QED
      BY <1>2, <1>7, <1>9, <2>2, <3>1
  <2>3. QED
    BY <2>1, <2>2
<1>11. cur = Chosen(h, n)
  BY <1>1, <1>5, <1>7 DEF Chosen
<1>12. prv = BeforeChosen(h, n)
  <2>1. Last(ring) = ring[Len(ring)]
    BY DEF Last
  <2>2. QED
    BY <1>1, <1>5, <1>9, <2>1 DEF BeforeChosen
<1>13. QED
  BY <1>8, <1>10, <1>11, <1>12 DEF IsBefore

\* slob_alloc hands a piece of n units out: it is none of the pieces Q, and these are as
\* they were.
Served(h, t, n, Q, F) ==
    /\ t.at \notin Q /\ t.at \in Unit /\ t.h.units[t.at] = n
    /\ \E H : Heaped(t.h, H, Q \cup {t.at}, F)
    /\ \A q \in Q : t.h.units[q] = h.units[q]

\* The numbers behind both ways to take a piece.
LEMMA TakeFacts ==
    ASSUME NEW h, NEW H, NEW Q, NEW F, Heaped(h, H, Q, F),
           NEW n \in Nat, n >= 2, NEW cur, NEW prv, IsBefore(h, H, n, cur, prv)
    PROVE  /\ cur \in H /\ prv \in H /\ h.next[prv] = cur /\ cur # 0
           /\ cur \in Nat /\ prv \in Nat /\ h.units[cur] \in Nat /\ h.units[cur] >= n
           /\ h.next[cur] \in H /\ h.next[cur] \in Nat /\ prv < cur
           /\ h.units[prv] \in Nat /\ h.units[prv] >= 1 /\ prv + h.units[prv] <= cur
           /\ h.next[cur] = 0 \/ cur + h.units[cur] < h.next[cur]
           /\ cur \notin Q /\ cur \in Unit /\ prv \in Unit
<1>1. /\ Circled(h.next, H) /\ Cut(h.units, H \cup Q, F) /\ H \cap Q = {}
      /\ \A e \in H : e + h.units[e] # h.next[e]
      /\ h.units[0] = 1
  BY DEF Heaped
<1>2. cur \in H /\ h.units[cur] >= n /\ prv \in H /\ h.next[prv] = cur
  BY DEF IsBefore
<1>3. PICK P : P = H \cup Q
  OBVIOUS
<1>4. \A e \in P : e \in Unit /\ e \in Nat /\ h.units[e] \in Nat /\ h.units[e] >= 1
  BY <1>1, <1>3, CutTypes
<1>5. h.next[cur] \in H
  BY <1>1, <1>2, CircledNext
<1>6. cur # 0
  BY <1>1, <1>2
<1>7. prv < cur
  BY <1>1, <1>2, <1>6 DEF Circled, Follows
<1>8. \A e, g \in P : e < g => e + h.units[e] <= g
  BY <1>1, <1>3 DEF Cut
<1>9. prv + h.units[prv] <= cur
  BY <1>2, <1>3, <1>7, <1>8
<1>10. h.next[cur] = 0 \/ cur + h.units[cur] < h.next[cur]
  <2>1. SUFFICES ASSUME h.next[cur] # 0 PROVE cur + h.units[cur] < h.next[cur]
    OBVIOUS
  <2>2. cur < h.next[cur]
    BY <1>1, <1>2, <2>1 DEF Circled, Follows
  <2>3. cur + h.units[cur] <= h.next[cur]
    BY <1>2, <1>3, <1>5, <1>8, <2>2
  <2>4. cur + h.units[cur] # h.next[cur]
    BY <1>1, <1>2
  <2>5. cur \in Nat /\ h.units[cur] \in Nat /\ h.next[cur] \in Nat
    BY <1>2, <1>3, <1>4, <1>5
  <2>6. QED
    BY <2>3, <2>4, <2>5
<1>11. QED
  BY <1>1, <1>2, <1>3, <1>4, <1>5, <1>6, <1>7, <1>9, <1>10

\* What slob_alloc makes of the heap when it takes a whole block...
AllTaken(h, cur, prv) ==
    [h EXCEPT !.next[prv] = h.next[cur], !.next[cur] = 0, !.slobfree = prv]

\* slob_alloc takes a whole block.
LEMMA TakesAll ==
    ASSUME NEW h, NEW H, NEW Q, NEW F, Heaped(h, H, Q, F),
           NEW n \in Nat, n >= 2, NEW cur, NEW prv, IsBefore(h, H, n, cur, prv),
           h.units[cur] = n
    PROVE  Served(h, [at |-> cur, h |-> AllTaken(h, cur, prv)], n, Q, F)
<1>1. /\ h \in HeapType /\ Circled(h.next, H) /\ Cut(h.units, H \cup Q, F) /\ H \cap Q = {}
      /\ \A e \in H : e + h.units[e] # h.next[e]
      /\ h.units[0] = 1
  BY DEF Heaped
<1>2. PICK nxt, u : nxt = h.next /\ u = h.units
  OBVIOUS
<1>3. /\ cur \in H /\ prv \in H /\ nxt[prv] = cur /\ cur # 0
      /\ cur \in Nat /\ prv \in Nat /\ u[cur] \in Nat
      /\ nxt[cur] \in H /\ nxt[cur] \in Nat /\ prv < cur
      /\ u[prv] \in Nat /\ u[prv] >= 1 /\ prv + u[prv] <= cur
      /\ nxt[cur] = 0 \/ cur + u[cur] < nxt[cur]
      /\ cur \notin Q /\ cur \in Unit /\ prv \in Unit
  BY <1>2, TakeFacts
<1>4. nxt \in [Unit -> Unit] /\ u \in [Unit -> Nat] /\ H \subseteq Unit
  BY <1>1, <1>2 DEF HeapType, Circled
<1>5. PICK w : w = [[nxt EXCEPT ![prv] = nxt[cur]] EXCEPT ![cur] = 0]
  OBVIOUS
<1>6. /\ w \in [Unit -> Unit] /\ w[prv] = nxt[nxt[prv]]
      /\ \A e \in H \ {prv, nxt[prv]} : w[e] = nxt[e]
  <2>1. 0 \in Unit /\ nxt[cur] \in Unit /\ cur # prv
    BY <1>1, <1>3, <1>4 DEF Circled
  <2>2. QED
    BY <1>3, <1>4, <1>5, <2>1
<1>7. Circled(w, H \ {cur})
  <2>1. Circled(nxt, H) /\ nxt[prv] # 0
    BY <1>1, <1>2, <1>3
  <2>2. Circled(w, H \ {nxt[prv]})
    BY <1>3, <1>6, <2>1, CircleDel
  <2>3. QED
    BY <1>3, <2>2
<1>8. PICK G : G = H \ {cur}
  OBVIOUS
<1>9. PICK g : g = AllTaken(h, cur, prv)
  OBVIOUS
<1>10. g = [next |-> w, units |-> u, slobfree |-> prv]
  BY <1>1, <1>2, <1>5, <1>9 DEF HeapType, AllTaken
<1>11. g \in HeapType
  BY <1>3, <1>4, <1>6, <1>10, HeapOf
<1>12. ASSUME NEW e \in G PROVE e + u[e] # w[e]
  <2>1. CASE e = prv
    <3>1. w[e] = nxt[cur]
      BY <1>3, <1>6, <2>1
    <3>2. QED
      BY <1>3, <2>1, <3>1
  <2>2. CASE e # prv
    BY <1>1, <1>2, <1>3, <1>6, <1>8, <2>2
  <2>3. QED
    BY <2>1, <2>2
<1>13. G \cup (Q \cup {cur}) = H \cup Q /\ G \cap (Q \cup {cur}) = {} /\ prv \in G
  BY <1>1, <1>3, <1>8
<1>14. Heaped(g, G, Q \cup {cur}, F)
  BY <1>1, <1>2, <1>7, <1>8, <1>10, <1>11, <1>12, <1>13 DEF Heaped
<1>15. QED
  BY <1>2, <1>3, <1>9, <1>10, <1>14 DEF Served

\* ...and when it leaves the rest of one
PartTaken(h, n, cur, prv, rest) ==
    [h EXCEPT !.next[prv] = rest, !.next[rest] = h.next[cur],
              !.units[rest] = h.units[cur] - n, !.units[cur] = n,
              !.next[cur] = 0, !.slobfree = prv]

\* slob_alloc takes the first n units of a block.
LEMMA TakesPart ==
    ASSUME NEW h, NEW H, NEW Q, NEW F, Heaped(h, H, Q, F),
           NEW n \in Nat, n >= 2, NEW cur, NEW prv, IsBefore(h, H, n, cur, prv),
           h.units[cur] # n
    PROVE  Served(h, [at |-> cur, h |-> PartTaken(h, n, cur, prv, cur + n)], n, Q, F)
<1>0. PICK rest : rest = cur + n
  OBVIOUS
<1>1. /\ h \in HeapType /\ Circled(h.next, H) /\ Cut(h.units, H \cup Q, F) /\ H \cap Q = {}
      /\ \A e \in H : e + h.units[e] # h.next[e]
      /\ h.units[0] = 1
  BY DEF Heaped
<1>2. PICK nxt, u : nxt = h.next /\ u = h.units
  OBVIOUS
<1>3. /\ cur \in H /\ prv \in H /\ nxt[prv] = cur /\ cur # 0
      /\ cur \in Nat /\ prv \in Nat /\ u[cur] \in Nat /\ u[cur] >= n
      /\ nxt[cur] \in H /\ nxt[cur] \in Nat /\ prv < cur
      /\ u[prv] \in Nat /\ u[prv] >= 1 /\ prv + u[prv] <= cur
      /\ nxt[cur] = 0 \/ cur + u[cur] < nxt[cur]
      /\ cur \notin Q /\ cur \in Unit /\ prv \in Unit
  BY <1>2, TakeFacts
<1>4. nxt \in [Unit -> Unit] /\ u \in [Unit -> Nat] /\ H \subseteq Unit /\ 0 \in H
  BY <1>1, <1>2 DEF HeapType, Circled
<1>5. PICK v : v = [[u EXCEPT ![rest] = u[cur] - n] EXCEPT ![cur] = n]
  OBVIOUS
<1>6. PICK P : P = H \cup Q
  OBVIOUS
<1>7. n >= 1 /\ n < u[cur] /\ cur \in P /\ u[cur] - n \in Nat /\ rest # cur /\ rest \in Nat
  BY <1>0, <1>2, <1>3, <1>6
<1>8. rest \in Unit /\ rest \notin P
  <2>1. /\ cur + u[cur] <= Top /\ \A x \in Nat : x < Top => x \in Unit
        /\ \A e \in P : e \in Nat /\ u[e] \in Nat /\ u[e] >= 1
        /\ \A e, g \in P, x \in Nat : Within(u, e, x) /\ Within(u, g, x) => e = g
        /\ Top \in Nat
    <3>1. Cut(u, P, F)
      BY <1>1, <1>2, <1>6
    <3>2. QED
      BY <1>7, <3>1, CutTypes
  <2>2. rest \in Unit
    BY <1>0, <1>3, <1>7, <2>1
  <2>3. Within(u, cur, rest)
    BY <1>0, <1>3, <1>7 DEF Within
  <2>4. rest \in P => Within(u, rest, rest)
    BY <1>7, <2>1 DEF Within
  <2>5. QED
    BY <1>7, <2>1, <2>2, <2>3, <2>4
<1>9. /\ v \in [Unit -> Nat] /\ v[cur] = n /\ v[rest] = u[cur] - n
      /\ \A x \in P \ {cur} : v[x] = u[x]
  <2>1. P \subseteq Unit
    BY <1>1, <1>6 DEF Cut
  <2>2. QED
    BY <1>3, <1>4, <1>5, <1>7, <1>8, <2>1
<1>10. Cut(v, P \cup {rest}, F)
  <2>1. Cut(u, P, F)
    BY <1>1, <1>2, <1>6
  <2>2. QED
    BY <1>0, <1>7, <1>9, <2>1, CutSplit
<1>11. PICK w : w = [[[nxt EXCEPT ![prv] = rest] EXCEPT ![rest] = nxt[cur]] EXCEPT ![cur] = 0]
  OBVIOUS
<1>12. PICK mid, G : mid = [nxt EXCEPT ![prv] = nxt[cur]] /\ G = H \ {cur}
  OBVIOUS
<1>13. prv # cur /\ rest # prv /\ prv \in G /\ nxt[cur] \in Unit /\ 0 \in Unit /\ rest # 1
  BY <1>0, <1>3, <1>4, <1>6, <1>8, <1>12
<1>14. /\ mid \in [Unit -> Unit] /\ mid[prv] = nxt[nxt[prv]]
       /\ \A e \in H \ {prv, nxt[prv]} : mid[e] = nxt[e]
  BY <1>3, <1>4, <1>12, <1>13
<1>15. Circled(mid, G)
  <2>1. Circled(nxt, H) /\ nxt[prv] # 0
    BY <1>1, <1>2, <1>3
  <2>2. Circled(mid, H \ {nxt[prv]})
    BY <1>3, <1>14, <2>1, CircleDel
  <2>3. QED
    BY <1>3, <1>12, <2>2
<1>16. /\ w \in [Unit -> Unit] /\ w[prv] = rest /\ w[rest] = mid[prv]
       /\ \A e \in G \ {prv} : w[e] = mid[e]
  <2>1. w \in [Unit -> Unit]
    BY <1>4, <1>8, <1>11, <1>13
  <2>2. w[prv] = rest
    BY <1>3, <1>4, <1>11, <1>13
  <2>3. w[rest] = nxt[cur]
    BY <1>4, <1>7, <1>8, <1>11
  <2>4. \A e \in G \ {prv} : w[e] = nxt[e]
    BY <1>4, <1>6, <1>8, <1>11, <1>12
  <2>5. QED
    BY <1>3, <1>12, <1>14, <2>1, <2>2, <2>3, <2>4
<1>17. Circled(w, G \cup {rest})
  <2>1. prv < rest /\ (mid[prv] = 0 \/ rest < mid[prv])
    BY <1>0, <1>3, <1>7, <1>14
  <2>2. QED
    BY <1>8, <1>13, <1>15, <1>16, <2>1, CircleAdd
<1>18. PICK g : g = PartTaken(h, n, cur, prv, rest)
  OBVIOUS
<1>19. g = [next |-> w, units |-> v, slobfree |-> prv]
  BY <1>1, <1>2, <1>5, <1>11, <1>18 DEF HeapType, PartTaken
<1>20. g \in HeapType
  BY <1>3, <1>9, <1>16, <1>19, HeapOf
<1>21. ASSUME NEW e \in G \cup {rest} PROVE e + v[e] # w[e]
  <2>1. CASE e = prv
    <3>1. v[e] = u[e] /\ w[e] = rest
      BY <1>3, <1>6, <1>9, <1>13, <1>16, <2>1
    <3>2. QED
      BY <1>0, <1>3, <1>7, <2>1, <3>1
  <2>2. CASE e = rest
    <3>1. e + v[e] = cur + u[cur]
      BY <1>0, <1>3, <1>9, <2>2
    <3>2. w[e] = nxt[cur]
      BY <1>3, <1>14, <1>16, <2>2
    <3>3. QED
      BY <1>1, <1>2, <1>3, <3>1, <3>2
  <2>3. CASE e \in G \ {prv}
    <3>1. v[e] = u[e] /\ w[e] = nxt[e] /\ e \in H
      <4>1. e \in H \ {prv, nxt[prv]} /\ e \in P \ {cur} /\ e \in H
        BY <1>3, <1>6, <1>12, <2>3
      <4>2. w[e] = mid[e] /\ mid[e] = nxt[e]
        BY <1>14, <1>16, <2>3, <4>1
      <4>3. QED
        BY <1>9, <4>1, <4>2
    <3>2. QED
      BY <1>1, <1>2, <3>1
  <2>4. QED
    BY <2>1, <2>2, <2>3
<1>22. /\ (G \cup {rest}) \cup (Q \cup {cur}) = P \cup {rest}
       /\ (G \cup {rest}) \cap (Q \cup {cur}) = {}
       /\ prv \in G \cup {rest}
  BY <1>1, <1>3, <1>6, <1>7, <1>8, <1>12, <1>13
<1>23. v[0] = 1
  BY <1>1, <1>2, <1>3, <1>4, <1>6, <1>9
<1>24. Heaped(g, G \cup {rest}, Q \cup {cur}, F)
  <2>1. g.next = w /\ g.units = v /\ g.slobfree = prv
    BY <1>19
  <2>2. QED
    BY <1>10, <1>17, <1>20, <1>21, <1>22, <1>23, <2>1 DEF Heaped
<1>25. \A q \in Q : g.units[q] = h.units[q]
  BY <1>2, <1>3, <1>6, <1>9, <1>19
<1>26. QED
  <2>1. PICK t : t = [at |-> cur, h |-> g]
    OBVIOUS
  <2>2. t.at = cur /\ t.h = g /\ g.units = v
    BY <1>19, <2>1
  <2>3. Served(h, t, n, Q, F)
    BY <1>3, <1>9, <1>24, <1>25, <2>2 DEF Served
  <2>4. QED
    BY <1>0, <1>18, <2>1, <2>3

\* slob_alloc takes a piece.
LEMMA Taken ==
    ASSUME NEW h, NEW H, NEW Q, NEW F, Heaped(h, H, Q, F),
           NEW n \in Nat, n >= 2, Found(h, n) # {}
    PROVE  Served(h, SlobTake(h, n), n, Q, F)
<1>1. PICK cur, prv : cur = Chosen(h, n) /\ prv = BeforeChosen(h, n)
  OBVIOUS
<1>2. IsBefore(h, H, n, cur, prv)
  BY <1>1, ChosenFits DEF Heaped
<1>3. SlobTake(h, n) =
        [at |-> cur,
         h |-> IF h.units[cur] = n
               THEN AllTaken(h, cur, prv)
               ELSE PartTaken(h, n, cur, prv, cur + n)]
  BY <1>1, ZenonT(60) DEF AllTaken, PartTaken, SlobTake, Chosen, BeforeChosen, Choice
<1>4. CASE h.units[cur] = n
  <2>1. Served(h, [at |-> cur, h |-> AllTaken(h, cur, prv)], n, Q, F)
    BY <1>2, <1>4, TakesAll
  <2>2. QED
    BY <1>3, <1>4, <2>1
<1>5. CASE h.units[cur] # n
  <2>1. Served(h, [at |-> cur, h |-> PartTaken(h, n, cur, prv, cur + n)], n, Q, F)
    BY <1>2, <1>5, TakesPart
  <2>2. QED
    BY <1>3, <1>5, <2>1
<1>6. QED
  BY <1>4, <1>5

-----------------------------------------------------------------------------
(* A page for the heap, as a piece that is given back.                     *)

\* The units of a page, and those of the arena and the pages S.
PageRun(p) == PageAt(p) .. PageAt(p) + PageUnits - 1
HeapUnits(S) == {0} \cup UNION {PageRun(p) : p \in S}

\* The pages lie one behind the other, behind the arena.
LEMMA PageRuns ==
    /\ \A p \in HeapPage : PageAt(p) \in Nat /\ PageAt(p) >= 2 /\ PageAt(p) + PageUnits <= Top
    /\ \A p, q \in HeapPage : p < q => PageAt(p) + PageUnits <= PageAt(q)
<1>1. NHEAP \in Nat /\ HeapPage = 1..NHEAP
  BY HeapAssumption DEF HeapPage
<1>2. PICK U \in Nat : U = PageUnits /\ U >= 4
  BY HeapNumbers
<1>3. \A a, b \in Nat : a * U \in Nat /\ b * U \in Nat /\ (a + b) * U = a * U + b * U
  BY <1>2
<1>4. \A p \in HeapPage : PageAt(p) = 2 + (p - 1) * U /\ p - 1 \in Nat
  BY <1>1, <1>2 DEF PageAt
<1>5. \A p, q \in Nat : p < q => p * U + U <= q * U
  <2>1. SUFFICES ASSUME NEW p \in Nat, NEW q \in Nat, p < q PROVE p * U + U <= q * U
    OBVIOUS
  <2>2. PICK d \in Nat : q = (p + 1) + d
    <3>1. q - (p + 1) \in Nat /\ q = (p + 1) + (q - (p + 1))
      BY <2>1
    <3>2. QED
      BY <3>1
  <2>3. (p + 1) * U = p * U + U
    BY <1>2
  <2>4. q * U = (p + 1) * U + d * U /\ d * U \in Nat /\ p * U \in Nat /\ p + 1 \in Nat
    BY <1>3, <2>2
  <2>5. QED
    BY <1>2, <2>3, <2>4
<1>6. ASSUME NEW p \in HeapPage
      PROVE  PageAt(p) \in Nat /\ PageAt(p) >= 2 /\ PageAt(p) + PageUnits <= Top
  <2>1. p - 1 \in Nat /\ p - 1 < NHEAP /\ (p - 1) * U \in Nat
    BY <1>1, <1>2
  <2>2. (p - 1) * U + U <= NHEAP * U
    BY <1>1, <1>5, <2>1
  <2>3. Top = 2 + NHEAP * U /\ NHEAP * U \in Nat
    BY <1>1, <1>2 DEF Top
  <2>4. QED
    BY <1>2, <1>4, <2>1, <2>2, <2>3
<1>7. ASSUME NEW p \in HeapPage, NEW q \in HeapPage, p < q
      PROVE  PageAt(p) + PageUnits <= PageAt(q)
  <2>1. p - 1 \in Nat /\ q - 1 \in Nat /\ p - 1 < q - 1 /\ (p - 1) * U \in Nat /\ (q - 1) * U \in Nat
    BY <1>1, <1>2, <1>7
  <2>2. (p - 1) * U + U <= (q - 1) * U
    BY <1>5, <2>1
  <2>3. QED
    BY <1>2, <1>4, <2>1, <2>2
<1>8. QED
  BY <1>6, <1>7

\* One more page adds its units, and they are new.
LEMMA PageAdds ==
    ASSUME NEW S, S \subseteq HeapPage, NEW p \in HeapPage, p \notin S
    PROVE  /\ HeapUnits(S \cup {p}) = HeapUnits(S) \cup PageRun(p)
           /\ PageRun(p) \cap HeapUnits(S) = {}
           /\ 1 \notin HeapUnits(S)
<1>1. HeapUnits(S \cup {p}) = HeapUnits(S) \cup PageRun(p)
  BY DEF HeapUnits
<1>2. PageUnits \in Nat /\ PageUnits >= 4
  BY HeapNumbers
<1>3. ASSUME NEW x \in PageRun(p), NEW q \in S, x \in PageRun(q) PROVE FALSE
  <2>1. q \in HeapPage /\ p \in Nat /\ q \in Nat /\ p # q
    BY HeapAssumption DEF HeapPage
  <2>2. PageAt(p) \in Nat /\ PageAt(q) \in Nat
    BY <2>1, PageRuns
  <2>3. /\ PageAt(p) <= x /\ x < PageAt(p) + PageUnits
        /\ PageAt(q) <= x /\ x < PageAt(q) + PageUnits /\ x \in Int
    BY <1>2, <1>3, <2>2 DEF PageRun
  <2>4. \/ PageAt(p) + PageUnits <= PageAt(q)
        \/ PageAt(q) + PageUnits <= PageAt(p)
    BY <2>1, PageRuns
  <2>5. QED
    BY <1>2, <2>2, <2>3, <2>4
<1>4. \A q \in HeapPage : 0 \notin PageRun(q) /\ 1 \notin PageRun(q)
  BY <1>2, PageRuns DEF PageRun
<1>5. PageRun(p) \cap HeapUnits(S) = {}
  BY <1>3, <1>4 DEF HeapUnits
<1>6. QED
  BY <1>1, <1>4, <1>5 DEF HeapUnits

\* A number of units and its bounds
LEMMA Units ==
    ASSUME NEW x \in Nat
    PROVE  /\ x \div SLOB_UNIT \in Nat
           /\ x >= 2 * SLOB_UNIT => x \div SLOB_UNIT >= 2
           /\ x < PAGE_SIZE => x \div SLOB_UNIT < PageUnits
<1>1. PICK B \in Nat \ {0} : B = SLOB_UNIT
  BY HeapAssumption
<1>2. x % B = x - B * (x \div B) /\ x % B \in 0..B-1 /\ x \div B \in Int
  OBVIOUS
<1>3. PICK q \in Int : q = x \div B
  BY <1>2
<1>4. PICK m \in 0..B-1 : x = B * q + m
  <2>1. PICK m \in 0..B-1 : m = x - B * q
    BY <1>2, <1>3
  <2>2. B * q \in Int
    OBVIOUS
  <2>3. QED
    BY <2>1, <2>2
<1>5. q >= 0
  BY <1>4
<1>6. x >= 2 * B => q >= 2
  <2>1. SUFFICES ASSUME x >= 2 * B, q <= 1 PROVE FALSE
    BY <1>3
  <2>2. CASE q = 0
    BY <1>4, <2>1, <2>2
  <2>3. CASE q = 1
    BY <1>4, <2>1, <2>3
  <2>4. QED
    BY <1>3, <1>5, <2>1, <2>2, <2>3
<1>7. x < PAGE_SIZE => q < PageUnits
  <2>1. PICK U \in Nat : U = PageUnits /\ PAGE_SIZE = U * B
    BY <1>1, HeapNumbers
  <2>2. SUFFICES ASSUME x < U * B, q >= U PROVE FALSE
    BY <1>3, <2>1
  <2>3. PICK d \in Nat : q = U + d
    <3>1. q - U \in Nat /\ q = U + (q - U)
      BY <2>2
    <3>2. QED
      BY <3>1
  <2>4. B * q = U * B + B * d /\ B * d \in Nat /\ U * B \in Nat
    BY <2>3
  <2>5. QED
    BY <1>4, <2>2, <2>4
<1>8. QED
  BY <1>1, <1>3, <1>5, <1>6, <1>7

\* What kmalloc asks slob_alloc for is more than the arena and at most a page.
LEMMA SizeFits ==
    ASSUME NEW size \in Size, Asserted(size)
    PROVE  /\ SLOB_UNITS(size + SLOB_UNIT) \in Nat
           /\ SLOB_UNITS(size + SLOB_UNIT) >= 2
           /\ SLOB_UNITS(size + SLOB_UNIT) <= PageUnits
<1>1. size \in Nat \ {0} /\ SLOB_UNIT \in Nat \ {0} /\ PAGE_SIZE \in Nat
  BY HeapAssumption
<1>2. size + SLOB_UNIT + SLOB_UNIT < PAGE_SIZE
  BY DEF Asserted
<1>3. PICK x \in Nat : x = size + SLOB_UNIT + SLOB_UNIT - 1
  BY <1>1
<1>4. x >= 2 * SLOB_UNIT /\ x < PAGE_SIZE
  BY <1>1, <1>2, <1>3
<1>5. SLOB_UNITS(size + SLOB_UNIT) = x \div SLOB_UNIT
  BY <1>3 DEF SLOB_UNITS
<1>6. PageUnits \in Nat
  BY HeapNumbers
<1>7. QED
  BY <1>4, <1>5, <1>6, Units

\* slob_free of a piece that is in use puts its units into the ring.
LEMMA GivenBack ==
    ASSUME NEW h, NEW H, NEW Q, NEW F, Heaped(h, H, Q, F), 1 \notin F, NEW b \in Q
    PROVE  Keeps(h, SlobFree(h, b, h.units[b]), Q \ {b}, F)
<1>1. /\ h \in HeapType /\ Circled(h.next, H) /\ h.slobfree \in H
      /\ Cut(h.units, H \cup Q, F) /\ H \cap Q = {}
      /\ \A e \in H : e + h.units[e] # h.next[e]
      /\ h.units[0] = 1
  BY DEF Heaped
<1>2. PICK P, u, n : P = H \cup Q /\ u = h.units /\ n = u[b]
  OBVIOUS
<1>3. PICK R : R = b .. b + n - 1
  OBVIOUS
<1>4. Cut(u, P, F) /\ b \in P
  BY <1>1, <1>2
<1>5. /\ b \in Nat /\ n \in Nat /\ n >= 1 /\ b + n <= Top /\ b \in F
      /\ \A e \in P, x \in Nat : Within(u, e, x) => x \in F
  BY <1>2, <1>4, CutTypes
<1>6. R \subseteq F
  <2>1. ASSUME NEW x \in R PROVE x \in F
    <3>1. x \in Nat /\ Within(u, b, x)
      BY <1>2, <1>3, <1>5 DEF Within
    <3>2. QED
      BY <1>4, <1>5, <3>1
  <2>2. QED
    BY <2>1
<1>7. Cut(u, P \ {b}, F \ R)
  BY <1>2, <1>3, <1>4, CutLift
<1>8. P \ {b} = H \cup (Q \ {b}) /\ H \cap (Q \ {b}) = {}
  BY <1>1, <1>2
<1>9. Heaped(h, H, Q \ {b}, F \ R)
  BY <1>1, <1>2, <1>7, <1>8 DEF Heaped
<1>10. b >= 2
  <2>1. b # 0
    BY <1>1 DEF Circled
  <2>2. b # 1
    BY <1>5
  <2>3. QED
    BY <1>5, <2>1, <2>2
<1>11. \A x \in b .. b + n - 1 : x \notin F \ R
  BY <1>3
<1>12. Keeps(h, SlobFree(h, b, n), Q \ {b}, (F \ R) \cup R)
  BY <1>3, <1>5, <1>9, <1>10, <1>11, Returned
<1>13. (F \ R) \cup R = F
  BY <1>6
<1>14. QED
  BY <1>2, <1>12, <1>13

\* The run R of m units from b on is added to F.
Grows(F, b, m, R, E) ==
    /\ b \in Nat /\ m \in Nat /\ m >= 1
    /\ R = b .. b + m - 1 /\ R \cap F = {} /\ E = F \cup R

\* The units of a run that slob_free has put into the ring are in one of its blocks.
LEMMA RunInRing ==
    ASSUME NEW h, NEW H, NEW Q, NEW F, Heaped(h, H, Q, F),
           NEW h1, NEW H1, NEW E, Heaped(h1, H1, Q, E), \A q \in Q : h1.units[q] = h.units[q],
           NEW b, NEW m, NEW R, Grows(F, b, m, R, E)
    PROVE  \E e \in H1 : h1.units[e] >= m
<1>0. /\ b \in Nat /\ m \in Nat /\ m >= 1
      /\ R = b .. b + m - 1 /\ R \cap F = {} /\ E = F \cup R
  BY DEF Grows
<1>1. Cut(h.units, H \cup Q, F)
  BY DEF Heaped
<1>2. /\ Circled(h1.next, H1) /\ Cut(h1.units, H1 \cup Q, E) /\ H1 \cap Q = {}
      /\ \A e \in H1 : e + h1.units[e] # h1.next[e]
  BY DEF Heaped
<1>3. PICK u : u = h1.units
  OBVIOUS
<1>4. \A e \in H1 \cup Q : e \in Unit /\ e \in Nat /\ u[e] \in Nat /\ u[e] >= 1
  BY <1>2, <1>3, CutTypes
<1>5. ASSUME NEW x \in R PROVE \E e \in H1 : Within(u, e, x)
  <2>1. x \in Unit /\ x \in Nat
    BY <1>0, <1>2, HeapNumbers DEF Cut
  <2>2. PICK e \in H1 \cup Q : Within(u, e, x)
    BY <1>0, <1>2, <1>3, <2>1 DEF Cut
  <2>3. CASE e \in Q
    <3>1. Within(h.units, e, x)
      BY <1>3, <2>2, <2>3 DEF Within
    <3>2. x \in F
      BY <1>1, <2>1, <2>3, <3>1 DEF Cut
    <3>3. QED
      BY <1>0, <3>2
  <2>4. QED
    BY <2>2, <2>3
<1>6. b \in R
  BY <1>0
<1>7. PICK e \in H1 : Within(u, e, b)
  BY <1>5, <1>6
<1>8. e \in Nat /\ u[e] \in Nat /\ e <= b /\ b < e + u[e]
  BY <1>4, <1>7 DEF Within
<1>9. e + u[e] >= b + m
  <2>1. SUFFICES ASSUME e + u[e] < b + m PROVE FALSE
    BY <1>0, <1>8
  <2>2. PICK x \in Nat : x = e + u[e]
    BY <1>8
  <2>3. x \in R /\ b < x
    BY <1>0, <1>8, <2>1, <2>2
  <2>4. PICK g \in H1 : Within(u, g, x)
    BY <1>5, <2>3
  <2>5. g \in Nat /\ u[g] \in Nat /\ g <= x /\ x < g + u[g]
    BY <1>4, <2>4 DEF Within
  <2>6. \A y, z \in H1 : y < z => y + u[y] <= z
    BY <1>2, <1>3 DEF Cut
  <2>7. g # e
    BY <2>2, <2>5
  <2>8. ~(g < e)
    BY <1>0, <1>8, <2>3, <2>5, <2>6
  <2>9. e < g
    BY <1>8, <2>5, <2>7, <2>8
  <2>10. e + u[e] = g
    BY <2>2, <2>5, <2>6, <2>9
  <2>11. h1.next[e] \in H1 /\ Follows(H1, e, h1.next[e])
    BY <1>2, CircledNext DEF Circled
  <2>12. h1.next[e] \in Nat
    BY <1>4, <2>11
  <2>13. h1.next[e] # 0
    BY <1>8, <2>5, <2>9, <2>11 DEF Follows
  <2>14. e < h1.next[e] /\ h1.next[e] <= g
    BY <2>9, <2>11, <2>13 DEF Follows
  <2>15. e + u[e] <= h1.next[e]
    BY <2>6, <2>11, <2>14
  <2>16. h1.next[e] = g
    BY <2>5, <2>10, <2>12, <2>14, <2>15
  <2>17. QED
    BY <1>2, <1>3, <2>10, <2>16
<1>10. u[e] >= m
  BY <1>0, <1>8, <1>9
<1>11. QED
  BY <1>3, <1>10

-----------------------------------------------------------------------------
(* kmalloc and kfree.                                                      *)

\* The pieces that the bigblock_ts of a list are in
AtsOf(bs) == {b.at : b \in Range(bs)}

\* A list of bigblock_ts, each in a piece of its own
BigList(bs) ==
    /\ \E T : bs \in Seq(T)
    /\ \A i \in DOMAIN bs : bs[i].page \in HeapPage
    /\ \A i, j \in DOMAIN bs : bs[i].at = bs[j].at => i = j

\* One more bigblock_t at the head of the list
LEMMA BigAdded ==
    ASSUME NEW bs, BigList(bs), NEW x, x.at \notin AtsOf(bs), x.page \in HeapPage
    PROVE  BigList(<<x>> \o bs) /\ AtsOf(<<x>> \o bs) = AtsOf(bs) \cup {x.at}
<1>1. PICK T : /\ bs \in Seq(T)
               /\ \A i \in DOMAIN bs : bs[i].page \in HeapPage
               /\ \A i, j \in DOMAIN bs : bs[i].at = bs[j].at => i = j
  BY DEF BigList
<1>2. PICK S : S = T \cup {x}
  OBVIOUS
<1>3. bs \in Seq(S) /\ x \in S
  BY <1>1, <1>2
<1>4. PICK c : c = <<x>> \o bs
  OBVIOUS
<1>5. /\ c \in Seq(S) /\ Range(c) = Range(bs) \cup {x}
      /\ Len(c) = Len(bs) + 1 /\ c[1] = x
      /\ \A i \in 1..Len(bs) : c[i + 1] = bs[i]
  BY <1>3, <1>4, RangeCons
<1>6. PICK n \in Nat : n = Len(bs) /\ DOMAIN bs = 1..n
  BY <1>1
<1>7. DOMAIN c = 1..n+1
  BY <1>5, <1>6
<1>8. \A i \in 1..n : bs[i].at \in AtsOf(bs)
  BY <1>6 DEF AtsOf, Range
<1>9. ASSUME NEW i \in 1..n+1, NEW j \in 1..n+1, c[i].at = c[j].at PROVE i = j
  <2>1. \A k \in 1..n+1 : k = 1 \/ (k - 1 \in 1..n /\ k = (k - 1) + 1 /\ c[k] = bs[k - 1])
    <3>1. ASSUME NEW k \in 1..n+1, k # 1 PROVE k - 1 \in 1..n /\ k = (k - 1) + 1 /\ c[k] = bs[k - 1]
      <4>1. k - 1 \in 1..n /\ k = (k - 1) + 1
        BY <3>1
      <4>2. QED
        BY <1>5, <1>6, <4>1
    <3>2. QED
      BY <3>1
  <2>2. CASE i = 1 /\ j # 1
    BY <1>5, <1>8, <1>9, <2>1, <2>2
  <2>3. CASE i # 1 /\ j = 1
    BY <1>5, <1>8, <1>9, <2>1, <2>3
  <2>4. CASE i # 1 /\ j # 1
    <3>1. PICK i1 \in 1..n : i = i1 + 1 /\ c[i] = bs[i1]
      BY <2>1, <2>4
    <3>2. PICK j1 \in 1..n : j = j1 + 1 /\ c[j] = bs[j1]
      BY <2>1, <2>4
    <3>3. i1 = j1
      BY <1>1, <1>6, <1>9, <3>1, <3>2
    <3>4. QED
      BY <3>1, <3>2, <3>3
  <2>5. QED
    BY <2>2, <2>3, <2>4
<1>10. BigList(c)
  <2>1. \A i \in 1..n+1 : c[i] \in Range(bs) \cup {x}
    BY <1>5, <1>7 DEF Range
  <2>2. \A y \in Range(bs) : y.page \in HeapPage
    BY <1>1 DEF Range
  <2>3. QED
    BY <1>5, <1>7, <1>9, <2>1, <2>2 DEF BigList
<1>11. AtsOf(c) = AtsOf(bs) \cup {x.at}
  BY <1>5 DEF AtsOf
<1>12. QED
  BY <1>4, <1>10, <1>11

\* One bigblock_t less in the list
LEMMA BigRemoved ==
    ASSUME NEW bs, BigList(bs), NEW k \in DOMAIN bs
    PROVE  BigList(RemoveAt(bs, k)) /\ AtsOf(RemoveAt(bs, k)) = AtsOf(bs) \ {bs[k].at}
<1>1. PICK T : /\ bs \in Seq(T)
               /\ \A i \in DOMAIN bs : bs[i].page \in HeapPage
               /\ \A i, j \in DOMAIN bs : bs[i].at = bs[j].at => i = j
  BY DEF BigList
<1>2. PICK n \in Nat : n = Len(bs) /\ DOMAIN bs = 1..n
  BY <1>1
<1>3. PICK c : c = RemoveAt(bs, k)
  OBVIOUS
<1>4. /\ c \in Seq(T) /\ Len(c) = n - 1
      /\ \A i \in 1..n-1 : c[i] = IF i < k THEN bs[i] ELSE bs[i + 1]
  BY <1>1, <1>2, <1>3, RemoveAtElements
<1>5. DOMAIN c = 1..n-1 /\ k \in 1..n
  BY <1>2, <1>4
<1>6. ASSUME NEW i \in 1..n-1, NEW j \in 1..n-1, c[i].at = c[j].at PROVE i = j
  <2>1. /\ i \in 1..n /\ i + 1 \in 1..n /\ j \in 1..n /\ j + 1 \in 1..n
    BY <1>2
  <2>2. PICK i1 \in 1..n : i1 = IF i < k THEN i ELSE i + 1
    BY <2>1
  <2>3. PICK j1 \in 1..n : j1 = IF j < k THEN j ELSE j + 1
    BY <2>1
  <2>4. i1 = j1
    <3>1. c[i] = bs[i1] /\ c[j] = bs[j1]
      BY <1>4, <2>2, <2>3
    <3>2. bs[i1].at = bs[j1].at
      BY <1>6, <3>1
    <3>3. QED
      BY <1>1, <1>2, <3>2
  <2>5. QED
    BY <1>5, <2>2, <2>3, <2>4
<1>7. ASSUME NEW i \in 1..n-1 PROVE c[i].at \in AtsOf(bs) \ {bs[k].at}
  <2>1. PICK j \in 1..n : c[i] = bs[j] /\ j # k
    <3>1. i \in 1..n /\ i + 1 \in 1..n
      OBVIOUS
    <3>2. CASE i < k
      BY <1>4, <1>5, <3>1, <3>2
    <3>3. CASE ~(i < k)
      <4>1. c[i] = bs[i + 1] /\ i + 1 # k
        BY <1>4, <1>5, <3>3
      <4>2. QED
        BY <3>1, <4>1
    <3>4. QED
      BY <3>2, <3>3
  <2>2. bs[j].at \in AtsOf(bs)
    BY <1>2 DEF AtsOf, Range
  <2>3. bs[j].at # bs[k].at
    BY <1>1, <1>2, <2>1
  <2>4. QED
    BY <2>1, <2>2, <2>3
<1>8. ASSUME NEW j \in 1..n, j # k PROVE \E i \in 1..n-1 : c[i] = bs[j]
  <2>1. CASE j < k
    <3>1. j \in 1..n-1
      BY <1>5, <2>1
    <3>2. QED
      BY <1>4, <2>1, <3>1
  <2>2. CASE j > k
    <3>1. j - 1 \in 1..n-1 /\ ~(j - 1 < k) /\ (j - 1) + 1 = j
      BY <1>5, <2>2
    <3>2. c[j - 1] = bs[(j - 1) + 1]
      BY <1>4, <3>1
    <3>3. QED
      BY <3>1, <3>2
  <2>3. QED
    BY <1>5, <1>8, <2>1, <2>2
<1>9. AtsOf(c) = AtsOf(bs) \ {bs[k].at}
  <2>1. \A a \in AtsOf(c) : a \in AtsOf(bs) \ {bs[k].at}
    BY <1>5, <1>7 DEF AtsOf, Range
  <2>2. ASSUME NEW a \in AtsOf(bs), a # bs[k].at PROVE a \in AtsOf(c)
    <3>1. PICK j \in 1..n : bs[j].at = a
      BY <1>2 DEF AtsOf, Range
    <3>2. PICK i \in 1..n-1 : c[i] = bs[j]
      BY <1>8, <2>2, <3>1
    <3>3. c[i].at = a
      BY <3>1, <3>2
    <3>4. QED
      BY <1>5, <3>3 DEF AtsOf, Range
  <2>3. QED
    BY <2>1, <2>2
<1>10. BigList(c)
  <2>1. \A i \in 1..n-1 : c[i].page \in HeapPage
    <3>1. ASSUME NEW i \in 1..n-1 PROVE c[i].page \in HeapPage
      <4>1. i \in 1..n /\ i + 1 \in 1..n
        OBVIOUS
      <4>2. QED
        BY <1>1, <1>2, <1>4, <4>1
    <3>2. QED
      BY <3>1
  <2>2. QED
    BY <1>4, <1>5, <1>6, <2>1 DEF BigList
<1>11. QED
  BY <1>3, <1>9, <1>10

\* The pieces that are in use
InUse == objects \cup AtsOf(bigblocks)

\* The inductive invariant of the heap
HeapInv ==
    /\ slobs \subseteq HeapPage
    /\ \E H : Heaped(heap, H, InUse, HeapUnits(slobs))
    /\ objects \cap AtsOf(bigblocks) = {}
    /\ BigList(bigblocks)
    /\ \A a \in AtsOf(bigblocks) : heap.units[a] = BigUnits

\* slob_alloc hands out a piece of n units.
LEMMA AllocServes ==
    ASSUME HeapInv, NEW n \in Nat, n >= 2, n <= PageUnits, NEW a \in SlobAllocs(n)
    PROVE  /\ a.slobs \subseteq HeapPage
           /\ Served(heap, a.t, n, InUse, HeapUnits(a.slobs))
<1>1. PICK Q, F : Q = InUse /\ F = HeapUnits(slobs)
  OBVIOUS
<1>2. PICK H : Heaped(heap, H, Q, F)
  BY <1>1 DEF HeapInv
<1>3. slobs \subseteq HeapPage
  BY DEF HeapInv
<1>4. CASE Found(heap, n) # {}
  <2>1. a = [t |-> SlobTake(heap, n), slobs |-> slobs]
    BY <1>4 DEF SlobAllocs
  <2>2. Served(heap, SlobTake(heap, n), n, Q, F)
    BY <1>2, <1>4, Taken
  <2>3. QED
    BY <1>1, <1>3, <2>1, <2>2
<1>5. CASE Found(heap, n) = {}
  <2>1. PICK p \in NobodysPages :
              a = [t |-> SlobTake(SlobFree(heap, PageAt(p), PageUnits), n), slobs |-> slobs \cup {p}]
    BY <1>5 DEF SlobAllocs
  <2>2. p \in HeapPage /\ p \notin slobs
    BY DEF NobodysPages
  <2>3. PICK b, m, R : b = PageAt(p) /\ m = PageUnits /\ R = PageRun(p)
    OBVIOUS
  <2>4. /\ b \in Nat /\ b >= 2 /\ b + m <= Top /\ m \in Nat /\ m >= 1 /\ n <= m
        /\ R = b .. b + m - 1
    BY <2>2, <2>3, PageRuns, HeapNumbers DEF PageRun
  <2>5. HeapUnits(slobs \cup {p}) = F \cup R /\ R \cap F = {}
    BY <1>1, <1>3, <2>2, <2>3, PageAdds
  <2>6. PICK h1 : h1 = SlobFree(heap, b, m)
    OBVIOUS
  <2>7. PICK E : E = F \cup R
    OBVIOUS
  <2>8. Keeps(heap, h1, Q, E)
    <3>1. \A x \in b .. b + m - 1 : x \notin F
      BY <2>4, <2>5
    <3>2. Keeps(heap, SlobFree(heap, b, m), Q, F \cup (b .. b + m - 1))
      BY <1>2, <2>4, <3>1, Returned
    <3>3. QED
      BY <2>4, <2>6, <2>7, <3>2
  <2>9. PICK H1 : Heaped(h1, H1, Q, E) /\ \A q \in Q : h1.units[q] = heap.units[q]
    BY <2>8 DEF Keeps
  <2>10. PICK e \in H1 : h1.units[e] >= m
    <3>1. Grows(F, b, m, R, E)
      BY <2>4, <2>5, <2>7 DEF Grows
    <3>2. QED
      BY <1>2, <2>9, <3>1, RunInRing
  <2>11. Found(h1, n) # {}
    <3>1. Circled(h1.next, H1) /\ h1.slobfree \in H1 /\ Cut(h1.units, H1 \cup Q, E)
      BY <2>9 DEF Heaped
    <3>2. IsRing(Ring(h1), h1.slobfree, h1.next, H1)
      BY <3>1, RingWalks
    <3>3. PICK i \in DOMAIN Ring(h1) : Ring(h1)[i] = e
      BY <3>2 DEF IsRing
    <3>4. h1.units[e] \in Nat
      BY <3>1, CutTypes
    <3>5. h1.units[e] >= n
      BY <2>4, <2>10, <3>4
    <3>6. QED
      BY <3>3, <3>5 DEF Found
  <2>12. PICK t : t = SlobTake(h1, n)
    OBVIOUS
  <2>13. Served(h1, t, n, Q, E)
    BY <2>9, <2>11, <2>12, Taken
  <2>14. Served(heap, t, n, Q, E)
    BY <2>9, <2>13 DEF Served
  <2>15. a.t = t /\ a.slobs = slobs \cup {p}
    BY <2>1, <2>3, <2>6, <2>12
  <2>16. QED
    BY <1>1, <1>3, <2>2, <2>5, <2>7, <2>14, <2>15
<1>6. QED
  BY <1>4, <1>5

\* A small block is taken.
LEMMA SmallTaken ==
    ASSUME HeapInv, NEW size \in Size, KmallocSmall(size)
    PROVE  HeapInv'
<1>1. PICK n : n = SLOB_UNITS(size + SLOB_UNIT)
  OBVIOUS
<1>2. n \in Nat /\ n >= 2 /\ n <= PageUnits
  BY <1>1, SizeFits DEF KmallocSmall
<1>3. PICK a \in SlobAllocs(n) :
            heap' = a.t.h /\ slobs' = a.slobs /\ objects' = objects \cup {a.t.at}
  BY <1>1 DEF KmallocSmall
<1>4. bigblocks' = bigblocks
  BY DEF KmallocSmall
<1>5. slobs' \subseteq HeapPage /\ Served(heap, a.t, n, InUse, HeapUnits(slobs'))
  BY <1>2, <1>3, AllocServes
<1>6. PICK A : A = AtsOf(bigblocks)
  OBVIOUS
<1>7. InUse = objects \cup A /\ InUse' = InUse \cup {a.t.at} /\ AtsOf(bigblocks)' = A
  BY <1>3, <1>4, <1>6 DEF InUse
<1>8. \E H : Heaped(heap', H, InUse', HeapUnits(slobs'))
  BY <1>3, <1>5, <1>7 DEF Served
<1>9. objects' \cap A = {}
  BY <1>3, <1>5, <1>6, <1>7 DEF HeapInv, Served
<1>10. \A x \in A : heap'.units[x] = BigUnits
  BY <1>3, <1>5, <1>6, <1>7 DEF HeapInv, Served
<1>11. BigList(bigblocks')
  BY <1>4 DEF HeapInv
<1>12. QED
  BY <1>5, <1>7, <1>8, <1>9, <1>10, <1>11 DEF HeapInv

\* A big block is taken, or its bigblock_t goes back.
LEMMA BigTaken ==
    ASSUME HeapInv, NEW size \in Size, KmallocBig(size)
    PROVE  HeapInv'
<1>1. BigUnits \in Nat /\ BigUnits >= 2 /\ BigUnits <= PageUnits
  BY HeapNumbers DEF BigUnits
<1>2. objects' = objects
  BY DEF KmallocBig
<1>3. PICK a \in SlobAllocs(BigUnits) :
        /\ slobs' = a.slobs
        /\ \/ /\ \E p \in HeapPage : bigblocks' =
                    <<[page |-> p, order |-> FindOrder(size), at |-> a.t.at]>> \o bigblocks
              /\ heap' = a.t.h
           \/ /\ heap' = SlobFree(a.t.h, a.t.at, BigUnits)
              /\ bigblocks' = bigblocks
  BY DEF KmallocBig
<1>4. slobs' \subseteq HeapPage /\ Served(heap, a.t, BigUnits, InUse, HeapUnits(slobs'))
  BY <1>1, <1>3, AllocServes
<1>5. PICK A, Q, F, t : A = AtsOf(bigblocks) /\ Q = InUse /\ F = HeapUnits(slobs') /\ t = a.t
  OBVIOUS
<1>6. /\ objects \cap A = {} /\ BigList(bigblocks) /\ \A x \in A : heap.units[x] = BigUnits
      /\ Q = objects \cup A
  BY <1>5 DEF HeapInv, InUse
<1>7. /\ t.at \notin Q /\ t.h.units[t.at] = BigUnits
      /\ \A q \in Q : t.h.units[q] = heap.units[q]
  BY <1>4, <1>5 DEF Served
<1>8. PICK H : Heaped(t.h, H, Q \cup {t.at}, F)
  BY <1>4, <1>5 DEF Served
<1>9. CASE /\ \E p \in HeapPage : bigblocks' =
                 <<[page |-> p, order |-> FindOrder(size), at |-> t.at]>> \o bigblocks
           /\ heap' = t.h
  <2>1. PICK x : bigblocks' = <<x>> \o bigblocks /\ x.at = t.at /\ x.page \in HeapPage
    <3>1. PICK p \in HeapPage : bigblocks' =
                <<[page |-> p, order |-> FindOrder(size), at |-> t.at]>> \o bigblocks
      BY <1>9
    <3>2. PICK x : x = [page |-> p, order |-> FindOrder(size), at |-> t.at]
      OBVIOUS
    <3>3. x.page = p /\ x.at = t.at
      BY <3>2
    <3>4. QED
      BY <3>1, <3>2, <3>3
  <2>2. BigList(bigblocks') /\ AtsOf(bigblocks') = A \cup {t.at}
    BY <1>5, <1>6, <1>7, <2>1, BigAdded
  <2>3. InUse' = Q \cup {t.at} /\ AtsOf(bigblocks)' = A \cup {t.at}
    BY <1>2, <1>6, <2>2 DEF InUse
  <2>4. objects' \cap (A \cup {t.at}) = {}
    BY <1>2, <1>6, <1>7
  <2>5. \A y \in A \cup {t.at} : heap'.units[y] = BigUnits
    BY <1>6, <1>7, <1>9
  <2>6. \E H2 : Heaped(heap', H2, InUse', HeapUnits(slobs'))
    BY <1>5, <1>8, <1>9, <2>3
  <2>7. QED
    BY <1>4, <2>2, <2>3, <2>4, <2>5, <2>6 DEF HeapInv
<1>10. CASE heap' = SlobFree(t.h, t.at, BigUnits) /\ bigblocks' = bigblocks
  <2>1. 1 \notin F
    <3>1. \A p \in HeapPage : 1 \notin PageRun(p)
      BY PageRuns, HeapNumbers DEF PageRun
    <3>2. QED
      BY <1>4, <1>5, <3>1 DEF HeapUnits
  <2>2. Keeps(t.h, SlobFree(t.h, t.at, BigUnits), (Q \cup {t.at}) \ {t.at}, F)
    BY <1>7, <1>8, <2>1, GivenBack
  <2>3. Keeps(t.h, heap', Q, F)
    <3>1. (Q \cup {t.at}) \ {t.at} = Q
      BY <1>7
    <3>2. QED
      BY <1>10, <2>2, <3>1
  <2>4. PICK H2 : Heaped(heap', H2, Q, F) /\ \A q \in Q : heap'.units[q] = t.h.units[q]
    BY <2>3 DEF Keeps
  <2>5. InUse' = Q /\ AtsOf(bigblocks)' = A
    BY <1>2, <1>5, <1>6, <1>10 DEF InUse
  <2>6. \A x \in A : heap'.units[x] = BigUnits
    BY <1>6, <1>7, <2>4
  <2>7. QED
    BY <1>2, <1>4, <1>5, <1>6, <1>10, <2>4, <2>5, <2>6 DEF HeapInv
<1>11. QED
  BY <1>3, <1>5, <1>9, <1>10

\* A piece that is in use goes back.
LEMMA PieceBack ==
    ASSUME HeapInv, NEW b \in InUse, heap' = SlobFree(heap, b, heap.units[b]),
           slobs' = slobs, InUse' = InUse \ {b}
    PROVE  /\ \E H : Heaped(heap', H, InUse', HeapUnits(slobs'))
           /\ \A q \in InUse' : heap'.units[q] = heap.units[q]
<1>1. PICK H : Heaped(heap, H, InUse, HeapUnits(slobs))
  BY DEF HeapInv
<1>2. 1 \notin HeapUnits(slobs)
  <2>1. \A p \in HeapPage : 1 \notin PageRun(p)
    BY PageRuns, HeapNumbers DEF PageRun
  <2>2. QED
    BY <2>1 DEF HeapInv, HeapUnits
<1>3. Keeps(heap, heap', InUse \ {b}, HeapUnits(slobs))
  BY <1>1, <1>2, GivenBack
<1>4. QED
  BY <1>3 DEF Keeps

\* A small block goes back.
LEMMA SmallGivenBack ==
    ASSUME HeapInv, NEW u \in Pointers, KfreeSmall(u)
    PROVE  HeapInv'
<1>1. PICK b \in objects : u = b + 1
  <2>1. CASE \E b \in objects : u = b + 1
    BY <2>1
  <2>2. CASE \E x \in Range(bigblocks) : u = PageAt(x.page)
    <3>1. PICK i \in DOMAIN bigblocks : u = PageAt(bigblocks[i].page)
      BY <2>2 DEF Range
    <3>2. bigblocks[i].page \in HeapPage
      BY DEF HeapInv, BigList
    <3>3. ~IsBig(u, i)
      BY DEF KfreeSmall
    <3>4. QED
      BY <3>1, <3>2, <3>3 DEF IsBig
  <2>3. QED
    BY <2>1, <2>2 DEF Pointers
<1>2. b \in InUse /\ b \in Nat
  <2>1. b \in InUse
    BY DEF InUse
  <2>2. PICK H : Cut(heap.units, H \cup InUse, HeapUnits(slobs))
    BY DEF HeapInv, Heaped
  <2>3. QED
    BY <2>1, <2>2, CutTypes
<1>3. /\ heap' = SlobFree(heap, b, heap.units[b])
      /\ objects' = objects \ {b} /\ slobs' = slobs /\ bigblocks' = bigblocks
  <2>1. u - 1 = b
    BY <1>1, <1>2
  <2>2. QED
    BY <2>1 DEF KfreeSmall
<1>4. PICK A : A = AtsOf(bigblocks)
  OBVIOUS
<1>5. /\ slobs \subseteq HeapPage /\ BigList(bigblocks) /\ objects \cap A = {}
      /\ \A x \in A : heap.units[x] = BigUnits
  BY <1>4 DEF HeapInv
<1>6. InUse' = InUse \ {b} /\ AtsOf(bigblocks)' = A /\ A \subseteq InUse'
  BY <1>3, <1>4, <1>5 DEF InUse
<1>7. /\ \E H : Heaped(heap', H, InUse', HeapUnits(slobs'))
      /\ \A q \in InUse' : heap'.units[q] = heap.units[q]
  BY <1>2, <1>3, <1>6, PieceBack
<1>8. QED
  BY <1>3, <1>5, <1>6, <1>7 DEF HeapInv

\* A big block goes back, and its bigblock_t to the ring.
LEMMA BigGivenBack ==
    ASSUME HeapInv, NEW u, KfreeBig(u)
    PROVE  HeapInv'
<1>1. PICK i \in DOMAIN bigblocks :
            /\ heap' = SlobFree(heap, bigblocks[i].at, BigUnits)
            /\ bigblocks' = RemoveAt(bigblocks, i)
  BY DEF KfreeBig
<1>2. slobs' = slobs /\ objects' = objects
  BY DEF KfreeBig
<1>3. PICK A, b : A = AtsOf(bigblocks) /\ b = bigblocks[i].at
  OBVIOUS
<1>4. b \in A
  BY <1>3 DEF AtsOf, Range
<1>5. /\ slobs \subseteq HeapPage /\ BigList(bigblocks) /\ objects \cap A = {}
      /\ \A x \in A : heap.units[x] = BigUnits
  BY <1>3 DEF HeapInv
<1>6. BigList(bigblocks') /\ AtsOf(bigblocks') = A \ {b}
  BY <1>1, <1>3, <1>5, BigRemoved
<1>7. InUse' = InUse \ {b} /\ AtsOf(bigblocks)' = A \ {b} /\ b \in InUse /\ A \ {b} \subseteq InUse'
  BY <1>2, <1>3, <1>4, <1>5, <1>6 DEF InUse
<1>8. heap' = SlobFree(heap, b, heap.units[b])
  BY <1>1, <1>3, <1>4, <1>5
<1>9. /\ \E H : Heaped(heap', H, InUse', HeapUnits(slobs'))
      /\ \A q \in InUse' : heap'.units[q] = heap.units[q]
  BY <1>2, <1>7, <1>8, PieceBack
<1>10. QED
  BY <1>2, <1>5, <1>6, <1>7, <1>9 DEF HeapInv

-----------------------------------------------------------------------------
(* The theorem about the heap.                                             *)

\* The heap starts with the arena.
LEMMA HeapStarts == SlobInit => HeapInv
<1> SUFFICES ASSUME SlobInit PROVE HeapInv
  OBVIOUS
<1>1. /\ slobs = {} /\ objects = {} /\ bigblocks = <<>>
      /\ heap = [next |-> [x \in Unit |-> 0], units |-> [x \in Unit |-> IF x = 0 THEN 1 ELSE 0],
                 slobfree |-> 0]
  BY DEF SlobInit
<1>2. Top \in Nat /\ Top >= 2 /\ Unit = 0..Top-1 /\ 0 \in Unit
  BY HeapNumbers
<1>3. PICK w, u : w = [x \in Unit |-> 0] /\ u = [x \in Unit |-> IF x = 0 THEN 1 ELSE 0]
  OBVIOUS
<1>4. /\ w \in [Unit -> Unit] /\ u \in [Unit -> Nat] /\ w[0] = 0 /\ u[0] = 1
  BY <1>2, <1>3
<1>5. heap = [next |-> w, units |-> u, slobfree |-> 0]
  BY <1>1, <1>3
<1>6. heap \in HeapType
  BY <1>2, <1>4, <1>5, HeapOf
<1>7. Circled(w, {0})
  <2>1. Follows({0}, 0, w[0])
    BY <1>4 DEF Follows
  <2>2. QED
    BY <1>2, <1>4, <2>1 DEF Circled
<1>8. Cut(u, {0}, {0})
  <2>1. \A x \in Unit : x \in {0} <=> \E e \in {0} : Within(u, e, x)
    BY <1>2, <1>4 DEF Within
  <2>2. 0 + u[0] <= Top
    BY <1>2, <1>4
  <2>3. QED
    BY <1>2, <1>4, <2>1, <2>2 DEF Cut
<1>9. HeapUnits({}) = {0} /\ InUse = {} /\ AtsOf(bigblocks) = {}
  BY <1>1 DEF HeapUnits, InUse, AtsOf, Range
<1>10. Heaped(heap, {0}, {}, {0})
  <2>1. heap.next = w /\ heap.units = u /\ heap.slobfree = 0
    BY <1>5
  <2>2. {0} \cup {} = {0} /\ 0 + u[0] # w[0]
    BY <1>4
  <2>3. QED
    BY <1>4, <1>6, <1>7, <1>8, <2>1, <2>2 DEF Heaped
<1>11. BigList(bigblocks)
  <2>1. <<>> \in Seq({}) /\ DOMAIN << >> = {}
    OBVIOUS
  <2>2. QED
    BY <1>1, <2>1 DEF BigList
<1>12. QED
  BY <1>1, <1>9, <1>10, <1>11 DEF HeapInv

\* Every call keeps the invariant of the heap.
LEMMA HeapSteps == HeapInv /\ [HeapNext]_heapvars => HeapInv'
<1> SUFFICES ASSUME HeapInv, [HeapNext]_heapvars PROVE HeapInv'
  OBVIOUS
<1>1. ASSUME NEW size \in Size, KmallocSmall(size) PROVE HeapInv'
  BY <1>1, SmallTaken
<1>2. ASSUME NEW size \in Size, KmallocPanics(size) PROVE HeapInv'
  BY <1>2 DEF KmallocPanics, HeapInv, InUse
<1>3. ASSUME NEW size \in Size, KmallocBig(size) PROVE HeapInv'
  BY <1>3, BigTaken
<1>4. ASSUME NEW u \in Pointers, KfreeBig(u) PROVE HeapInv'
  BY <1>4, BigGivenBack
<1>5. ASSUME NEW u \in Pointers, KfreeSmall(u) PROVE HeapInv'
  BY <1>5, SmallGivenBack
<1>6. CASE UNCHANGED heapvars
  BY <1>6 DEF heapvars, HeapInv, InUse
<1>7. QED
  BY <1>1, <1>2, <1>3, <1>4, <1>5, <1>6 DEF HeapNext

\* A set listed without repetition has as many elements as there are places.
LEMMA ListedOnce ==
    ASSUME NEW S, NEW T, IsFiniteSet(S), NEW f \in [S -> T],
           \A x, y \in S : f[x] = f[y] => x = y, \A z \in T : \E x \in S : f[x] = z
    PROVE  IsFiniteSet(T) /\ Cardinality(T) = Cardinality(S)
<1>1. f \in Bijection(S, T)
  <2>1. f \in Injection(S, T)
    BY DEF Injection, IsInjective
  <2>2. f \in Surjection(S, T)
    BY DEF Surjection
  <2>3. QED
    BY <2>1, <2>2 DEF Bijection
<1>2. ExistsBijection(S, T)
  BY <1>1 DEF ExistsBijection
<1>3. QED
  BY <1>2, FS_Bijection

\* The ring begins anew once.
LEMMA BeginsOnce ==
    ASSUME NEW nxt, NEW H, Circled(nxt, H), NEW ring, NEW s, IsRing(ring, s, nxt, H)
    PROVE  Cardinality({i \in DOMAIN ring : nxt[ring[i]] <= ring[i]}) = 1
<1>1. /\ Len(ring) \in Nat \ {0} /\ DOMAIN ring = 1..Len(ring)
      /\ \A i \in 1..Len(ring) : ring[i] \in H
      /\ ring[1] = s /\ nxt[ring[Len(ring)]] = s
      /\ \A i \in 1..Len(ring)-1 : nxt[ring[i]] = ring[i+1]
      /\ \A x \in H : \E i \in 1..Len(ring) : ring[i] = x
      /\ \A i, j \in 1..Len(ring) : ring[i] = ring[j] => i = j
  BY DEF IsRing
<1>2. PICK n \in Nat \ {0} : n = Len(ring)
  <2>1. Len(ring) \in Nat \ {0}
    BY <1>1
  <2>2. QED
    BY <2>1, Zenon
<1>3. /\ H \subseteq Nat /\ 0 \in H
      /\ \A e \in H : nxt[e] \in H /\ Follows(H, e, nxt[e])
      /\ \A e, g \in H : nxt[e] = nxt[g] => e = g
  BY CircledNext DEF Circled
<1>4. ASSUME NEW e \in H PROVE nxt[e] <= e <=> nxt[e] = 0
  <2>1. e \in Nat /\ nxt[e] \in Nat /\ Follows(H, e, nxt[e])
    BY <1>3
  <2>2. nxt[e] # 0 => e < nxt[e]
    BY <2>1 DEF Follows
  <2>3. QED
    BY <2>1, <2>2
<1>5. PICK i \in 1..n : nxt[ring[i]] = 0
  <2>1. PICK j \in 1..n : ring[j] = 0
    BY <1>1, <1>2, <1>3
  <2>2. CASE j = 1
    BY <1>1, <1>2, <2>1, <2>2
  <2>3. CASE j # 1
    <3>1. j - 1 \in 1..n-1 /\ j - 1 \in 1..n /\ (j - 1) + 1 = j
      BY <2>3
    <3>2. nxt[ring[j - 1]] = ring[(j - 1) + 1]
      BY <1>1, <1>2, <3>1
    <3>3. QED
      BY <2>1, <3>1, <3>2
  <2>4. QED
    BY <2>2, <2>3
<1>6. PICK S : S = {j \in DOMAIN ring : nxt[ring[j]] <= ring[j]}
  OBVIOUS
<1>7. S = {i}
  <2>1. \A j \in 1..n : ring[j] \in H
    BY <1>1, <1>2
  <2>2. \A j \in 1..n : j \in S <=> nxt[ring[j]] = 0
    BY <1>1, <1>2, <1>4, <1>6, <2>1
  <2>3. \A j \in 1..n : nxt[ring[j]] = 0 => j = i
    <3>1. ASSUME NEW j \in 1..n, nxt[ring[j]] = 0 PROVE j = i
      <4>1. ring[j] = ring[i]
        BY <1>3, <1>5, <2>1, <3>1
      <4>2. QED
        BY <1>1, <1>2, <4>1
    <3>2. QED
      BY <3>1
  <2>4. S \subseteq 1..n
    BY <1>1, <1>2, <1>6
  <2>5. QED
    BY <1>5, <2>2, <2>3, <2>4
<1>8. Cardinality(S) = 1
  BY <1>7, FS_Singleton
<1>9. QED
  BY <1>6, <1>8

\* The inductive invariant implies what the runs check.
LEMMA HeapIsSound == HeapInv => HeapExact
<1> SUFFICES ASSUME HeapInv PROVE HeapExact
  OBVIOUS
<1>1. PICK Q, F, A : Q = InUse /\ F = HeapUnits(slobs) /\ A = AtsOf(bigblocks)
  OBVIOUS
<1>2. PICK H : Heaped(heap, H, Q, F)
  BY <1>1 DEF HeapInv
<1>3. PICK nxt, u, P : nxt = heap.next /\ u = heap.units /\ P = H \cup Q
  OBVIOUS
<1>4. /\ Circled(nxt, H) /\ heap.slobfree \in H /\ Cut(u, P, F) /\ H \cap Q = {}
      /\ \A e \in H : e + u[e] # nxt[e]
  BY <1>2, <1>3 DEF Heaped
<1>5. /\ Q = objects \cup A /\ objects \cap A = {} /\ BigList(bigblocks)
      /\ \A a \in A : u[a] = BigUnits
  BY <1>1, <1>3 DEF HeapInv, InUse
<1>6. PICK ring : ring = Ring(heap)
  OBVIOUS
<1>7. IsRing(ring, heap.slobfree, nxt, H)
  BY <1>3, <1>4, <1>6, RingWalks
<1>8. /\ DOMAIN ring = 1..Len(ring)
      /\ \A i \in 1..Len(ring) : ring[i] \in H
      /\ \A x \in H : \E i \in 1..Len(ring) : ring[i] = x
  BY <1>7 DEF IsRing
<1>9. Range(ring) = H
  BY <1>8 DEF Range
<1>10. /\ \A x \in Unit : x \in Nat
       /\ \A e \in P : e \in Unit /\ e \in Nat /\ u[e] \in Nat /\ u[e] >= 1
       /\ \A e \in P, x \in Nat : Within(u, e, x) => x \in F
       /\ \A e, g \in P, x \in Nat : Within(u, e, x) /\ Within(u, g, x) => e = g
       /\ P \subseteq Unit /\ F \subseteq Unit
  BY <1>4, CutTypes DEF Cut
<1>11. \A e \in P : Piece(e) = {x \in Nat : Within(u, e, x)}
  <2>1. ASSUME NEW e \in P PROVE Piece(e) = {x \in Nat : Within(u, e, x)}
    <3>1. e \in Nat /\ u[e] \in Nat
      BY <1>10
    <3>2. Piece(e) = e .. e + u[e] - 1
      BY <1>3 DEF Piece
    <3>3. QED
      BY <3>1, <3>2 DEF Within
  <2>2. QED
    BY <2>1
<1>12. PICK parts : parts = {Piece(b) : b \in Range(ring) \cup objects}
                               \cup {b .. b + BigUnits - 1 : b \in A}
  OBVIOUS
<1>13. parts = {Piece(e) : e \in P}
  <2>1. \A b \in A : b .. b + BigUnits - 1 = Piece(b)
    BY <1>3, <1>5 DEF Piece
  <2>2. {b .. b + BigUnits - 1 : b \in A} = {Piece(b) : b \in A}
    BY <2>1
  <2>3. P = (H \cup objects) \cup A
    BY <1>3, <1>5
  <2>4. QED
    BY <1>9, <1>12, <2>2, <2>3
<1>14. UNION parts = F
  <2>1. ASSUME NEW x \in F PROVE \E e \in P : x \in Piece(e)
    <3>1. x \in Unit /\ x \in Nat
      BY <1>10
    <3>2. PICK e \in P : Within(u, e, x)
      BY <1>4, <3>1 DEF Cut
    <3>3. QED
      BY <1>11, <3>1, <3>2
  <2>2. \A e \in P : Piece(e) \subseteq F
    BY <1>10, <1>11
  <2>3. QED
    BY <1>13, <2>1, <2>2
<1>15. ASSUME NEW s \in parts, NEW t \in parts PROVE s = t \/ s \cap t = {}
  <2>1. PICK e \in P : s = Piece(e)
    BY <1>13
  <2>2. PICK g \in P : t = Piece(g)
    BY <1>13
  <2>3. QED
    BY <1>10, <1>11, <2>1, <2>2
<1>16. IsFiniteSet(P)
  <2>1. IsFiniteSet(Unit)
    BY HeapNumbers, FS_Interval
  <2>2. QED
    BY <1>10, <2>1, FS_Subset
<1>17. Cardinality(parts) = Cardinality(P)
  <2>1. PICK f : f = [e \in P |-> Piece(e)]
    OBVIOUS
  <2>2. f \in [P -> parts] /\ \A z \in parts : \E x \in P : f[x] = z
    BY <1>13, <2>1
  <2>3. ASSUME NEW x \in P, NEW y \in P, f[x] = f[y] PROVE x = y
    <3>1. x \in Piece(x)
      BY <1>10, <1>11 DEF Within
    <3>2. x \in Piece(y)
      BY <2>1, <2>3, <3>1
    <3>3. QED
      BY <1>10, <1>11, <3>1, <3>2
  <2>4. QED
    BY <1>16, <2>2, <2>3, ListedOnce
<1>18. Cardinality(A) = Len(bigblocks) /\ Len(bigblocks) \in Nat
  <2>1. PICK T : bigblocks \in Seq(T)
    BY <1>5 DEF BigList
  <2>2. Len(bigblocks) \in Nat /\ DOMAIN bigblocks = 1..Len(bigblocks)
    BY <2>1
  <2>3. PICK n \in Nat : n = Len(bigblocks)
    BY <2>2, Zenon
  <2>4. PICK f : f = [i \in 1..n |-> bigblocks[i].at]
    OBVIOUS
  <2>5. f \in [1..n -> A] /\ \A z \in A : \E i \in 1..n : f[i] = z
    BY <1>1, <2>2, <2>3, <2>4 DEF AtsOf, Range
  <2>6. \A i, j \in 1..n : f[i] = f[j] => i = j
    BY <1>5, <2>2, <2>3, <2>4 DEF BigList
  <2>7. IsFiniteSet(1..n) /\ Cardinality(1..n) = n
    BY FS_Interval
  <2>8. Cardinality(A) = Cardinality(1..n)
    BY <2>5, <2>6, <2>7, ListedOnce
  <2>9. QED
    BY <2>2, <2>3, <2>7, <2>8
<1>19. Cardinality(P) = Cardinality(H) + Cardinality(objects) + Cardinality(A)
  <2>1. H \subseteq P /\ objects \subseteq P /\ A \subseteq P /\ Q \subseteq P
    BY <1>3, <1>5
  <2>2. IsFiniteSet(H) /\ IsFiniteSet(objects) /\ IsFiniteSet(A) /\ IsFiniteSet(Q)
    BY <1>16, <2>1, FS_Subset
  <2>3. /\ Cardinality(H) \in Nat /\ Cardinality(objects) \in Nat /\ Cardinality(A) \in Nat
        /\ Cardinality({}) = 0
    BY <2>2, FS_CardinalityType, FS_EmptySet
  <2>4. Cardinality(Q) = Cardinality(objects) + Cardinality(A) - Cardinality(objects \cap A)
    BY <1>5, <2>2, FS_Union, Zenon
  <2>5. Cardinality(P) = Cardinality(H) + Cardinality(Q) - Cardinality(H \cap Q)
    BY <1>3, <2>2, FS_Union, Zenon
  <2>6. objects \cap A = {} /\ H \cap Q = {}
    BY <1>4, <1>5
  <2>7. Cardinality(objects \cap A) = 0 /\ Cardinality(H \cap Q) = 0
    BY <2>3, <2>6
  <2>8. Cardinality(Q) \in Nat
    BY <2>2, FS_CardinalityType
  <2>9. QED
    BY <2>3, <2>4, <2>5, <2>7, <2>8
<1>20. Cardinality(parts) = Cardinality(Range(ring)) + Cardinality(objects) + Len(bigblocks)
  BY <1>9, <1>17, <1>18, <1>19
<1>21. PICK follows : follows = [i \in DOMAIN ring |-> nxt[ring[i]]]
  OBVIOUS
<1>22. \A i \in DOMAIN ring : follows[i] = nxt[ring[i]]
  BY <1>21
<1>23. Cardinality({i \in DOMAIN ring : follows[i] <= ring[i]}) = 1
  <2>1. {i \in DOMAIN ring : follows[i] <= ring[i]} = {i \in DOMAIN ring : nxt[ring[i]] <= ring[i]}
    BY <1>22
  <2>2. Cardinality({i \in DOMAIN ring : nxt[ring[i]] <= ring[i]}) = 1
    BY <1>4, <1>7, BeginsOnce
  <2>3. QED
    BY <2>1, <2>2
<1>24. 0 \in Range(ring) /\ \A i \in DOMAIN ring : ring[i] + u[ring[i]] # follows[i]
  BY <1>4, <1>8, <1>9, <1>22 DEF Circled
<1>25. F = {0} \cup UNION {PageAt(p) .. PageAt(p) + PageUnits - 1 : p \in slobs}
  BY <1>1, Zenon DEF HeapUnits, PageRun
<1>26. A = {b.at : b \in Range(bigblocks)}
  BY <1>1, Zenon DEF AtsOf
<1>27. QED
  BY <1>3, <1>6, <1>12, <1>14, <1>15, <1>20, <1>21, <1>23, <1>24, <1>25, <1>26 DEF HeapExact

\* For any number of pages and any sizes the units of the heap's pages are divided between
\* the free blocks of the ring, which is in the order of the addresses and holds no two
\* that could be one, and the pieces that kmalloc has handed out.
THEOREM HeapIsExact == HeapSpec => []HeapExact
<1>1. HeapSpec => []HeapInv
  BY HeapStarts, HeapSteps, PTL DEF HeapSpec
<1>2. QED
  BY <1>1, HeapIsSound, PTL
=============================================================================

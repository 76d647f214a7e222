----------------------------- MODULE SeqLemmas ------------------------------
(* Facts about numbers, and about queues kept as sequences, for the proof  *)
(* modules.                                                                *)
EXTENDS Integers, SequencesExt, SequenceTheorems, WellFoundedInduction, TLAPS

\* Every set of naturals that is not empty has a least element.
LEMMA LeastNatural ==
    ASSUME NEW T, T \subseteq Nat, T # {}
    PROVE  \E x \in T : \A y \in T : x <= y
<1>1. PICK R : IsWellFoundedOn(R, Nat) /\ R = {p \in Nat \X Nat : p[1] < p[2]}
  BY NatLessThanWellFounded, Zenon DEF OpToRel
<1>2. PICK x \in T : \A y \in T : ~(<<y, x>> \in R)
  BY <1>1, WFMin
<1>3. \A y \in T : ~(y < x)
  BY <1>1, <1>2
<1>4. QED
  BY <1>3

\* Induction, for what can be said by membership in a set.
LEMMA Induction ==
    ASSUME NEW T, 0 \in T, \A n \in Nat : n \in T => n + 1 \in T
    PROVE  Nat \subseteq T
<1>1. SUFFICES ASSUME Nat \ T # {} PROVE FALSE
  OBVIOUS
<1>2. PICK x \in Nat \ T : \A y \in Nat \ T : x <= y
  BY <1>1, LeastNatural
<1>3. x # 0 /\ x - 1 \in Nat /\ ~(x <= x - 1)
  BY <1>2
<1>4. QED
  BY <1>2, <1>3

\* A sequence with x put in front has the elements of the sequence, and x.
LEMMA RangeCons ==
    ASSUME NEW S, NEW s \in Seq(S), NEW x \in S
    PROVE  /\ <<x>> \o s \in Seq(S)
           /\ Range(<<x>> \o s) = Range(s) \cup {x}
           /\ Len(<<x>> \o s) = Len(s) + 1
           /\ (<<x>> \o s)[1] = x
           /\ \A i \in 1..Len(s) : (<<x>> \o s)[i + 1] = s[i]
<1> DEFINE t == <<x>> \o s
<1>1. <<x>> \in Seq(S) /\ Len(<<x>>) = 1 /\ <<x>>[1] = x
  OBVIOUS
<1>2. /\ t \in Seq(S)
      /\ Len(t) = Len(s) + 1
      /\ t[1] = x
      /\ \A i \in 2..Len(t) : t[i] = s[i - 1]
  BY <1>1, ConcatProperties
<1>3. DOMAIN t = 1..(Len(s) + 1) /\ DOMAIN s = 1..Len(s) /\ Len(s) \in Nat
  BY <1>2
<1>4. \A i \in 1..Len(s) : t[i + 1] = s[i]
  BY <1>2, <1>3
<1>5. Range(t) \subseteq Range(s) \cup {x}
  <2>1. \A i \in DOMAIN t : i = 1 \/ i - 1 \in DOMAIN s
    BY <1>3
  <2>2. QED
    BY <2>1, <1>2, <1>3 DEF Range
<1>6. Range(s) \cup {x} \subseteq Range(t)
  <2>1. 1 \in DOMAIN t /\ \A i \in DOMAIN s : i + 1 \in DOMAIN t
    BY <1>3
  <2>2. QED
    BY <2>1, <1>2, <1>3, <1>4 DEF Range
<1>7. QED
  BY <1>2, <1>4, <1>5, <1>6

\* The sequence without its k-th element, and where its elements come from.
LEMMA RemoveAtElements ==
    ASSUME NEW S, NEW s \in Seq(S), NEW k \in 1..Len(s)
    PROVE  /\ RemoveAt(s, k) \in Seq(S)
           /\ Len(RemoveAt(s, k)) = Len(s) - 1
           /\ \A i \in 1..(Len(s) - 1) :
                 RemoveAt(s, k)[i] = IF i < k THEN s[i] ELSE s[i + 1]
<1> DEFINE a == SubSeq(s, 1, k - 1)
           b == SubSeq(s, k + 1, Len(s))
           t == a \o b
<1>1. Len(s) \in Nat
  OBVIOUS
<1>2. /\ a \in Seq(S) /\ Len(a) = k - 1
      /\ \A i \in 1..(k - 1) : a[i] = s[i]
  BY <1>1, SubSeqProperties
<1>3. /\ b \in Seq(S) /\ Len(b) = Len(s) - k
      /\ \A i \in 1..(Len(s) - k) : b[i] = s[k + i]
  BY <1>1, SubSeqProperties
<1> HIDE DEF a, b
<1>4. /\ t \in Seq(S) /\ Len(t) = Len(s) - 1
      /\ \A i \in 1..Len(t) : t[i] = IF i <= Len(a) THEN a[i] ELSE b[i - Len(a)]
  <2>1. /\ t \in Seq(S) /\ Len(t) = Len(a) + Len(b)
        /\ \A i \in 1..(Len(a) + Len(b)) :
              t[i] = IF i <= Len(a) THEN a[i] ELSE b[i - Len(a)]
    BY <1>2, <1>3, ConcatProperties, Zenon
  <2>2. QED
    BY <2>1, <1>1, <1>2, <1>3
<1>5. ASSUME NEW i \in 1..(Len(s) - 1)
      PROVE  t[i] = IF i < k THEN s[i] ELSE s[i + 1]
  <2>1. CASE i < k
    BY <2>1, <1>1, <1>2, <1>4
  <2>2. CASE ~(i < k)
    <3>1. i - (k - 1) \in 1..(Len(s) - k) /\ k + (i - (k - 1)) = i + 1
      BY <2>2, <1>1
    <3>2. t[i] = b[i - (k - 1)]
      BY <2>2, <1>1, <1>2, <1>4
    <3>3. QED
      BY <2>2, <3>1, <3>2, <1>3
  <2>3. QED
    BY <2>1, <2>2
<1>6. QED
  BY <1>4, <1>5 DEF a, b, RemoveAt

\* A queue without repetition loses exactly the element that is removed.
LEMMA RemoveAtRange ==
    ASSUME NEW S, NEW s \in Seq(S), NEW k \in 1..Len(s), IsInjective(s)
    PROVE  /\ IsInjective(RemoveAt(s, k))
           /\ Range(RemoveAt(s, k)) = Range(s) \ {s[k]}
<1> DEFINE t == RemoveAt(s, k)
<1>1. /\ t \in Seq(S) /\ Len(t) = Len(s) - 1
      /\ \A i \in 1..(Len(s) - 1) : t[i] = IF i < k THEN s[i] ELSE s[i + 1]
  BY RemoveAtElements
<1> HIDE DEF t
<1>2. DOMAIN t = 1..(Len(s) - 1) /\ DOMAIN s = 1..Len(s) /\ Len(s) \in Nat
  BY <1>1
<1>3. \A i, j \in 1..Len(s) : s[i] = s[j] => i = j
  BY <1>2 DEF IsInjective
<1>4. IsInjective(t)
  BY <1>1, <1>2, <1>3 DEF IsInjective
<1>5. ASSUME NEW j \in DOMAIN t PROVE t[j] \in Range(s) \ {s[k]}
  <2>1. CASE j < k
    <3>1. j \in 1..Len(s) /\ t[j] = s[j] /\ j # k
      BY <2>1, <1>1, <1>2
    <3>2. QED
      BY <3>1, <1>2, <1>3 DEF Range
  <2>2. CASE ~(j < k)
    <3>1. j + 1 \in 1..Len(s) /\ t[j] = s[j + 1] /\ j + 1 # k
      BY <2>2, <1>1, <1>2
    <3>2. QED
      BY <3>1, <1>2, <1>3 DEF Range
  <2>3. QED
    BY <2>1, <2>2
<1>6. ASSUME NEW i \in DOMAIN s, i # k PROVE s[i] \in Range(t)
  <2>1. CASE i < k
    <3>1. i \in DOMAIN t /\ t[i] = s[i]
      BY <2>1, <1>1, <1>2
    <3>2. QED
      BY <3>1 DEF Range
  <2>2. CASE i > k
    <3>1. i - 1 \in DOMAIN t /\ t[i - 1] = s[i]
      BY <2>2, <1>1, <1>2
    <3>2. QED
      BY <3>1 DEF Range
  <2>3. QED
    BY <1>6, <2>1, <2>2, <1>2
<1>7. Range(t) = Range(s) \ {s[k]}
  BY <1>5, <1>6 DEF Range
<1>8. QED
  BY <1>4, <1>7 DEF t

\* A newcomer at the end of a queue without repetition.
LEMMA AppendRange ==
    ASSUME NEW S, NEW s \in Seq(S), NEW x \in S
    PROVE  /\ Append(s, x) \in Seq(S)
           /\ Range(Append(s, x)) = Range(s) \cup {x}
           /\ IsInjective(s) /\ x \notin Range(s) => IsInjective(Append(s, x))
<1> DEFINE t == Append(s, x)
<1>1. /\ t \in Seq(S) /\ Len(t) = Len(s) + 1 /\ Len(s) \in Nat
      /\ \A i \in 1..Len(s) : t[i] = s[i]
      /\ t[Len(s) + 1] = x
  OBVIOUS
<1>2. DOMAIN t = 1..(Len(s) + 1) /\ DOMAIN s = 1..Len(s)
  BY <1>1
<1> HIDE DEF t
<1>3. Range(t) \subseteq Range(s) \cup {x}
  <2>1. \A i \in DOMAIN t : i \in DOMAIN s \/ i = Len(s) + 1
    BY <1>1, <1>2
  <2>2. QED
    BY <2>1, <1>1, <1>2 DEF Range
<1>4. Range(s) \cup {x} \subseteq Range(t)
  <2>1. Len(s) + 1 \in DOMAIN t /\ \A i \in DOMAIN s : i \in DOMAIN t
    BY <1>1, <1>2
  <2>2. QED
    BY <2>1, <1>1, <1>2 DEF Range
<1>5. ASSUME IsInjective(s), x \notin Range(s) PROVE IsInjective(t)
  <2>1. \A i \in 1..Len(s) : s[i] # x
    BY <1>5, <1>2 DEF Range
  <2>2. \A i, j \in 1..Len(s) : s[i] = s[j] => i = j
    BY <1>5, <1>2 DEF IsInjective
  <2>3. \A i, j \in 1..(Len(s) + 1) : t[i] = t[j] => i = j
    BY <2>1, <2>2, <1>1
  <2>4. QED
    BY <2>3, <1>2 DEF IsInjective
<1>6. QED
  BY <1>1, <1>3, <1>4, <1>5 DEF t

\* The queue behind its first element.
LEMMA TailRange ==
    ASSUME NEW S, NEW s \in Seq(S), s # <<>>, IsInjective(s)
    PROVE  /\ Tail(s) \in Seq(S) /\ IsInjective(Tail(s))
           /\ Head(s) \in Range(s)
           /\ Range(Tail(s)) = Range(s) \ {Head(s)}
<1> DEFINE t == Tail(s)
<1>1. /\ t \in Seq(S) /\ Len(t) = Len(s) - 1 /\ Len(s) \in Nat \ {0}
      /\ \A i \in 1..(Len(s) - 1) : t[i] = s[i + 1]
      /\ Head(s) = s[1]
  OBVIOUS
<1>2. DOMAIN t = 1..(Len(s) - 1) /\ DOMAIN s = 1..Len(s)
  BY <1>1
<1> HIDE DEF t
<1>3. \A i, j \in 1..Len(s) : s[i] = s[j] => i = j
  BY <1>2 DEF IsInjective
<1>4. IsInjective(t)
  BY <1>1, <1>2, <1>3 DEF IsInjective
<1>5. ASSUME NEW j \in DOMAIN t PROVE t[j] \in Range(s) \ {s[1]}
  <2>1. j + 1 \in 1..Len(s) /\ t[j] = s[j + 1] /\ j + 1 # 1 /\ 1 \in 1..Len(s)
    BY <1>1, <1>2
  <2>2. s[j + 1] # s[1]
    BY <2>1, <1>3
  <2>3. QED
    BY <2>1, <2>2, <1>2 DEF Range
<1>6. ASSUME NEW i \in DOMAIN s, i # 1 PROVE s[i] \in Range(t)
  <2>1. i - 1 \in DOMAIN t /\ t[i - 1] = s[i]
    BY <1>6, <1>1, <1>2
  <2>2. QED
    BY <2>1 DEF Range
<1>7. Range(t) = Range(s) \ {s[1]}
  BY <1>5, <1>6 DEF Range
<1>8. s[1] \in Range(s)
  <2>1. 1 \in DOMAIN s
    BY <1>1, <1>2
  <2>2. QED
    BY <2>1 DEF Range
<1>9. QED
  BY <1>1, <1>4, <1>7, <1>8 DEF t

\* Two queues in a row.
LEMMA ConcatRange ==
    ASSUME NEW S, NEW s \in Seq(S), NEW t \in Seq(S)
    PROVE  /\ s \o t \in Seq(S)
           /\ Range(s \o t) = Range(s) \cup Range(t)
           /\ IsInjective(s) /\ IsInjective(t) /\ Range(s) \cap Range(t) = {}
                 => IsInjective(s \o t)
<1> DEFINE u == s \o t
<1>1. /\ u \in Seq(S) /\ Len(u) = Len(s) + Len(t)
      /\ \A i \in 1..(Len(s) + Len(t)) :
            u[i] = IF i <= Len(s) THEN s[i] ELSE t[i - Len(s)]
  BY ConcatProperties, Zenon
<1>2. /\ DOMAIN u = 1..(Len(s) + Len(t)) /\ Len(s) \in Nat /\ Len(t) \in Nat
      /\ DOMAIN s = 1..Len(s) /\ DOMAIN t = 1..Len(t)
  BY <1>1
<1> HIDE DEF u
<1>3. \A i \in DOMAIN u : \/ i \in DOMAIN s /\ u[i] = s[i]
                         \/ /\ i - Len(s) \in DOMAIN t
                            /\ u[i] = t[i - Len(s)] /\ ~(i <= Len(s))
  BY <1>1, <1>2
<1>4. \A i \in DOMAIN s : i \in DOMAIN u /\ u[i] = s[i]
  BY <1>1, <1>2
<1>5. \A i \in DOMAIN t : i + Len(s) \in DOMAIN u /\ u[i + Len(s)] = t[i]
  BY <1>1, <1>2
<1>6. Range(u) = Range(s) \cup Range(t)
  BY <1>3, <1>4, <1>5 DEF Range
<1>7. ASSUME IsInjective(s), IsInjective(t), Range(s) \cap Range(t) = {}
      PROVE  IsInjective(u)
  <2>1. \A i, j \in DOMAIN s : s[i] = s[j] => i = j
    BY <1>7 DEF IsInjective
  <2>2. \A i, j \in DOMAIN t : t[i] = t[j] => i = j
    BY <1>7 DEF IsInjective
  <2>3. \A i \in DOMAIN s, j \in DOMAIN t : s[i] # t[j]
    BY <1>7 DEF Range
  <2>4. ASSUME NEW i \in DOMAIN u, NEW j \in DOMAIN u, u[i] = u[j] PROVE i = j
    <3>1. i - Len(s) = j - Len(s) => i = j
      BY <1>2
    <3>2. QED
      BY <3>1, <2>1, <2>2, <2>3, <2>4, <1>3
  <2>5. QED
    BY <2>4 DEF IsInjective
<1>8. QED
  BY <1>1, <1>6, <1>7 DEF u

\* The sequence u over S is s with x put in at place k.
IsInserted(u, S, s, k, x) ==
    /\ u \in Seq(S) /\ Len(u) = Len(s) + 1
    /\ \A i \in 1..(Len(s) + 1) :
          u[i] = IF i < k THEN s[i] ELSE IF i = k THEN x ELSE s[i - 1]

\* What InsertAt returns.
LEMMA InsertAtElements ==
    ASSUME NEW S, NEW s \in Seq(S), NEW k \in 1..(Len(s) + 1), NEW x \in S
    PROVE  IsInserted(InsertAt(s, k, x), S, s, k, x)
<1> DEFINE a == SubSeq(s, 1, k - 1)
           b == SubSeq(s, k, Len(s))
           c == a \o <<x>>
           t == c \o b
<1>1. Len(s) \in Nat
  OBVIOUS
<1>2. /\ a \in Seq(S) /\ Len(a) = k - 1
      /\ \A i \in 1..(k - 1) : a[i] = s[i]
  BY <1>1, SubSeqProperties
<1>3. /\ b \in Seq(S) /\ Len(b) = Len(s) - k + 1
      /\ \A i \in 1..(Len(s) - k + 1) : b[i] = s[k + i - 1]
  BY <1>1, SubSeqProperties
<1>4. <<x>> \in Seq(S) /\ Len(<<x>>) = 1 /\ <<x>>[1] = x
  OBVIOUS
<1> HIDE DEF a, b
<1>5. /\ c \in Seq(S) /\ Len(c) = k
      /\ \A i \in 1..(k - 1) : c[i] = s[i]
      /\ c[k] = x
  <2>1. /\ c \in Seq(S) /\ Len(c) = Len(a) + Len(<<x>>)
        /\ \A i \in 1..(Len(a) + Len(<<x>>)) :
              c[i] = IF i <= Len(a) THEN a[i] ELSE <<x>>[i - Len(a)]
    BY <1>2, <1>4, ConcatProperties, Zenon
  <2>2. QED
    BY <2>1, <1>1, <1>2, <1>4
<1> HIDE DEF c
<1>6. /\ t \in Seq(S) /\ Len(t) = Len(s) + 1
      /\ \A i \in 1..(Len(s) + 1) : t[i] = IF i <= k THEN c[i] ELSE b[i - k]
  <2>1. /\ t \in Seq(S) /\ Len(t) = Len(c) + Len(b)
        /\ \A i \in 1..(Len(c) + Len(b)) :
              t[i] = IF i <= Len(c) THEN c[i] ELSE b[i - Len(c)]
    BY <1>3, <1>5, ConcatProperties, Zenon
  <2>2. QED
    BY <2>1, <1>1, <1>3, <1>5
<1> HIDE DEF t
<1>7. ASSUME NEW i \in 1..(Len(s) + 1)
      PROVE  t[i] = IF i < k THEN s[i] ELSE IF i = k THEN x ELSE s[i - 1]
  <2>1. CASE i <= k
    BY <2>1, <1>5, <1>6
  <2>2. CASE i > k
    <3>1. i - k \in 1..(Len(s) - k + 1) /\ k + (i - k) - 1 = i - 1
      BY <2>2, <1>1
    <3>2. t[i] = b[i - k]
      BY <2>2, <1>1, <1>6
    <3>3. QED
      BY <2>2, <3>1, <3>2, <1>3
  <2>3. QED
    BY <2>1, <2>2, <1>1
<1>8. IsInserted(t, S, s, k, x)
  BY <1>6, <1>7 DEF IsInserted
<1>9. t = InsertAt(s, k, x)
  BY DEF InsertAt, t, c, a, b
<1>10. QED
  BY <1>8, <1>9

\* The remainder of a division.
LEMMA Remainder ==
    ASSUME NEW B \in Nat \ {0}, NEW a \in Nat
    PROVE  \E q \in Int : \E m \in 0..B-1 : m = a % B /\ a = B * q + m
<1>1. a % B = a - B * (a \div B)
  OBVIOUS
<1>2. a % B \in 0..B-1
  OBVIOUS
<1>3. a \div B \in Int
  OBVIOUS
<1>4. PICK q \in Int : q = a \div B
  BY <1>3
<1>5. B * q \in Int
  OBVIOUS
<1>6. PICK m \in 0..B-1 : m = a % B
  BY <1>2
<1>7. m = a - B * q => a = B * q + m
  BY <1>5
<1>8. a = B * q + m
  BY <1>1, <1>4, <1>6, <1>7
<1>9. QED
  BY <1>6, <1>8, Zenon

\* Positions less than B apart have slots of their own...
LEMMA SlotsApart ==
    ASSUME NEW B \in Nat \ {0}, NEW a \in Nat, NEW b \in Nat, a < b, b - a < B
    PROVE  a % B # b % B
<1>1. PICK q1 \in Int, m1 \in 0..B-1 : m1 = a % B /\ a = B * q1 + m1
  BY Remainder
<1>2. PICK q2 \in Int, m2 \in 0..B-1 : m2 = b % B /\ b = B * q2 + m2
  BY Remainder
<1>3. SUFFICES ASSUME m1 = m2 PROVE FALSE
  BY <1>1, <1>2
<1>4. PICK q \in Int : q = q2 - q1
  OBVIOUS
<1>5. b - a = B * q
  BY <1>1, <1>2, <1>3, <1>4
<1>6. CASE q <= 0
  BY <1>5, <1>6
<1>7. CASE q >= 1
  BY <1>5, <1>7
<1>8. QED
  BY <1>6, <1>7

\* ...and those B apart share one.
LEMMA SlotsTurn ==
    ASSUME NEW B \in Nat \ {0}, NEW a \in Nat
    PROVE  (a + B) % B = a % B
<1>1. PICK q1 \in Int, m1 \in 0..B-1 : m1 = a % B /\ a = B * q1 + m1
  BY Remainder
<1>2. PICK b \in Nat : b = a + B
  OBVIOUS
<1>3. PICK q2 \in Int, m2 \in 0..B-1 : m2 = b % B /\ b = B * q2 + m2
  BY Remainder
<1>4. PICK q \in Int : q = q2 - q1 - 1
  OBVIOUS
<1>5. m1 - m2 = B * q
  BY <1>1, <1>2, <1>3, <1>4
<1>6. CASE q <= -1
  BY <1>5, <1>6
<1>7. CASE q >= 1
  BY <1>5, <1>7
<1>8. CASE q = 0
  <2>1. B * q = 0
    BY <1>8
  <2>2. m1 = m2
    BY <1>5, <2>1
  <2>3. QED
    BY <1>1, <1>2, <1>3, <2>2
<1>9. QED
  BY <1>6, <1>7, <1>8

\* The sequence t is s with x for element k.
IsReplaced(t, s, k, x) ==
    /\ Len(t) = Len(s) /\ k \in 1..Len(s)
    /\ \A i \in 1..Len(s) : t[i] = IF i = k THEN x ELSE s[i]

\* One element of a sequence is replaced by a new one.
LEMMA ReplaceRange ==
    ASSUME NEW S, NEW s \in Seq(S), NEW t \in Seq(S), NEW k, NEW x,
           IsReplaced(t, s, k, x), IsInjective(s), x \notin Range(s)
    PROVE  /\ IsInjective(t)
           /\ Range(t) = (Range(s) \ {s[k]}) \cup {x}
<1>0. k \in 1..Len(s) /\ \A i \in 1..Len(s) : t[i] = IF i = k THEN x ELSE s[i]
  BY DEF IsReplaced
<1>1. DOMAIN s = 1..Len(s) /\ DOMAIN t = 1..Len(s)
  BY DEF IsReplaced
<1>2. \A i \in 1..Len(s) : s[i] # x
  BY <1>1 DEF Range
<1>3. \A i, j \in 1..Len(s) : s[i] = s[j] => i = j
  BY <1>1 DEF IsInjective
<1>4. IsInjective(t)
  BY <1>0, <1>1, <1>2, <1>3 DEF IsInjective
<1>5. Range(t) = (Range(s) \ {s[k]}) \cup {x}
  BY <1>0, <1>1, <1>2, <1>3 DEF Range
<1>6. QED
  BY <1>4, <1>5

\* A ring buffer b of B slots read as a stream: what was handed out, g, and behind it
\* what lies in b from the position r up to r + n.
Stream(B, g, b, r, n) == g \o [i \in 1..n |-> b[(r + i - 1) % B]]

\* The same, element by element.
IsStream(B, s, g, b, r, n) ==
    /\ s \in Seq(Nat) /\ Len(g) \in Nat /\ Len(s) = Len(g) + n
    /\ \A i \in 1..Len(g) : s[i] = g[i]
    /\ \A i \in 1..n : s[Len(g) + i] = b[(r + i - 1) % B]

\* A stream is a sequence with these elements.
LEMMA StreamElements ==
    ASSUME NEW B \in Nat \ {0}, NEW g \in Seq(Nat), NEW b \in [0..B-1 -> Nat],
           NEW r \in Nat, NEW n \in Nat
    PROVE  IsStream(B, Stream(B, g, b, r, n), g, b, r, n)
<1> DEFINE u == [i \in 1..n |-> b[(r + i - 1) % B]]
<1>1. ASSUME NEW i \in 1..n
      PROVE  b[(r + i - 1) % B] \in Nat
  <2>1. PICK p \in Nat : p = r + i - 1
    OBVIOUS
  <2>2. p % B \in 0..B-1
    BY Remainder
  <2>3. QED
    BY <2>1, <2>2
<1>2. u \in Seq(Nat) /\ Len(u) = n
  <2>1. u \in [1..n -> Nat]
    BY <1>1
  <2>2. QED
    BY <2>1
<1>3. \A i \in 1..n : u[i] = b[(r + i - 1) % B]
  OBVIOUS
<1> HIDE DEF u
<1>4. /\ g \o u \in Seq(Nat) /\ Len(g \o u) = Len(g) + Len(u)
      /\ \A i \in 1..(Len(g) + Len(u)) :
            (g \o u)[i] = IF i <= Len(g) THEN g[i] ELSE u[i - Len(g)]
  BY <1>2, ConcatProperties, Zenon
<1>5. PICK v : v = g \o u
  OBVIOUS
<1>6. /\ v \in Seq(Nat) /\ Len(v) = Len(g) + n /\ Len(g) \in Nat
      /\ \A i \in 1..(Len(g) + n) : v[i] = IF i <= Len(g) THEN g[i] ELSE u[i - Len(g)]
  <2>1. Len(g) \in Nat /\ Len(u) = n
    BY <1>2
  <2>2. QED
    BY <1>4, <1>5, <2>1, Zenon
<1>7. ASSUME NEW i \in 1..Len(g)
      PROVE  v[i] = g[i]
  <2>1. PICK l \in Nat : l = Len(g)
    BY <1>6
  <2>2. i <= l /\ i \in 1..(l + n)
    BY <2>1
  <2>3. QED
    BY <2>1, <2>2, <1>6, Zenon
<1>8. ASSUME NEW i \in 1..n
      PROVE  v[Len(g) + i] = b[(r + i - 1) % B]
  <2>a. PICK l \in Nat : l = Len(g)
    BY <1>6
  <2>b. l + i \in 1..(l + n) /\ ~(l + i <= l) /\ l + i - l = i
    BY <2>a
  <2>1. PICK j \in 1..(Len(g) + n) : j = Len(g) + i
    BY <2>a, <2>b
  <2>2. ~(j <= Len(g)) /\ j - Len(g) = i
    BY <2>a, <2>b, <2>1
  <2>3. v[j] = u[i]
    BY <1>6, <2>2
  <2>4. QED
    BY <1>3, <2>1, <2>3
<1>9. v = Stream(B, g, b, r, n)
  BY <1>5 DEF Stream, u
<1>10. QED
  BY <1>6, <1>7, <1>8, <1>9 DEF IsStream

\* With k of the n unread elements handed out, r1 and n1 being where and how many the
\* others are, the stream is what it was.
Moved(B, g, b, r, n, k, r1, n1) ==
    Stream(B, Stream(B, g, b, r, k), b, r1, n1) = Stream(B, g, b, r, n)

\* A read moves the boundary of the stream only.
LEMMA ReadMoves ==
    ASSUME NEW B \in Nat \ {0}, NEW g \in Seq(Nat), NEW b \in [0..B-1 -> Nat],
           NEW r \in Nat, NEW n \in Nat, NEW k \in 0..n,
           NEW r1 \in Nat, r1 = r + k, NEW n1 \in Nat, n1 = n - k
    PROVE  Moved(B, g, b, r, n, k, r1, n1)
<1>1. PICK l \in Nat : l = Len(g) /\ r1 = r + k /\ n1 = n - k
  OBVIOUS
<1>a. PICK s : s = Stream(B, g, b, r, n)
  OBVIOUS
<1>b. IsStream(B, s, g, b, r, n) /\ s \in Seq(Nat)
  <2>1. IsStream(B, s, g, b, r, n)
    BY <1>a, StreamElements
  <2>2. QED
    BY <2>1 DEF IsStream
<1>c. PICK g1 : g1 = Stream(B, g, b, r, k)
  OBVIOUS
<1>d. IsStream(B, g1, g, b, r, k) /\ g1 \in Seq(Nat)
  <2>0. k \in Nat
    OBVIOUS
  <2>1. IsStream(B, g1, g, b, r, k)
    BY <2>0, <1>c, StreamElements, Zenon
  <2>2. QED
    BY <2>1 DEF IsStream
<1>e. PICK t : t = Stream(B, g1, b, r1, n1)
  OBVIOUS
<1>2. IsStream(B, t, g1, b, r1, n1) /\ t \in Seq(Nat)
  <2>1. IsStream(B, t, g1, b, r1, n1)
    BY <1>d, <1>e, StreamElements
  <2>2. QED
    BY <2>1 DEF IsStream
<1>3. /\ Len(g1) = l + k
      /\ \A i \in 1..l : g1[i] = g[i]
      /\ \A i \in 1..k : g1[l + i] = b[(r + i - 1) % B]
  BY <1>1, <1>d DEF IsStream
<1>4. /\ Len(s) = l + n
      /\ \A i \in 1..l : s[i] = g[i]
      /\ \A i \in 1..n : s[l + i] = b[(r + i - 1) % B]
  BY <1>1, <1>b DEF IsStream
<1>5. /\ Len(t) = Len(g1) + n1
      /\ \A i \in 1..Len(g1) : t[i] = g1[i]
      /\ \A i \in 1..n1 : t[Len(g1) + i] = b[(r1 + i - 1) % B]
  BY <1>2 DEF IsStream
<1>6. Len(t) = Len(s)
  BY <1>1, <1>3, <1>4, <1>5
<1>7. ASSUME NEW j \in 1..(l + n)
      PROVE  t[j] = s[j]
  <2>1. CASE j <= l
    <3>1. j \in 1..l /\ j \in 1..Len(g1)
      BY <2>1, <1>3
    <3>2. QED
      BY <3>1, <1>3, <1>4, <1>5
  <2>2. CASE l < j /\ j <= l + k
    <3>1. PICK i \in 1..k : j = l + i
      BY <2>2
    <3>2. j \in 1..Len(g1) /\ i \in 1..n
      BY <2>2, <1>3
    <3>3. t[j] = g1[j]
      BY <3>2, <1>5
    <3>4. g1[j] = b[(r + i - 1) % B]
      BY <3>1, <1>3
    <3>5. s[j] = b[(r + i - 1) % B]
      BY <3>1, <3>2, <1>4
    <3>6. QED
      BY <3>3, <3>4, <3>5
  <2>3. CASE l + k < j
    <3>1. PICK i \in 1..n1 : j = l + k + i
      <4>1. j - l - k \in 1..n1 /\ j = l + k + (j - l - k)
        BY <2>3, <1>1
      <4>2. QED
        BY <4>1
    <3>2. PICK m \in 1..n : m = k + i
      BY <3>1, <1>1
    <3>3. t[j] = b[(r1 + i - 1) % B]
      BY <3>1, <1>3, <1>5
    <3>4. s[j] = b[(r + m - 1) % B]
      <4>1. j = l + m
        BY <3>1, <3>2
      <4>2. QED
        BY <4>1, <1>4
    <3>5. r1 + i - 1 = r + m - 1
      BY <3>2, <1>1
    <3>6. QED
      BY <3>3, <3>4, <3>5
  <2>4. QED
    BY <2>1, <2>2, <2>3
<1>8. t = s
  BY <1>2, <1>b, <1>4, <1>6, <1>7, SeqEqual
<1>9. QED
  BY <1>a, <1>c, <1>e, <1>8 DEF Moved

\* The buffer with x at position p.
Put(B, b, p, x) == [b EXCEPT ![p % B] = x]

\* The element x put at w is the last of the stream.
ComesLast(B, g, b, r, n, x, w, m) ==
    Stream(B, g, Put(B, b, w, x), r, m) = Append(Stream(B, g, b, r, n), x)

\* What is put into a buffer that is not full comes last.
LEMMA KeyIsLast ==
    ASSUME NEW B \in Nat \ {0}, NEW g \in Seq(Nat), NEW b \in [0..B-1 -> Nat],
           NEW r \in Nat, NEW n \in Nat, n < B, NEW x \in Nat,
           NEW w \in Nat, w = r + n, NEW m \in Nat, m = n + 1
    PROVE  ComesLast(B, g, b, r, n, x, w, m)
<1>0. PICK c : c = Put(B, b, w, x)
  OBVIOUS
<1>1. w = r + n
  OBVIOUS
<1>2. w % B \in 0..B-1
  BY Remainder
<1>3. /\ c \in [0..B-1 -> Nat] /\ c[w % B] = x
      /\ \A j \in 0..B-1 : j # w % B => c[j] = b[j]
  BY <1>0, <1>1, <1>2 DEF Put
<1>4. PICK l \in Nat, n1 \in Nat : l = Len(g) /\ n1 = n + 1 /\ n1 = m
  OBVIOUS
<1>a. PICK s : s = Stream(B, g, b, r, n)
  OBVIOUS
<1>b. IsStream(B, s, g, b, r, n) /\ s \in Seq(Nat)
  <2>1. IsStream(B, s, g, b, r, n)
    BY <1>a, StreamElements
  <2>2. QED
    BY <2>1 DEF IsStream
<1>c. PICK t : t = Stream(B, g, c, r, n1)
  OBVIOUS
<1>5. IsStream(B, t, g, c, r, n1) /\ t \in Seq(Nat)
  <2>1. IsStream(B, t, g, c, r, n1)
    BY <1>3, <1>c, StreamElements
  <2>2. QED
    BY <2>1 DEF IsStream
<1>6. /\ Len(s) = l + n
      /\ \A i \in 1..l : s[i] = g[i]
      /\ \A i \in 1..n : s[l + i] = b[(r + i - 1) % B]
  BY <1>4, <1>b DEF IsStream
<1>7. /\ Len(t) = l + n1
      /\ \A i \in 1..l : t[i] = g[i]
      /\ \A i \in 1..n1 : t[l + i] = c[(r + i - 1) % B]
  BY <1>4, <1>5 DEF IsStream
<1>8. ASSUME NEW i \in 1..n
      PROVE  c[(r + i - 1) % B] = b[(r + i - 1) % B]
  <2>1. PICK a \in Nat : a = r + i - 1
    OBVIOUS
  <2>2. a < w /\ w - a < B
    BY <1>1, <2>1
  <2>3. a % B # w % B
    BY <2>2, SlotsApart
  <2>4. a % B \in 0..B-1
    BY Remainder
  <2>5. QED
    BY <1>3, <2>1, <2>3, <2>4
<1>9. PICK u : u = Append(s, x)
  OBVIOUS
<1>10. /\ Len(u) = l + n1 /\ u[l + n1] = x /\ u \in Seq(Nat)
       /\ \A j \in 1..(l + n) : u[j] = s[j]
  <2>1. /\ u \in Seq(Nat) /\ Len(u) = Len(s) + 1
        /\ \A i \in 1..Len(s) : u[i] = s[i]
        /\ u[Len(s) + 1] = x
    BY <1>b, <1>9, AppendProperties
  <2>2. Len(s) + 1 = l + n1 /\ Len(s) = l + n
    BY <1>4, <1>6
  <2>3. QED
    BY <2>1, <2>2
<1>11. ASSUME NEW j \in 1..(l + n1)
       PROVE  t[j] = u[j]
  <2>1. CASE j <= l
    <3>1. j \in 1..l /\ j \in 1..(l + n)
      BY <2>1
    <3>2. QED
      BY <3>1, <1>6, <1>7, <1>10
  <2>2. CASE l < j /\ j <= l + n
    <3>1. PICK i \in 1..n : j = l + i
      BY <2>2
    <3>2. j \in 1..(l + n) /\ i \in 1..n1
      BY <2>2, <1>4
    <3>3. t[j] = c[(r + i - 1) % B]
      BY <3>1, <3>2, <1>7
    <3>4. u[j] = b[(r + i - 1) % B]
      BY <3>1, <3>2, <1>6, <1>10
    <3>5. QED
      BY <3>3, <3>4, <1>8
  <2>3. CASE j = l + n1
    <3>1. n1 \in 1..n1 /\ r + n1 - 1 = w
      BY <1>1, <1>4
    <3>2. t[l + n1] = c[(r + n1 - 1) % B]
      BY <3>1, <1>7
    <3>3. QED
      BY <2>3, <3>1, <3>2, <1>3, <1>10
  <2>4. QED
    <3>1. n1 = n + 1 /\ j \in Int /\ j <= l + n1
      BY <1>4
    <3>2. j <= l \/ (l < j /\ j <= l + n) \/ j = l + n1
      BY <3>1
    <3>3. QED
      BY <3>2, <2>1, <2>2, <2>3
<1>12. t = u
  BY <1>5, <1>7, <1>10, <1>11, SeqEqual
<1>13. QED
  BY <1>0, <1>4, <1>a, <1>c, <1>9, <1>12 DEF ComesLast

\* The stream t is s with x for its first unread element.
TakesOldest(B, s, t, g, b, w, x) ==
    /\ s \in Seq(Nat) /\ t \in Seq(Nat)
    /\ IsReplaced(t, s, Len(g) + 1, x) /\ s[Len(g) + 1] = b[w % B]

\* What is put into a full buffer takes the place of the oldest element in it.
LEMMA KeyTakesOldest ==
    ASSUME NEW B \in Nat \ {0}, NEW g \in Seq(Nat), NEW b \in [0..B-1 -> Nat],
           NEW r \in Nat, NEW n \in Nat, n = B, NEW x \in Nat,
           NEW w \in Nat, w = r + n
    PROVE  TakesOldest(B, Stream(B, g, b, r, n), Stream(B, g, Put(B, b, w, x), r, n),
                       g, b, w, x)
<1>s. PICK s, t : s = Stream(B, g, b, r, n) /\ t = Stream(B, g, Put(B, b, w, x), r, n)
  OBVIOUS
<1>0. PICK c : c = Put(B, b, w, x)
  OBVIOUS
<1>1. r % B = w % B /\ r % B \in 0..B-1
  BY SlotsTurn, Remainder
<1>2. PICK m \in 0..B-1 : m = r % B /\ c = [b EXCEPT ![m] = x]
  BY <1>0, <1>1 DEF Put
<1>3. /\ c \in [0..B-1 -> Nat] /\ c[m] = x
      /\ \A j \in 0..B-1 : j # m => c[j] = b[j]
  BY <1>2
<1>4. PICK l \in Nat : l = Len(g)
  OBVIOUS
<1>5. /\ s \in Seq(Nat) /\ Len(s) = l + n
      /\ \A i \in 1..l : s[i] = g[i]
      /\ \A i \in 1..n : s[l + i] = b[(r + i - 1) % B]
  <2>1. IsStream(B, s, g, b, r, n)
    BY <1>s, StreamElements
  <2>2. QED
    BY <1>4, <2>1 DEF IsStream
<1>6. /\ t \in Seq(Nat) /\ Len(t) = l + n
      /\ \A i \in 1..l : t[i] = g[i]
      /\ \A i \in 1..n : t[l + i] = c[(r + i - 1) % B]
  <2>1. IsStream(B, t, g, c, r, n)
    BY <1>s, <1>0, <1>3, StreamElements
  <2>2. QED
    BY <1>4, <2>1 DEF IsStream
<1>7. ASSUME NEW i \in 1..n, i # 1
      PROVE  c[(r + i - 1) % B] = b[(r + i - 1) % B]
  <2>1. PICK a \in Nat : a = r + i - 1
    OBVIOUS
  <2>2. r < a /\ a - r < B
    BY <1>7, <2>1
  <2>3. r % B # a % B
    BY <2>2, SlotsApart
  <2>4. a % B \in 0..B-1
    BY Remainder
  <2>5. QED
    BY <1>2, <1>3, <2>1, <2>3, <2>4
<1>8. 1 \in 1..n /\ r + 1 - 1 = r
  OBVIOUS
<1>9. s[l + 1] = b[m] /\ t[l + 1] = x
  <2>1. s[l + 1] = b[(r + 1 - 1) % B] /\ t[l + 1] = c[(r + 1 - 1) % B]
    BY <1>5, <1>6, <1>8
  <2>2. QED
    BY <2>1, <1>2, <1>3, <1>8
<1>10. ASSUME NEW j \in 1..(l + n)
       PROVE  t[j] = IF j = l + 1 THEN x ELSE s[j]
  <2>1. CASE j <= l
    <3>1. j \in 1..l /\ j # l + 1
      BY <2>1
    <3>2. t[j] = g[j] /\ s[j] = g[j]
      BY <3>1, <1>5, <1>6
    <3>3. QED
      BY <3>1, <3>2
  <2>2. CASE l < j
    <3>1. PICK i \in 1..n : j = l + i
      BY <2>2
    <3>2. CASE i = 1
      BY <3>1, <3>2, <1>9
    <3>3. CASE i # 1
      <4>1. t[j] = c[(r + i - 1) % B] /\ s[j] = b[(r + i - 1) % B]
        BY <3>1, <1>5, <1>6
      <4>2. t[j] = s[j]
        BY <4>1, <3>3, <1>7
      <4>3. j # l + 1
        BY <3>1, <3>3
      <4>4. QED
        BY <4>2, <4>3
    <3>4. QED
      BY <3>2, <3>3
  <2>3. QED
    BY <2>1, <2>2
<1>11. l + 1 \in 1..(l + n)
  OBVIOUS
<1>12. b[m] = b[w % B]
  BY <1>1, <1>2
<1>13. TakesOldest(B, s, t, g, b, w, x)
  BY <1>4, <1>5, <1>6, <1>9, <1>10, <1>11, <1>12 DEF IsReplaced, TakesOldest
<1>14. QED
  BY <1>s, <1>13, Zenon

\* f repeats the step g, which depends on the value so far and on the round, n times.
Repeats(f, n, s, g) ==
    f = [i \in 0..n |-> IF i = 0 THEN s ELSE g[<<f[i - 1], i>>]]

\* A recursive function over 0..n exists, and its values stay in a set that holds the
\* first one and is closed under the step.
LEMMA Repeated ==
    ASSUME NEW S, NEW n \in Nat, NEW s \in S, NEW g \in [S \X (1..n) -> S]
    PROVE  /\ \E f : Repeats(f, n, s, g)
           /\ \A f : Repeats(f, n, s, g) => f \in [0..n -> S]
<1> DEFINE Up(f, m) == /\ f \in [0..m -> S] /\ f[0] = s
                       /\ \A i \in 1..m : f[i] = g[<<f[i - 1], i>>]
           T == {m \in Nat : m <= n => \E f : Up(f, m)}
<1>1. 0 \in T
  <2>1. Up([i \in 0..0 |-> s], 0)
    OBVIOUS
  <2>2. QED
    BY <2>1
<1>2. ASSUME NEW m \in Nat, m \in T PROVE m + 1 \in T
  <2>1. SUFFICES ASSUME m + 1 <= n PROVE \E f : Up(f, m + 1)
    OBVIOUS
  <2>2. PICK f : Up(f, m)
    BY <1>2, <2>1
  <2>3. PICK x \in S : x = g[<<f[m], m + 1>>]
    <3>1. f[m] \in S /\ m + 1 \in 1..n
      BY <2>1, <2>2
    <3>2. QED
      BY <3>1
  <2>4. PICK h : h = [i \in 0..(m + 1) |-> IF i = m + 1 THEN x ELSE f[i]]
    OBVIOUS
  <2>5. h \in [0..(m + 1) -> S] /\ h[0] = s
    BY <2>2, <2>4
  <2>6. ASSUME NEW i \in 1..(m + 1) PROVE h[i] = g[<<h[i - 1], i>>]
    <3>1. h[i - 1] = f[i - 1]
      BY <2>4
    <3>2. CASE i = m + 1
      BY <3>1, <3>2, <2>3, <2>4
    <3>3. CASE i \in 1..m
      BY <3>1, <3>3, <2>2, <2>4
    <3>4. QED
      BY <3>2, <3>3
  <2>7. QED
    BY <2>5, <2>6
<1>3. n \in T
  <2> HIDE DEF T
  <2>1. Nat \subseteq T
    BY <1>1, <1>2, Induction
  <2>2. QED
    BY <2>1
<1>4. PICK f : Up(f, n)
  BY <1>3
<1>5. f = [i \in 0..n |-> IF i = 0 THEN s ELSE g[<<f[i - 1], i>>]]
  BY <1>4
<1>6. ASSUME NEW h, Repeats(h, n, s, g) PROVE h \in [0..n -> S]
  <2>1. /\ DOMAIN h = 0..n /\ h[0] = s
        /\ \A i \in 1..n : h[i] = g[<<h[i - 1], i>>]
    BY <1>6 DEF Repeats
  <2> DEFINE U == {m \in Nat : m <= n => h[m] \in S}
  <2>2. 0 \in U
    BY <2>1
  <2>3. ASSUME NEW m \in Nat, m \in U PROVE m + 1 \in U
    <3>1. CASE m + 1 <= n
      <4>1. h[m + 1] = g[<<h[m], m + 1>>] /\ h[m] \in S /\ m + 1 \in 1..n
        BY <2>1, <2>3, <3>1
      <4>2. QED
        BY <4>1
    <3>2. QED
      BY <3>1
  <2>4. Nat \subseteq U
    <3> HIDE DEF U
    <3>1. QED
      BY <2>2, <2>3, Induction
  <2>5. \A m \in 0..n : h[m] \in S
    BY <2>4
  <2>6. h = [i \in 0..n |-> h[i]]
    BY <1>6, Zenon DEF Repeats
  <2>7. QED
    BY <2>5, <2>6
<1>7. QED
  BY <1>5, <1>6 DEF Repeats
=============================================================================

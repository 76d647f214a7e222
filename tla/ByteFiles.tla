------------------------------ MODULE ByteFiles ------------------------------
(***************************************************************************)
(* What files promise those who have them open: each is a sequence of      *)
(* words, and each descriptor a position in one.  A write puts words at    *)
(* the position, and what lies between the old end and the position reads  *)
(* as zero.  A call does less than it was asked to at the end of the file, *)
(* or when there is no room for another block and the block of the index   *)
(* it may need.                                                            *)
(***************************************************************************)
EXTENDS Integers, Sequences

CONSTANTS File, Fd, NoFile, Appending, Word, MaxSize

VARIABLES
    content,    \* content[f]: the words of file f
    at,         \* at[d]: the file and the position of descriptor d
    got,        \* the words the last call read
    left,       \* the words asked for that the last call did not do
    room        \* the blocks that are free

NoRoom == room' < 2
Closed == [file |-> NoFile, pos |-> 0]

\* c, with zeros behind it up to length n.
Grown(c, n) ==
    [i \in 1 .. (IF n > Len(c) THEN n ELSE Len(c)) |-> IF i <= Len(c) THEN c[i] ELSE 0]

\* c with m words v from position pos on.
Put(c, pos, m, v) ==
    [i \in DOMAIN Grown(c, pos + m) |->
        IF i \in pos + 1 .. pos + m THEN v ELSE Grown(c, pos + m)[i]]

ByteInit ==
    /\ content = [f \in File |-> <<>>]
    /\ at = [d \in Fd |-> Closed]
    /\ got = <<>>
    /\ left = 0

\* The file is emptied when it is opened with O_TRUNC or O_CREAT.
Open(d, f) ==
    \E c \in {<<>>, content[f]} :
        /\ at[d] = Closed
        /\ at' = [at EXCEPT ![d] = [file |-> f,
                                    pos |-> IF d \in Appending THEN Len(c) ELSE 0]]
        /\ content' = [content EXCEPT ![f] = c]
        /\ got' = <<>> /\ left' = 0

\* The file keeps what it has.
Close(d) ==
    /\ at' = [at EXCEPT ![d] = Closed]
    /\ got' = <<>> /\ left' = 0
    /\ UNCHANGED content

Read(d) ==
    LET c == content[at[d].file]
    IN /\ \/ /\ at[d].pos < Len(c)
             /\ \E e \in at[d].pos .. Len(c) :
                   /\ at' = [at EXCEPT ![d].pos = e]
                   /\ got' = SubSeq(c, at[d].pos + 1, e)
                   /\ left' = 0 \/ e = Len(c) \/ NoRoom
          \/ at[d].pos >= Len(c) /\ got' = <<>> /\ UNCHANGED at
       /\ left' >= 0
       /\ UNCHANGED content

Write(d, v) ==
    /\ \/ \E m \in 0 .. MaxSize - at[d].pos :
             /\ at' = [at EXCEPT ![d].pos = @ + m]
             /\ content' = [content EXCEPT ![at[d].file] = Put(@, at[d].pos, m, v)]
             /\ left' = 0 \/ at[d].pos + m = MaxSize \/ NoRoom
       \/ at[d].pos >= MaxSize /\ UNCHANGED <<content, at>>
    /\ got' = <<>> /\ left' >= 0

Seek(d, pos) ==
    /\ \/ /\ at' = [at EXCEPT ![d].pos = pos]
          /\ content' = [content EXCEPT ![at[d].file] = Grown(@, pos)]
       \/ NoRoom /\ UNCHANGED <<content, at>>
    /\ got' = <<>> /\ left' = 0

ByteNext ==
    \E d \in Fd :
        \/ \E f \in File : Open(d, f)
        \/ /\ at[d] # Closed
           /\ \/ Close(d) \/ Read(d)
              \/ \E v \in Word : Write(d, v)
              \/ \E pos \in 0 .. MaxSize - 1 : Seek(d, pos)

ByteSpec == ByteInit /\ [][ByteNext]_<<content, at, got, left>>
=============================================================================

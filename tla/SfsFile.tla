------------------------------ MODULE SfsFile ------------------------------
(***************************************************************************)
(* The contents of files in the simple file system: the free map           *)
(* (sfs/bitmap.c), the block map of an inode, reading, writing, seeking,   *)
(* truncating and saving (sfs/sfs_inode.c), as descriptors call them       *)
(* (file.c).                                                               *)
(*                                                                         *)
(* An inode is in memory (din) while a descriptor has its file open, and   *)
(* what was last written of it is on the disk (saved): the last close      *)
(* writes it if it is marked dirty and drops it, the next open reads it.   *)
(* A block holds SFS_BLKSIZE words, of data or of block numbers.  A call   *)
(* holds the inode's lock and never sleeps, so it is one step.  Operators  *)
(* on the state s of the disk and its inodes return the state after them;  *)
(* s.err is the error they met, and "panic" a failed assertion.            *)
(***************************************************************************)
EXTENDS Integers, FiniteSets, SequencesExt

CONSTANTS
    File, Fd,
    NoFile,         \* what a closed descriptor stands for
    Appending,      \* the descriptors that are opened with O_APPEND
    Word,           \* the data words, among them 0
    NBLOCK,         \* blocks on the disk, numbered from 1; 0 is no block
    SFS_NDIRECT, SFS_BLKSIZE,
    SFS_BLK_NENTRY, \* block numbers in an index block
    IoLen, SeekTo   \* bounds: the lengths read and written, the positions sought

Block == 1 .. NBLOCK
Slot  == 0 .. SFS_BLKSIZE - 1
SFS_MAX_FILE_SIZE == (SFS_NDIRECT + SFS_BLK_NENTRY) * SFS_BLKSIZE

ASSUME SizesAssumption ==
    /\ NBLOCK \in Nat \ {0} /\ SFS_NDIRECT \in Nat \ {0} /\ SFS_BLKSIZE \in Nat \ {0}
    /\ SFS_BLK_NENTRY \in 1 .. SFS_BLKSIZE
    /\ 0 \in Word /\ Appending \subseteq Fd /\ NoFile \notin File
    /\ IoLen \subseteq Nat \ {0} /\ SeekTo \subseteq 0 .. SFS_MAX_FILE_SIZE - 1

VARIABLES
    sfs,        \* [din, dirty, saved, disk, freemap, unused_blocks, err, ino]
    at,         \* at[d]: the file and the position of descriptor d
    got,        \* history: the words the last call read
    left        \* history: the words asked for that the last call did not do

vars == <<sfs, at, got, left>>

-----------------------------------------------------------------------------
(* Blocks                                                                  *)

Cleared == [i \in Slot |-> 0]
Fail(s, e) == [s EXCEPT !.err = e]

\* The lowest block the bitmap has free.
Lowest(free) == CHOOSE b \in free : \A c \in free : b <= c

\* Mutant: sfs_block_alloc does not clear the block.
BlockAllocDirty(s) ==
    IF s.freemap = {} THEN Fail(s, "nomem")
    ELSE LET b == Lowest(s.freemap)
         IN [s EXCEPT !.freemap = @ \ {b}, !.unused_blocks = @ - 1, !.ino = b]

\* sfs_block_alloc: bitmap_alloc takes the lowest block, which is cleared.
BlockAlloc(s) ==
    IF s.freemap = {} THEN Fail(s, "nomem")
    ELSE LET b == Lowest(s.freemap)
         IN [s EXCEPT !.freemap = @ \ {b}, !.unused_blocks = @ - 1, !.ino = b,
                      !.disk[b] = Cleared]

BlockFree(s, b) == [s EXCEPT !.freemap = @ \cup {b}, !.unused_blocks = @ + 1]

-----------------------------------------------------------------------------
(* The block map of an inode                                               *)

\* Mutant: the new index block stays taken when the data block cannot be had.
GetSubLeaking(s, f, i) ==
    LET ent == s.din[f].indirect
        a == IF ent # 0 THEN s ELSE BlockAlloc(s)
        e == IF ent # 0 THEN ent ELSE a.ino
        b == BlockAlloc(a)
    IN IF a.err # "" THEN a
       ELSE IF b.err # "" THEN b
       ELSE [b EXCEPT !.disk[e][i] = b.ino, !.din[f].indirect = e,
                       !.dirty[f] = @ \/ ent = 0]

\* sfs_bmap_get_sub_nolock with create, for an entry that is 0: the index block is
\* allocated if need be, and freed again if there is no block for the data.  Only a new
\* index block makes the inode dirty.
GetSub(s, f, i) ==
    LET ent == s.din[f].indirect
        a == IF ent # 0 THEN s ELSE BlockAlloc(s)
        e == IF ent # 0 THEN ent ELSE a.ino
        b == BlockAlloc(a)
    IN IF a.err # "" THEN a
       ELSE IF b.err # "" THEN (IF ent # 0 THEN b ELSE BlockFree(b, e))
       ELSE [b EXCEPT !.disk[e][i] = b.ino, !.din[f].indirect = e,
                       !.dirty[f] = @ \/ ent = 0]

\* The block number that the inode of f has for block index of the file.
Mapped(s, f, index) ==
    IF index < SFS_NDIRECT THEN s.din[f].direct[index]
    ELSE IF s.din[f].indirect = 0 THEN 0
    ELSE s.disk[s.din[f].indirect][index - SFS_NDIRECT]

\* sfs_bmap_get_nolock
BmapGet(s, f, index, create) ==
    IF Mapped(s, f, index) # 0 \/ ~create THEN [s EXCEPT !.ino = Mapped(s, f, index)]
    ELSE IF index >= SFS_NDIRECT THEN GetSub(s, f, index - SFS_NDIRECT)
    ELSE LET a == BlockAlloc(s)
         IN IF a.err # "" THEN a
            ELSE [a EXCEPT !.din[f].direct[index] = a.ino, !.dirty[f] = TRUE]

\* sfs_bmap_load_nolock: the block behind the last one is created, or found where an
\* earlier call left it.  The new count of blocks does not make the inode dirty.
BmapLoad(s, f, index) ==
    LET create == index = s.din[f].blocks
        g == BmapGet(s, f, index, create)
    IN IF index > s.din[f].blocks THEN Fail(s, "panic")    \* assert(index <= din->blocks)
       ELSE IF g.err # "" \/ ~create THEN g
       ELSE [g EXCEPT !.din[f].blocks = @ + 1]

\* sfs_bmap_free_nolock clears the entry of the block.
Forget(s, f, index) ==
    IF index < SFS_NDIRECT THEN [s EXCEPT !.din[f].direct[index] = 0]
    ELSE [s EXCEPT !.disk[s.din[f].indirect][index - SFS_NDIRECT] = 0]

\* sfs_bmap_truncate_nolock frees the last block.
BmapTruncate(s, f) ==
    LET last == s.din[f].blocks - 1
        m == Mapped(s, f, last)
    IN [(IF m = 0 THEN s ELSE BlockFree(Forget(s, f, last), m))
            EXCEPT !.din[f].blocks = last, !.dirty[f] = TRUE]

-----------------------------------------------------------------------------
(* Truncating and seeking                                                  *)

Blocks(len) == (len + SFS_BLKSIZE - 1) \div SFS_BLKSIZE

\* The loops of sfs_truncfile, up to the first error.
Enlarged(s, f, tblks) ==
    FoldLeft(LAMBDA t, i : IF t.err # "" THEN t ELSE BmapLoad(t, f, i),
             s, [k \in 1 .. tblks - s.din[f].blocks |-> s.din[f].blocks + k - 1])

Reduced(s, f, tblks) ==
    FoldLeft(LAMBDA t, i : BmapTruncate(t, f), s, [k \in 1 .. s.din[f].blocks - tblks |-> k])

\* sfs_truncfile.  One that runs out of blocks keeps those it got, and leaves size
\* and dirty as they are.
TruncFile(s, f, len) ==
    IF s.din[f].size = len
    THEN IF Blocks(len) = s.din[f].blocks THEN s
         ELSE Fail(s, "assert")                            \* assert(tblks == din->blocks)
    ELSE LET t == Reduced(Enlarged(s, f, Blocks(len)), f, Blocks(len))
         IN IF t.err # "" THEN t ELSE [t EXCEPT !.din[f].size = len, !.dirty[f] = TRUE]

\* sfs_tryseek enlarges the file to a position behind its end.
TrySeek(s, f, pos) == IF pos > s.din[f].size THEN TruncFile(s, f, pos) ELSE s

-----------------------------------------------------------------------------
(* Reading and writing                                                     *)

Least(a, b) == IF a < b THEN a ELSE b

\* Mutant: the head always reaches to the end of its block.
HeadSizeLong(nblks, blkoff, n) == SFS_BLKSIZE - blkoff

\* The words of the first block of n words from blkoff on.
HeadSize(nblks, blkoff, n) == IF nblks # 0 THEN SFS_BLKSIZE - blkoff ELSE n

\* What sfs_io_nolock transfers, block by block: the head if the offset is not
\* aligned, the blocks that are covered as a whole, and the tail that remains.
Pieces(offset, endpos) ==
    LET blkno  == offset \div SFS_BLKSIZE
        nblks  == endpos \div SFS_BLKSIZE - blkno
        blkoff == offset % SFS_BLKSIZE
        head   == IF blkoff = 0 THEN <<>>
                  ELSE <<[blk |-> blkno, off |-> blkoff,
                          size |-> HeadSize(nblks, blkoff, endpos - offset)]>>
        rest   == IF nblks = 0 THEN 0 ELSE nblks - Len(head)
        whole  == [k \in 1 .. rest |->
                      [blk |-> blkno + Len(head) + k - 1, off |-> 0, size |-> SFS_BLKSIZE]]
        alen   == (IF head = <<>> THEN 0 ELSE head[1].size) + rest * SFS_BLKSIZE
        tail   == IF endpos - (offset + alen) <= 0 THEN <<>>
                  ELSE <<[blk |-> blkno + Len(head) + rest, off |-> 0,
                          size |-> endpos - (offset + alen)]>>
    IN head \o whole \o tail

\* One piece p of the block that s has found: x is the state, the words read so far and
\* the number of words done; v is the word to write, or -1 to read.
Moved(x, s, p, v) ==
    LET words == [k \in 1 .. p.size |-> s.disk[s.ino][p.off + k - 1]]
        put == [j \in Slot |-> IF j \in p.off .. p.off + p.size - 1 THEN v ELSE s.disk[s.ino][j]]
    IN IF s.err # "" THEN [x EXCEPT !.s = s]
       ELSE IF v = -1 THEN [x EXCEPT !.s = s, !.alen = @ + p.size, !.words = @ \o words]
       ELSE [x EXCEPT !.s = [s EXCEPT !.disk[s.ino] = put], !.alen = @ + p.size]

\* The pieces end with the first error.
Transfer(x, f, p, v) ==
    IF x.s.err # "" THEN x ELSE Moved(x, BmapLoad(x.s, f, p.blk), p, v)

\* The end of sfs_io_nolock: the file reaches to where the call came.
End(f, offset, x) ==
    IF x.s.err # "panic" /\ offset + x.alen > x.s.din[f].size
    THEN [x EXCEPT !.s.din[f].size = offset + x.alen, !.s.dirty[f] = TRUE] ELSE x

\* sfs_io_nolock
Io(s, f, offset, len, v) ==
    LET limit == IF v = -1 THEN s.din[f].size ELSE SFS_MAX_FILE_SIZE
        endpos == Least(offset + len, limit)
        x == [s |-> s, alen |-> 0, words |-> <<>>]
    IN IF offset >= SFS_MAX_FILE_SIZE \/ endpos <= offset THEN x
       ELSE End(f, offset, FoldLeft(LAMBDA z, p : Transfer(z, f, p, v), x,
                                    Pieces(offset, endpos)))

-----------------------------------------------------------------------------
(* The calls on descriptors                                                *)

Runs == sfs.err = ""
IsOpen(d) == at[d].file # NoFile
Panics(s) == s.err \in {"panic", "assert"}

\* A failed assertion stops the kernel; other errors are returned and forgotten.
Settled(s) == [s EXCEPT !.err = IF Panics(s) THEN @ ELSE "", !.ino = 0]

\* A call ends in state s, with the descriptors as in moved, words read and n words
\* not done.
Returns(s, moved, words, n) ==
    /\ Runs
    /\ sfs' = Settled(s)
    /\ IF Panics(s) THEN UNCHANGED <<at, got, left>>
       ELSE at' = moved /\ got' = words /\ left' = n

\* sfs_fsync writes the inode to the disk if it is dirty.
Synced(s, f) ==
    IF s.dirty[f] THEN [s EXCEPT !.saved[f] = s.din[f], !.dirty[f] = FALSE] ELSE s

\* The last vop_open_dec closes, and so syncs, the file; the last vop_ref_dec drops
\* the inode, so that the next open of the file reads what the disk has.
Dropped(s, f) == LET t == Synced(s, f) IN [t EXCEPT !.din[f] = t.saved[f]]

Empty == [size |-> 0, blocks |-> 0, indirect |-> 0, direct |-> [i \in 0 .. SFS_NDIRECT - 1 |-> 0]]

SfsInit ==
    /\ sfs = [din  |-> [f \in File |-> Empty], dirty |-> [f \in File |-> FALSE],
              saved |-> [f \in File |-> Empty], disk |-> [b \in Block |-> Cleared],
              freemap |-> Block, unused_blocks |-> NBLOCK, err |-> "", ino |-> 0]
    /\ at = [d \in Fd |-> [file |-> NoFile, pos |-> 0]]
    /\ got = <<>>
    /\ left = 0

\* file_open: O_TRUNC and O_CREAT empty the file, O_APPEND starts at its end.
Open(d, f, trunc) ==
    LET s == IF trunc THEN TruncFile(sfs, f, 0) ELSE sfs
        pos == IF d \in Appending THEN s.din[f].size ELSE 0
    IN /\ ~IsOpen(d)
       /\ Returns(s, [at EXCEPT ![d] = [file |-> f, pos |-> pos]], <<>>, 0)

\* file_close
Close(d) ==
    LET f == at[d].file
        last == \A e \in Fd \ {d} : at[e].file # f
    IN /\ IsOpen(d)
       /\ Returns(IF last THEN Dropped(sfs, f) ELSE sfs,
                  [at EXCEPT ![d] = [file |-> NoFile, pos |-> 0]], <<>>, 0)

\* file_fsync
Fsync(d) ==
    /\ IsOpen(d) /\ Runs
    /\ sfs' = Synced(sfs, at[d].file)
    /\ UNCHANGED <<at, got, left>>

\* What was transferred moves the position on, after an error as well.
Advance(d, n, x) ==
    IsOpen(d) /\ Returns(x.s, [at EXCEPT ![d].pos = @ + x.alen], x.words, n - x.alen)

\* file_read
Read(d, n) == Advance(d, n, Io(sfs, at[d].file, at[d].pos, n, -1))

\* file_write
Write(d, n, v) == Advance(d, n, Io(sfs, at[d].file, at[d].pos, n, v))

\* file_seek, whatever whence pos comes from.
Seek(d, pos) ==
    LET s == TrySeek(sfs, at[d].file, pos)
    IN IsOpen(d) /\ Returns(s, IF s.err = "" THEN [at EXCEPT ![d].pos = pos] ELSE at, <<>>, 0)

\* Files are interchangeable.
Symmetry == Permutations(File)

Next ==
    \E d \in Fd :
        \/ \E f \in File, trunc \in BOOLEAN : Open(d, f, trunc)
        \/ Close(d) \/ Fsync(d)
        \/ \E n \in IoLen : Read(d, n) \/ \E v \in Word \ {0} : Write(d, n, v)
        \/ \E pos \in SeekTo : Seek(d, pos)

Spec == SfsInit /\ [][Next]_vars

-----------------------------------------------------------------------------
(* Properties.                                                             *)

Index == 0 .. SFS_NDIRECT + SFS_BLK_NENTRY - 1

\* Every block is free, or the index block of one file, or has one place in one
\* file, wherever allocations fail half way and whatever an inode loses when it is
\* dropped; a file has a block for every index below din->blocks, and only its index
\* block can have entries behind.  So the assertions on sfs_block_inuse and on
\* unused_blocks hold.
BlocksExact ==
    LET index == {<<f, sfs.din[f].indirect>> : f \in {g \in File : sfs.din[g].indirect # 0}}
        data  == {e \in {<<f, i, Mapped(sfs, f, i)>> : f \in File, i \in Index} : e[3] # 0}
        used  == {e[2] : e \in index} \cup {e[3] : e \in data}
    IN /\ used = Block \ sfs.freemap
       /\ Cardinality(used) = Cardinality(index) + Cardinality(data)
       /\ sfs.unused_blocks = Cardinality(sfs.freemap)
       /\ \A f \in File : \A i \in Index :
             IF i < sfs.din[f].blocks THEN Mapped(sfs, f, i) # 0
             ELSE i < SFS_NDIRECT => Mapped(sfs, f, i) = 0

\* "true if inode modified" (sfs.h:72): an inode that is not marked dirty is the one
\* on the disk, so that nothing is lost when it is dropped without being written.
DirtyIfModified == \A f \in File : sfs.dirty[f] \/ sfs.din[f] = sfs.saved[f]

\* The words of file f; where its size runs ahead of its blocks they are zero.
Content(f) ==
    [w \in 1 .. sfs.din[f].size |->
        LET b == Mapped(sfs, f, (w - 1) \div SFS_BLKSIZE)
        IN IF b = 0 THEN 0 ELSE sfs.disk[b][(w - 1) % SFS_BLKSIZE]]

Abstract == INSTANCE ByteFiles
    WITH content <- [f \in File |-> Content(f)], room <- sfs.unused_blocks,
         MaxSize <- SFS_MAX_FILE_SIZE

\* The index block of f has a block behind din->blocks: the inode was dropped when
\* the count of its blocks had grown and dirty was not set.
Leftover(f) == \E i \in Index : i >= sfs.din[f].blocks /\ Mapped(sfs, f, i) # 0

\* A file with such a block grows, and shows again what the block held.
Exposes == \E f \in File : Leftover(f) /\ sfs'.din[f].size > sfs.din[f].size

\* Files are sequences of words: what is read is what was last written there
\* through any descriptor, or zero, and never what a block held for another file or
\* before a truncation, through closes and reloads of the inode; a call does all it
\* was asked, or all up to the end of the file, unless it runs out of blocks.  The
\* exception is a file that grows over a block its inode has lost.
ImplementsByteFiles ==
    /\ Abstract!ByteInit
    /\ [][Exposes \/ Abstract!ByteNext]_<<[f \in File |-> Content(f)], at, got, left>>

\* assert(index <= din->blocks) of sfs_bmap_load_nolock: a descriptor's position
\* never lies more than a block behind the end when it is used.
IndexAsserted == sfs.err # "panic"

\* assert(tblks == din->blocks) of sfs_truncfile: a file that has the length asked
\* for has the blocks of that length.
TruncAsserted == sfs.err # "assert"

\* "append on each write" (libs/unistd.h, O_APPEND): what a descriptor opened with
\* O_APPEND writes goes behind everything that is in the file, and overwrites nothing.
AppendsAtEnd ==
    [][\A d \in Appending : \A n \in IoLen : \A v \in Word \ {0} :
          Write(d, n, v) => \A w \in 1 .. sfs.din[at[d].file].size :
                               Content(at[d].file)'[w] = Content(at[d].file)[w]]_vars
=============================================================================

----------------------------- MODULE MCSfsFile ------------------------------
(***************************************************************************)
(* The contents of files on a small disk.  In a behaviour                  *)
(*   "descriptors"  all descriptors are used on one file, one of them word *)
(*                  by word, so that each meets what the other has written *)
(*                  and truncated;                                         *)
(*   "files"        one descriptor is used on all files, so that a file    *)
(*                  gets the blocks another one gave back;                 *)
(*   "both"         one descriptor works on its file, by small calls,      *)
(*                  while the other takes blocks and gives them back, for  *)
(*                  that file and for others.                              *)
(***************************************************************************)
EXTENDS SfsFile

VARIABLES use, home

mcvars == <<vars, use, home>>

\* The next state depends on neither got nor left.
View == <<sfs, at, use, home>>

MCInit ==
    /\ SfsInit
    /\ \/ use = "files" /\ home = NoFile
       \/ use \in {"descriptors", "both"} /\ home \in File

Shared ==
    \E d \in Fd :
        \/ \E trunc \in BOOLEAN : Open(d, home, trunc)
        \/ Close(d)
        \/ \E n \in IoLen :
              /\ d \in Appending => n = 1
              /\ Read(d, n) \/ \E v \in Word \ {0} : Write(d, n, v)
        \/ d \notin Appending /\ \E pos \in SeekTo : Seek(d, pos)

Both ==
    \E d \in Fd :
        \/ \E f \in File, trunc \in BOOLEAN :
              Open(d, f, trunc) /\ (d \in Appending \/ f = home)
        \/ Close(d)
        \/ Seek(d, SFS_BLKSIZE)
        \/ /\ d \notin Appending
           /\ \/ Fsync(d) \/ Seek(d, SFS_BLKSIZE + 1)
              \/ /\ at[d].pos \in SFS_BLKSIZE .. SFS_BLKSIZE + 1
                 /\ \E v \in Word \ {0} : Write(d, 1, v)

MCNext ==
    /\ \/ use = "files" /\ Next /\ \A d \in Appending : at'[d].file = NoFile
       \/ use = "descriptors" /\ Shared
       \/ use = "both" /\ Both
    /\ UNCHANGED <<use, home>>

MCSpec == MCInit /\ [][MCNext]_mcvars
=============================================================================

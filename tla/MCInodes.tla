------------------------------ MODULE MCInodes ------------------------------
(***************************************************************************)
(* Inodes from both sides: the descriptors and processes that hold them    *)
(* (Files), and the cache of the simple file system that loads and frees   *)
(* them (SfsCache).  Between the two are the counts only: a behaviour      *)
(* exercises one side and leaves the other as it was initialised.          *)
(***************************************************************************)
EXTENDS Files, SfsCache

VARIABLE part

invars == <<vars, cachevars, part>>

InodesInit == part \in {"files", "cache"} /\ FilesInit /\ CacheInit

FilesStep == part = "files" /\ Next /\ UNCHANGED <<cachevars, part>>
InCache(A) == part = "cache" /\ A /\ UNCHANGED <<vars, part>>

InodesNext == FilesStep \/ InCache(CacheNext)

\* The fairness of SfsCache.
InodesSpec ==
    /\ InodesInit /\ [][InodesNext]_invars
    /\ \A t \in Thread : SF_invars(InCache(Take(t))) /\ WF_invars(InCache(Run(t)))
=============================================================================

------------------------------- MODULE MCProc -------------------------------
(* Proc on small instances: the user processes are interchangeable.        *)
EXTENDS Proc, TLC

Symmetry == Permutations(User)
=============================================================================

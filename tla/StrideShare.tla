---------------------------- MODULE StrideShare ----------------------------
(***************************************************************************)
(* The stride scheduler with history variables: whether the same processes *)
(* have been runnable all the time, and how far the stride of each would   *)
(* be ahead of the least one in that case if strides did not wrap around.  *)
(***************************************************************************)
EXTENDS Stride

VARIABLES steady, lead

sharevars == <<vars, steady, lead>>

Runnable == {p \in Proc : state[p] = "RUNNABLE"}

\* f, counted from its least value on S.
Normal(f, S) ==
    [p \in Proc |-> IF p \in S THEN f[p] - Min({f[q] : q \in S}) ELSE 0]

ShareInit == StrideInit /\ steady = TRUE /\ lead = lab6_stride

\* Strides only grow, by what Advanced adds to them.
ShareNext ==
    /\ Next
    /\ steady' = (steady /\ state' = state)
    /\ lead' = IF steady'
               THEN Normal([p \in Proc |-> lead[p] + ((lab6_stride'[p] - lab6_stride[p]) % 2^WORD)],
                           Runnable)
               ELSE [p \in Proc |-> 0]

ShareSpec == ShareInit /\ [][ShareNext]_sharevars /\ Fairness

-----------------------------------------------------------------------------
(* Properties.                                                             *)

\* While processes run and yield without leaving the queue, what they have been
\* charged differs by no more than BIG_STRIDE, whatever priorities they set: picks
\* times BIG_STRIDE / priority is the same for all of them up to one pass, although
\* the strides themselves wrap around and a signed difference is all that is compared.
ProportionalShare ==
    steady => \A p, q \in Runnable : lead[p] - lead[q] <= BIG_STRIDE
=============================================================================

-------------------------- MODULE MCSliceOwnership --------------------------
(***************************************************************************)
(* Instances of SliceOwnership for TLC; the agents are interchangeable.    *)
(***************************************************************************)
EXTENDS SliceOwnership, TLC

CONSTANTS a1, a2, k1, q1   \* model values

Symmetry == Permutations(Agents)

\* The state without the names of the arrays, and without what is garbage.
Reachable ==
  <<[h \in Holders |-> IF slice[h].array = 0 THEN Nil
                       ELSE [elements |-> heap[slice[h].array], len |-> slice[h].len]],
    {hk \in Holders \X Holders : slice[hk[1]].array = slice[hk[2]].array}, meant>>
=============================================================================

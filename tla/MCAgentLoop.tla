---------------------------- MODULE MCAgentLoop ----------------------------
(***************************************************************************)
(* Instances of AgentLoop for TLC.  Runs and Steers are interchangeable,   *)
(* so the runs that check safety only use both symmetries.                 *)
(***************************************************************************)
EXTENDS AgentLoop, TLC

CONSTANTS r1, r2, s1, s2, s3   \* model values

Symmetry == Permutations(Runs) \cup Permutations(Steers)
=============================================================================

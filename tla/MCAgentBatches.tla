--------------------------- MODULE MCAgentBatches ---------------------------
(***************************************************************************)
(* Instances of AgentBatches for TLC.                                      *)
(***************************************************************************)
EXTENDS AgentBatches

CONSTANTS r1, r2, s1, s2   \* model values
=============================================================================

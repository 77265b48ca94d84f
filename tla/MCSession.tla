----------------------------- MODULE MCSession -----------------------------
(***************************************************************************)
(* Instances of Session for TLC; the runs are interchangeable.             *)
(***************************************************************************)
EXTENDS Session, TLC

CONSTANTS r1, r2, s1, s2   \* model values

Symmetry == Permutations(Runs)

\* The state without what is dead: histories no property of the run reads, the
\* locals of a run that is not inside, a snapshot after the last restart.
Alive(f) == [r \in {q \in Runs : Inside(q)} |-> f[r]]
Relevant ==
  <<agentVars, recordVars, Alive(it), Alive(logged), inHand, asked, system, pc, how,
    steer, steering, resetting, systemPrompt, lastUsage, nudged, resets, counters,
    IF restarts < MaxRestarts THEN saved ELSE NoSnapshot>>
=============================================================================

----------------------------- MODULE ToolBatch -----------------------------
(***************************************************************************)
(* What a batch of tool calls promises to the run that issued it, however  *)
(* the calls are scheduled.  One assistant message issued the calls        *)
(* 1..NumCalls, in that order.  Every call gets at most one outcome, an    *)
(* outcome never changes, the audit log grows in the order of the message, *)
(* and the batch either is abandoned or returns with one result per call,  *)
(* in the order of the message, asking the run to stop exactly when every  *)
(* result asks for it.  SequentialBatch and ParallelBatch implement it.    *)
(***************************************************************************)
EXTENDS Naturals, Sequences

CONSTANT NumCalls   \* tool calls in the message, at least one

Call == 1..NumCalls

\* A tool outcome: the call it answers and its Result.Terminate.
Outcome == [call : Call, stop : BOOLEAN]

\* The zero value of the Go struct: no outcome yet.
NoOutcome == [call |-> 0, stop |-> FALSE]

VARIABLES status,     \* "running", then "returned" or "aborted"
          outcomes,   \* the outcome of each call
          toolLog,    \* the entries this batch appended to the agent's log
          results,    \* the results handed back to the run
          terminate   \* whether the run stops without another LLM call

vars == <<status, outcomes, toolLog, results, terminate>>

Init ==
  /\ status = "running"
  /\ outcomes = [c \in Call |-> NoOutcome]
  /\ toolLog = <<>>
  /\ results = <<>>
  /\ terminate = FALSE

\* Call c gets its outcome; it may be logged at once, if it is the next one.
Settle(c) ==
  /\ status = "running"
  /\ outcomes[c] = NoOutcome
  /\ \E stop \in BOOLEAN :
       outcomes' = [outcomes EXCEPT ![c] = [call |-> c, stop |-> stop]]
  /\ \/ toolLog' = toolLog /\ status' \in {"running", "aborted"}
     \/ Len(toolLog) = c - 1 /\ toolLog' = Append(toolLog, outcomes'[c]) /\ UNCHANGED status
  /\ UNCHANGED <<results, terminate>>

Abort ==
  /\ status = "running"
  /\ status' = "aborted"
  /\ UNCHANGED <<outcomes, toolLog, results, terminate>>

\* Only a batch in which every call has an outcome returns.  The log is written
\* call by call, or at once, in the end.
Return ==
  /\ status = "running"
  /\ \A c \in Call : outcomes[c] # NoOutcome
  /\ toolLog \in {<<>>, outcomes}
  /\ status' = "returned"
  /\ results' = outcomes
  /\ toolLog' = outcomes
  /\ terminate' = \A c \in Call : outcomes[c].stop
  /\ UNCHANGED outcomes

Next == (\E c \in Call : Settle(c)) \/ Abort \/ Return

Spec == Init /\ [][Next]_vars
=============================================================================

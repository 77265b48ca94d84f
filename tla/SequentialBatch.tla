-------------------------- MODULE SequentialBatch --------------------------
(***************************************************************************)
(* executeToolCallsSequential: the calls of one assistant message, one     *)
(* after the other on the loop's own goroutine.  A handler's deltas are    *)
(* yielded directly, and the consumer's answer to them is dropped: the     *)
(* next yield is meant to pick the break up.  What that next yield does    *)
(* depends on the consumer.  The body of a `for range` statement must not  *)
(* be called again once it was left: the Go runtime panics.  A consumer    *)
(* that calls the iterator with a function of its own may be called again; *)
(* it is assumed to refuse again.                                          *)
(***************************************************************************)
EXTENDS Naturals, Sequences

CONSTANTS NumCalls,   \* tool calls in the message
          MaxDeltas   \* bound: EmitToolDelta calls of one handler

ASSUME SequentialAssumption ==
  /\ NumCalls \in Nat \ {0}
  /\ MaxDeltas \in Nat

Call == 1..NumCalls
Outcome == [call : Call, stop : BOOLEAN]
NoOutcome == [call |-> 0, stop |-> FALSE]
Event == [kind : {"start", "delta", "end"}, call : Call]

VARIABLES
  pc,        \* where the loop is in the call `next`
  next,
  rangeLoop, \* the consumer is a `for range` statement
  looping,   \* the consumer has not broken out
  results,
  terminate,
  toolLog,   \* what this batch appended to the agent's log
  events,    \* history: every event the consumer took
  ran,       \* history: the calls whose handler was invoked
  emitted    \* history: EmitToolDelta calls of the current handler

vars == <<pc, next, rangeLoop, looping, results, terminate, toolLog, events, ran,
          emitted>>

returnVars == <<results, terminate, toolLog>>

Init ==
  /\ pc = "preflight"
  /\ next = 1
  /\ rangeLoop \in BOOLEAN
  /\ looping = TRUE
  /\ results = <<>>
  /\ terminate = TRUE
  /\ toolLog = <<>>
  /\ events = <<>>
  /\ ran = {}
  /\ emitted = 0

BeforeToolCallFails ==
  /\ pc = "preflight"
  /\ pc' = "aborted"
  /\ UNCHANGED <<next, rangeLoop, looping, returnVars, events, ran, emitted>>

\* The consumer is handed an event and answers go.
Yield(kind, go) ==
  /\ events' = Append(events, [kind |-> kind, call |-> next])
  /\ looping' = go

YieldUnannounced(kind, go) == UNCHANGED events /\ looping' = go
YieldStart(kind, go) == Yield(kind, go)

\* EventToolStart, then the handler, unless the consumer breaks.
StartTool ==
  /\ pc = "preflight"
  /\ \E go \in BOOLEAN :
       /\ YieldStart("start", go)
       /\ IF go
          THEN pc' = "handler" /\ ran' = ran \cup {next} /\ emitted' = 0
          ELSE pc' = "aborted" /\ UNCHANGED <<ran, emitted>>
  /\ UNCHANGED <<next, rangeLoop, returnVars>>

\* The handler calls EmitToolDelta; the answer to the yield is swallowed.
EmitToolDelta ==
  /\ pc = "handler"
  /\ emitted < MaxDeltas
  /\ emitted' = emitted + 1
  /\ \/ looping /\ (\E go \in BOOLEAN : Yield("delta", go)) /\ UNCHANGED pc
     \/ ~looping /\ rangeLoop /\ pc' = "panicked" /\ UNCHANGED <<events, looping>>
     \/ ~looping /\ ~rangeLoop /\ UNCHANGED <<pc, events, looping>>
  /\ UNCHANGED <<next, rangeLoop, ran, returnVars>>

LogLate(o) == toolLog' = results   \* the entry waits for the next call's
LogEntry(o) == toolLog' = Append(toolLog, o)

OrReduce(stop) == terminate \/ stop
AndReduce(stop) == terminate /\ stop

\* executeOneToolCall came back: its outcome is logged and kept, then reported.
HaveOutcome ==
  /\ \E stop \in BOOLEAN : LET o == [call |-> next, stop |-> stop]
       IN  /\ LogEntry(o)
           /\ results' = Append(results, o)
           /\ terminate' = AndReduce(stop)
  /\ pc' = "report"
  /\ UNCHANGED <<next, rangeLoop, looping, events, ran, emitted>>

HandlerReturns == pc = "handler" /\ HaveOutcome

\* Blocked by the hook, or unknown tool: an outcome, no start and no handler.
SkipTool == pc = "preflight" /\ HaveOutcome

NextCall ==
  IF next < NumCalls
  THEN next' = next + 1 /\ pc' = "preflight"
  ELSE pc' = "returned" /\ UNCHANGED next

IgnoreBreak == NextCall
OnBreak == pc' = "aborted" /\ UNCHANGED next

\* EventToolEnd; this yield may find the consumer gone since a delta.
ReportOutcome ==
  /\ pc = "report"
  /\ \/ looping /\ Yield("end", TRUE) /\ NextCall
     \/ looping /\ Yield("end", FALSE) /\ OnBreak
     \/ /\ ~looping
        /\ IF rangeLoop THEN pc' = "panicked" /\ UNCHANGED next ELSE OnBreak
        /\ UNCHANGED <<events, looping>>
  /\ UNCHANGED <<rangeLoop, returnVars, ran, emitted>>

Ended == pc \in {"returned", "aborted", "panicked"}

Finished == Ended /\ UNCHANGED vars

Next ==
  \/ BeforeToolCallFails \/ StartTool \/ SkipTool
  \/ EmitToolDelta \/ HandlerReturns \/ ReportOutcome \/ Finished

Spec == Init /\ [][Next]_vars

-----------------------------------------------------------------------------
Positions(kind, c) ==
  {i \in DOMAIN events : events[i].kind = kind /\ events[i].call = c}

\* Every delta of a call, and every end of a call whose handler ran, comes after
\* that call's start; nothing of the call comes after its end, and the brackets
\* of two calls never overlap.
BracketsNest ==
  \A c \in Call :
    /\ c \in ran => \A i \in Positions("delta", c) \cup Positions("end", c) :
         \E j \in Positions("start", c) : j < i
    /\ \A i \in Positions("end", c) : \A j \in DOMAIN events :
         /\ events[j].call <= c => j <= i
         /\ events[j].call > c => j > i

\* When the consumer sees the end of a call, Snapshot already shows its entry; and
\* a batch whose loop left normally, returned or aborted, logged the call of every
\* handler it ran, though the consumer may have broken off in the middle of one.
LoggedBeforeReported ==
  \A c \in Call :
    Positions("end", c) # {} \/ (pc \in {"returned", "aborted"} /\ c \in ran) =>
      \E i \in DOMAIN toolLog : toolLog[i].call = c

\* Once the consumer broke out, even in the middle of a handler, no other
\* handler starts and the batch does not go on to hand its results back.
BreakStopsBatch ==
  [][~looping => ran' = ran /\ pc' # "returned"]_vars

\* The batch implements the contract of a tool batch.
Contract == INSTANCE ToolBatch WITH
  status <- IF pc = "returned" THEN "returned"
            ELSE IF Ended THEN "aborted" ELSE "running",
  outcomes <- [c \in Call |-> IF c <= Len(results) THEN results[c] ELSE NoOutcome],
  results <- IF pc = "returned" THEN results ELSE <<>>,
  terminate <- pc = "returned" /\ terminate
ImplementsToolBatch == Contract!Spec

\* agent.go: after a break seen by a delta, "the next yield will pick up the
\* abort and short-circuit the run".
BreakNeverPanics == pc # "panicked"
=============================================================================

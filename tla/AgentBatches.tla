---------------------------- MODULE AgentBatches ----------------------------
(***************************************************************************)
(* The loop of AgentLoop and its batches of tool calls together.  Where    *)
(* AgentLoop has a phase, here the dispatcher chooses the execution mode,  *)
(* handlers run, alone or beside each other, and the batch obeys ToolBatch;*)
(* a handler may call Steer on its own agent.  At most one run is inside,  *)
(* so there is one batch.                                                  *)
(***************************************************************************)
EXTENDS AgentLoop

CONSTANTS Plain,   \* a tool whose ExecutionMode is not Sequential, or a name
                   \* that is not registered, whose calls are always skipped
          Alone    \* a tool whose ExecutionMode is Sequential

Tool == {Plain, Alone}
Mode == {"sequential", "parallel"}   \* unspecified counts as sequential

VARIABLES
  toolExecution,  \* Config.ToolExecution
  ctxDone,        \* runs whose ctx is done
  called,         \* the tool of each call of the batch
  busy,           \* calls whose handler runs
  waits,          \* the Steer call each handler is in
  status, outcomes, batchLog, results, terminate   \* of ToolBatch

batchVars == <<status, outcomes, batchLog, results, terminate>>
handlerVars == <<called, busy, waits>>
allVars == <<vars, toolExecution, ctxDone, handlerVars, batchVars>>

Contract(n) == INSTANCE ToolBatch WITH NumCalls <- n, toolLog <- batchLog

BatchesInit ==
  /\ Init
  /\ toolExecution \in Mode
  /\ ctxDone = {}
  /\ called = <<>>
  /\ busy = {}
  /\ waits = [c \in 1..MaxCalls |-> NoSteer]
  /\ status = "returned"
  /\ outcomes = <<>>
  /\ batchLog = <<>>
  /\ results = <<>>
  /\ terminate = FALSE

-----------------------------------------------------------------------------
(* executeToolCalls.                                                       *)

FirstDecides ==
  toolExecution = "parallel" /\ Len(called) > 1 /\ called[1] # Alone

\* One sequential tool drags the whole batch down to sequential execution.
ShouldRunParallel ==
  /\ toolExecution = "parallel"
  /\ Len(called) > 1
  /\ \A c \in DOMAIN called : called[c] # Alone

\* The answer is recorded; if the run goes on to its calls, a batch begins.
StreamEndsWith(r, n) ==
  /\ StreamEnds(r, n)
  /\ IF pc'[r] = "tools"
     THEN /\ called' \in [1..n -> Tool]
          /\ status' = "running"
          /\ outcomes' = [c \in 1..n |-> [call |-> 0, stop |-> FALSE]]
          /\ batchLog' = <<>>
          /\ results' = <<>>
          /\ terminate' = FALSE
     ELSE UNCHANGED <<called, batchVars>>
  /\ UNCHANGED <<toolExecution, ctxDone, busy, waits>>

\* Sequential execution takes the calls one by one, in order.
MyTurn(c) == ShouldRunParallel \/ (busy = {} /\ c = Len(batchLog) + 1)

Pending(r, c) ==
  /\ pc[r] = "tools"
  /\ status = "running"
  /\ c \in DOMAIN called
  /\ outcomes[c].call = 0
  /\ c \notin busy

HandlerStarts(r, c) ==
  /\ Pending(r, c)
  /\ MyTurn(c)
  /\ busy' = busy \cup {c}
  /\ waits' = [waits EXCEPT ![c] = NoSteer]
  /\ UNCHANGED <<vars, toolExecution, ctxDone, called, batchVars>>

\* The handler calls Steer on the agent that runs it.
HandlerSteers(c, m) ==
  /\ c \in busy
  /\ waits[c] = NoSteer
  /\ steer[m] = "calling"
  /\ \A d \in 1..MaxCalls : waits[d] # m
  /\ waits' = [waits EXCEPT ![c] = m]
  /\ UNCHANGED <<vars, toolExecution, ctxDone, called, busy, batchVars>>

LogsAlways == TRUE
LogsNow == ~ShouldRunParallel

\* The loop has call c's outcome: sequential execution logs it at once.
Settle(r, c) ==
  /\ \E n \in 1..MaxCalls : n = Len(called) /\ Contract(n)!Settle(c)
  /\ status' = "running"
  /\ IF LogsNow
     THEN batchLog' # batchLog /\ toolLog' = Append(toolLog, Entry(r, c))
     ELSE batchLog' = batchLog /\ UNCHANGED toolLog
  /\ logged' = [logged EXCEPT ![r] = Len(batchLog')]
  /\ UNCHANGED <<agentVars, messages, it, inHand, owed, asked, steerVars,
                 resetVars, steering, pc, how, discarded>>
  /\ UNCHANGED <<toolExecution, ctxDone, called, waits>>

Back(c) == waits[c] # NoSteer => steer[waits[c]] # "calling"

HandlerReturns(r, c) ==
  /\ pc[r] = "tools"
  /\ status = "running"
  /\ c \in busy
  /\ Back(c)
  /\ busy' = busy \ {c}
  /\ Settle(r, c)

\* BeforeToolCall blocks the call, or there is no such tool.
Skip(r, c) ==
  /\ Pending(r, c)
  /\ MyTurn(c)
  /\ UNCHANGED busy
  /\ Settle(r, c)

\* An event is refused, BeforeToolCall fails, or the ctx is done.  A handler of
\* a sequential batch runs on the goroutine that would notice.
GiveUp(r) ==
  /\ pc[r] = "tools"
  /\ ShouldRunParallel \/ busy = {}
  /\ \E n \in 1..MaxCalls : n = Len(called) /\ Contract(n)!Abort
  /\ UNCHANGED <<vars, toolExecution, ctxDone, handlerVars>>

\* A handler of a batch that was given up is waited for; nobody takes its outcome.
HandlerEndsLate(c) ==
  /\ status = "aborted"
  /\ c \in busy
  /\ Back(c)
  /\ busy' = busy \ {c}
  /\ UNCHANGED <<vars, toolExecution, ctxDone, called, waits, batchVars>>

BatchGivenUp(r) ==
  /\ status = "aborted"
  /\ busy = {}
  /\ BatchAborts(r)
  /\ UNCHANGED <<toolExecution, ctxDone, handlerVars, batchVars>>

\* Every call has its outcome.  Parallel execution logs them now.
BatchReturns(r) ==
  /\ pc[r] = "tools"
  /\ busy = {}
  /\ \E n \in 1..MaxCalls : n = Len(called) /\ Contract(n)!Return
  /\ toolLog' = IF ShouldRunParallel THEN toolLog \o SourceOrder(r) ELSE toolLog
  /\ logged' = [logged EXCEPT ![r] = Len(called)]
  /\ Goto(r, "results")
  /\ UNCHANGED <<agentVars, messages, it, inHand, owed, asked, steerVars,
                 resetVars, steering, discarded>>
  /\ UNCHANGED <<toolExecution, ctxDone, handlerVars>>

\* RunMessage takes the results; the batch alone says whether the run terminates.
TakeResults(r) ==
  /\ pc[r] = "results"
  /\ AppendResults(r)
  /\ terminate <=> how'[r] = "terminated"
  /\ UNCHANGED <<toolExecution, ctxDone, handlerVars, batchVars>>

-----------------------------------------------------------------------------
(* The rest of the run, and the others, as in AgentLoop.                   *)

OutsideBatch(r) ==
  /\ \/ MarkRunning(r) \/ Refuse(r) \/ Begin(r) \/ MarkIdle(r)
     \/ TakeSteering(r) \/ KeepSteering(r) \/ DiscardSteering(r) \/ DrainEnds(r)
     \/ IterationStart(r) \/ BuildRequest(r) \/ StreamFails(r)
  /\ UNCHANGED <<toolExecution, ctxDone, handlerVars, batchVars>>

\* What a run does of itself; nobody has to give up a batch.
RunGoesOn(r) ==
  \/ OutsideBatch(r)
  \/ \E n \in 0..MaxCalls : StreamEndsWith(r, n)
  \/ \E c \in 1..MaxCalls : HandlerStarts(r, c) \/ HandlerReturns(r, c) \/ Skip(r, c)
  \/ BatchGivenUp(r) \/ BatchReturns(r) \/ TakeResults(r)

RunStep(r) == RunGoesOn(r) \/ GiveUp(r)

Others ==
  /\ \/ \E m \in Steers : Steer(m) \/ SteerGivesUp(m)
     \/ Reset \/ ResetDrains \/ ResetEnds
     \/ Finished
  /\ UNCHANGED <<toolExecution, ctxDone, handlerVars, batchVars>>

\* The caller's ctx may end at any moment, or never: context.Background() does not.
CancelCtx(r) ==
  /\ pc[r] \notin {"refused", "left"}
  /\ r \notin ctxDone
  /\ ctxDone' = ctxDone \cup {r}
  /\ UNCHANGED <<vars, toolExecution, handlerVars, batchVars>>

BatchesNext ==
  \/ \E r \in Runs : RunStep(r) \/ CancelCtx(r)
  \/ \E c \in 1..MaxCalls : HandlerEndsLate(c) \/ \E m \in Steers : HandlerSteers(c, m)
  \/ Others

BatchesSpec == BatchesInit /\ [][BatchesNext]_allVars

\* A handler gives Steer the ctx it was given, which is done once the run's is, or
\* parCancel has run.
HandlerCtxDone ==
  status = "aborted" \/ \E r \in ctxDone : pc[r] = "tools"

\* The select of a handler's Steer has a case that is ready.
SteerReturns ==
  /\ \E c \in busy :
       /\ waits[c] # NoSteer
       /\ Steer(waits[c]) \/ (HandlerCtxDone /\ SteerGivesUp(waits[c]))
  /\ UNCHANGED <<toolExecution, ctxDone, handlerVars, batchVars>>

ResetGoesOn ==
  /\ ResetDrains \/ ResetEnds
  /\ UNCHANGED <<toolExecution, ctxDone, handlerVars, batchVars>>

\* As in AgentLoop, and a handler's Steer returns when its select is ready.  No ctx
\* has to end, nobody has to break; a handler that is not inside Steer returns.
FairBatchesSpec ==
  /\ BatchesSpec
  /\ \A r \in Runs : WF_allVars(RunGoesOn(r))
  /\ WF_allVars(\E c \in 1..MaxCalls : HandlerEndsLate(c))
  /\ WF_allVars(ResetGoesOn)
  /\ WF_allVars(SteerReturns)

-----------------------------------------------------------------------------
\* A tool that asked for sequential execution never runs beside another handler,
\* whatever the other calls of its batch are; and no handler does unless the
\* configuration is parallel.
NeverBesideSequential ==
  \A c \in busy : called[c] = Alone \/ toolExecution # "parallel" => busy = {c}

\* A handler of r waits for room in the channel that only r makes, and r waits for
\* the handler; the ctx is not done.
StuckInSteer(r) ==
  /\ pc[r] = "tools"
  /\ status = "running"
  /\ r \notin ctxDone
  /\ Len(steering) = BufSize
  /\ \E c \in busy : waits[c] # NoSteer /\ steer[waits[c]] = "calling"

\* Every Run returns, unless in the end a handler of its batch is in a Steer on its
\* own agent that finds the channel full, with a ctx that is never done: nothing
\* else a handler's Steer does, in either mode, can keep the run from ending.
RunsEndOrWait ==
  \A r \in Runs : <>(pc[r] \in {"refused", "left"}) \/ <>[]StuckInSteer(r)

\* Where AgentLoop sees a run: it has no phase between the return of a sequential
\* batch, whose calls are in the log by then, and the taking of its results.
Phase ==
  [r \in Runs |-> IF pc[r] = "results" /\ ~ShouldRunParallel THEN "tools" ELSE pc[r]]

\* The loop and its batches together do what AgentLoop says: the phase it has
\* instead of a batch leaves out nothing a batch does to the transcript, the log
\* or the run.
Loop == INSTANCE AgentLoop WITH pc <- Phase
ImplementsAgentLoop == Loop!Spec
=============================================================================

------------------------- MODULE AgentBatchesProofs -------------------------
(***************************************************************************)
(* Proofs about AgentBatches: loop and batches together implement          *)
(* AgentLoop, for any number of runs, calls and Steer calls.  What         *)
(* AgentLoopProofs shows of the loop then holds here, seen through Phase,  *)
(* and helps to show it: LP is that module under the refinement mapping.   *)
(***************************************************************************)
EXTENDS AgentBatches, TLAPS

LP == INSTANCE AgentLoopProofs WITH pc <- Phase

Places == {"new", "refused", "marked", "boundary", "inHand", "iterate",
           "request", "stream", "tools", "results", "leaving", "left"}
Unsettled == [call |-> 0, stop |-> FALSE]

\* What the batch of r has in common with the loop: its calls are those of the
\* transcript's last message; and a sequential batch has an outcome exactly for the
\* calls in its log, and runs at most the handler of the next one.
BatchFacts(r) ==
  /\ pc[r] \in {"tools", "results"} => called \in [1..Batch -> Tool]
  /\ pc[r] = "results" => logged[r] = Batch
  /\ pc[r] = "tools" =>
       /\ batchLog \in Seq([call : Nat, stop : BOOLEAN])
       /\ logged[r] = Len(batchLog)
       /\ outcomes \in [1..Batch -> [call : Nat, stop : BOOLEAN]]
       /\ busy \subseteq 1..Batch
       /\ ShouldRunParallel => batchLog = <<>>
       /\ ~ShouldRunParallel =>
            /\ Len(batchLog) <= Batch
            /\ busy \subseteq {Len(batchLog) + 1}
            /\ \A c \in 1..Batch : outcomes[c] # Unsettled <=> c <= Len(batchLog)

BInv ==
  /\ pc \in [Runs -> Places]
  /\ \A r \in Runs : BatchFacts(r)
  /\ busy # {} => \E r \in Runs : pc[r] = "tools"

-----------------------------------------------------------------------------
(* The refinement mapping.                                                 *)

\* Phase differs from pc at "results" only.
LEMMA PhaseIs ==
  ASSUME NEW r \in Runs
  PROVE  /\ pc[r] # "results" => Phase[r] = pc[r]
         /\ pc[r] = "results" => Phase[r] \in {"tools", "results"}
BY DEF Phase

\* A run that goes on, but not to "results", does so in both views.
LEMMA PhaseGoes ==
  ASSUME BInv, NEW r \in Runs, NEW x \in Places \ {"results"},
         pc' = [pc EXCEPT ![r] = x], UNCHANGED <<called, toolExecution>>
  PROVE  Phase' = [Phase EXCEPT ![r] = x]
BY DEF Phase, BInv, ShouldRunParallel

\* The mapping sees nothing but pc and the choice of the mode.
LEMMA PhaseStays ==
  ASSUME UNCHANGED <<pc, called, toolExecution>>
  PROVE  Phase' = Phase
BY DEF Phase, ShouldRunParallel

\* The actions' way to say so.
LEMMA GotoGoes ==
  ASSUME BInv, NEW r \in Runs, NEW x \in Places \ {"results"}, Goto(r, x),
         UNCHANGED <<called, toolExecution>>
  PROVE  LP!Goto(r, x)
BY PhaseGoes DEF Goto, LP!Goto

\* The same for a run that leaves, and for one that may do either.
LEMMA LeaveGoes ==
  ASSUME BInv, NEW r \in Runs, NEW verdict, Leave(r, verdict),
         UNCHANGED <<called, toolExecution>>
  PROVE  LP!Leave(r, verdict)
BY PhaseGoes DEF Leave, LP!Leave, Places

\* A yield of the composition is one of the loop.
LEMMA YieldGoes ==
  ASSUME BInv, NEW r \in Runs, NEW x \in Places \ {"results"}, Yield(r, x),
         UNCHANGED <<called, toolExecution>>
  PROVE  LP!Yield(r, x)
BY GotoGoes, LeaveGoes DEF Yield, LP!Yield

\* Runs are inside in both views alike, and at most one is.
LEMMA OneInside ==
  ASSUME LP!IInv, BInv, NEW r \in Runs, Inside(r)
  PROVE  running /\ \A s \in Runs : Inside(s) => s = r
<1>1. \A s \in Runs : Inside(s) <=> LP!Inside(s)
  BY PhaseIs DEF Inside, LP!Inside
<1> QED
  BY <1>1 DEF LP!IInv, LP!RunExclusion

\* The last message, while a batch is executed.
LEMMA OpenCalls ==
  ASSUME LP!IInv, BInv, NEW r \in Runs, pc[r] \in {"tools", "results"}
  PROVE  /\ Batch \in 1..MaxCalls
         /\ called \in Seq(Tool) /\ Len(called) = Batch
         /\ logged \in [Runs -> 0..MaxCalls]
<1>1. Phase[r] \in {"tools", "results"}
  BY PhaseIs
<1>2. LP!OpenBatch(r) /\ messages \in Seq(Message) /\ logged \in [Runs -> 0..MaxCalls]
  BY <1>1 DEF LP!IInv, LP!TypeOK, LP!RunState, LP!Message, Message
<1>3. messages[Len(messages)] \in Message /\ messages[Len(messages)].n > 0
  BY <1>2 DEF LP!OpenBatch
<1>4. Batch \in 1..MaxCalls
  BY <1>3, AgentAssumption DEF AgentAssumption, Message, Batch
<1> QED
  BY <1>2, <1>4 DEF BInv, BatchFacts

-----------------------------------------------------------------------------
(* A step of loop and batches is a step of the loop, or a stutter.         *)

\* What a run does between its batches.
LEMMA OutsideSimulates ==
  ASSUME BInv, NEW r \in Runs, OutsideBatch(r)
  PROVE  LP!Step(r)
<1> USE DEF agentVars, recordVars, localVars, steerVars, resetVars, handlerVars,
      LP!agentVars, LP!recordVars, LP!localVars, LP!steerVars, LP!resetVars, Places
<1>1. UNCHANGED <<called, toolExecution>>
  BY DEF OutsideBatch
<1>2. CASE MarkRunning(r)
  BY <1>1, <1>2, PhaseIs, GotoGoes DEF MarkRunning, LP!MarkRunning, LP!Step
<1>3. CASE Refuse(r)
  BY <1>1, <1>3, PhaseIs, GotoGoes
     DEF Refuse, LP!Refuse, RefusedKeeps, LP!RefusedKeeps, LP!Step
<1>4. CASE Begin(r)
  BY <1>1, <1>4, PhaseIs, YieldGoes
     DEF Begin, LP!Begin, Say, LP!Say, AtBoundary, LP!AtBoundary, LP!Step
<1>5. CASE MarkIdle(r)
  BY <1>1, <1>5, PhaseIs, GotoGoes DEF MarkIdle, LP!MarkIdle, LP!Step
<1>6. CASE TakeSteering(r)
  BY <1>1, <1>6, PhaseIs, GotoGoes DEF TakeSteering, LP!TakeSteering, LP!Step
<1>7. CASE KeepSteering(r)
  BY <1>1, <1>7, PhaseIs, YieldGoes DEF KeepSteering, LP!KeepSteering, LP!Step
<1>8. CASE DiscardSteering(r)
  BY <1>1, <1>8, PhaseIs, YieldGoes
     DEF DiscardSteering, LP!DiscardSteering, Forget, LP!Forget, LP!Step
<1>9. CASE DrainEnds(r)
  BY <1>1, <1>9, PhaseIs, GotoGoes
     DEF DrainEnds, LP!DrainEnds, Drained, LP!Drained, LP!Step
<1>10. CASE IterationStart(r)
  BY <1>1, <1>10, PhaseIs, YieldGoes DEF IterationStart, LP!IterationStart, LP!Step
<1>11. CASE BuildRequest(r)
  BY <1>1, <1>11, PhaseIs, YieldGoes DEF BuildRequest, LP!BuildRequest, LP!Step
<1>12. CASE StreamFails(r)
  BY <1>1, <1>12, PhaseIs, LeaveGoes DEF StreamFails, LP!StreamFails, LP!Step
<1> QED
  BY <1>2, <1>3, <1>4, <1>5, <1>6, <1>7, <1>8, <1>9, <1>10, <1>11, <1>12
     DEF OutsideBatch

\* A batch begins while no other run is at the results of one: the mode that is
\* chosen for it changes nobody else's phase.
LEMMA StreamSimulates ==
  ASSUME LP!IInv, BInv, NEW r \in Runs, NEW n \in 0..MaxCalls, StreamEndsWith(r, n)
  PROVE  LP!StreamEnds(r, n)
<1> USE DEF agentVars, recordVars, localVars, steerVars, resetVars, handlerVars,
      LP!agentVars, LP!recordVars, LP!localVars, LP!steerVars, LP!resetVars, Places
<1>1. /\ pc[r] = "stream" /\ Phase[r] = "stream"
      /\ StreamEnds(r, n) /\ UNCHANGED toolExecution
  BY PhaseIs DEF StreamEndsWith, StreamEnds
<1>2. \A s \in Runs \ {r} : pc[s] # "results"
  BY <1>1, OneInside DEF Inside
<1>3. LP!Say(r, "assistant", n)
  BY <1>1 DEF StreamEnds, Say, LP!Say
<1>4. ASSUME NEW x \in {"leaving", "tools"}, pc' = [pc EXCEPT ![r] = x]
      PROVE  Phase' = [Phase EXCEPT ![r] = x]
  <2>1. \A s \in Runs : Phase'[s] = [Phase EXCEPT ![r] = x][s]
    BY <1>1, <1>2, <1>4 DEF Phase, BInv
  <2> QED
    BY <2>1 DEF Phase
<1>5. ASSUME NEW verdict, Leave(r, verdict) PROVE LP!Leave(r, verdict)
  BY <1>4, <1>5 DEF Leave, LP!Leave
<1>6. ASSUME Goto(r, "tools") PROVE LP!Goto(r, "tools")
  BY <1>4, <1>6 DEF Goto, LP!Goto
<1> QED
  BY <1>1, <1>3, <1>5, <1>6 DEF StreamEnds, LP!StreamEnds

\* An outcome: a sequential batch logs it, as LogCall does; a parallel one keeps it.
LEMMA SettleSimulates ==
  ASSUME LP!IInv, BInv, NEW r \in Runs, pc[r] = "tools", NEW c \in 1..Batch,
         Settle(r, c)
  PROVE  LP!LogCall(r) \/ UNCHANGED LP!vars
<1> USE DEF agentVars, recordVars, localVars, steerVars, resetVars, handlerVars,
      LP!agentVars, LP!recordVars, LP!localVars, LP!steerVars, LP!resetVars
<1>1. /\ Batch \in 1..MaxCalls /\ logged \in [Runs -> 0..MaxCalls]
      /\ logged[r] = Len(batchLog) /\ batchLog \in Seq([call : Nat, stop : BOOLEAN])
  BY OpenCalls DEF BInv, BatchFacts
<1>2. Phase' = Phase /\ Phase[r] = "tools"
  BY PhaseIs, PhaseStays DEF Settle
<1>3. CASE ShouldRunParallel
  <2>1. logged' = logged
    BY <1>1, <1>3 DEF Settle, LogsNow
  <2> QED
    BY <1>2, <1>3, <2>1 DEF Settle, LogsNow, LP!vars
<1>4. CASE ~ShouldRunParallel
  <2>1. Len(batchLog) = c - 1 /\ batchLog' = Append(batchLog, outcomes'[c])
    BY <1>4 DEF Settle, LogsNow, Contract!Settle
  <2>2. Len(batchLog') = Len(batchLog) + 1
    BY <1>1, <2>1
  <2>3. logged[r] + 1 = c /\ logged' = [logged EXCEPT ![r] = @ + 1] /\ logged[r] < Batch
    BY <1>1, <2>1, <2>2 DEF Settle
  <2>4. toolLog' = Append(toolLog, LP!Entry(r, logged[r] + 1))
    BY <1>4, <2>3 DEF Settle, LogsNow, Entry, LP!Entry
  <2>5. logged[r] < LP!Batch
    BY <2>3 DEF Batch, LP!Batch
  <2> QED
    BY <1>2, <2>3, <2>4, <2>5 DEF Settle, LP!LogCall
<1> QED
  BY <1>3, <1>4

\* The batch returns: a parallel one is logged here, a sequential one is already.
LEMMA ReturnSimulates ==
  ASSUME LP!IInv, BInv, NEW r \in Runs, BatchReturns(r)
  PROVE  LP!LogBatch(r) \/ UNCHANGED LP!vars
<1> USE DEF agentVars, recordVars, localVars, steerVars, resetVars, handlerVars,
      LP!agentVars, LP!recordVars, LP!localVars, LP!steerVars, LP!resetVars
<1>1. /\ pc[r] = "tools" /\ Phase[r] = "tools"
      /\ pc' = [pc EXCEPT ![r] = "results"] /\ UNCHANGED <<how, called, toolExecution>>
  BY PhaseIs DEF BatchReturns, Goto
<1>2. /\ Batch \in 1..MaxCalls /\ logged \in [Runs -> 0..MaxCalls] /\ Len(called) = Batch
      /\ pc \in [Runs -> Places] /\ BatchFacts(r)
  BY <1>1, OpenCalls DEF BInv
<1>3. logged' = [logged EXCEPT ![r] = Batch]
  BY <1>2 DEF BatchReturns
<1>4. CASE ShouldRunParallel
  <2>1. Phase' = [Phase EXCEPT ![r] = "results"]
    BY <1>1, <1>2, <1>4 DEF Phase, ShouldRunParallel
  <2>2. logged[r] = 0 /\ Batch > 1
    BY <1>1, <1>2, <1>4 DEF BatchFacts, ShouldRunParallel
  <2>3. toolLog' = toolLog \o LP!SourceOrder(r)
    BY <1>4 DEF BatchReturns, SourceOrder, LP!SourceOrder, Entry, LP!Entry, Batch,
       LP!Batch
  <2> QED
    BY <1>1, <1>3, <2>1, <2>2, <2>3
       DEF BatchReturns, LP!LogBatch, LP!Goto, Batch, LP!Batch
<1>5. CASE ~ShouldRunParallel
  <2>1. Phase' = Phase
    BY <1>1, <1>2, <1>5 DEF Phase, ShouldRunParallel
  <2>2. \A c \in 1..Batch : outcomes[c] # Unsettled
    BY <1>2 DEF BatchReturns, Contract!Return, Contract!Call, Contract!NoOutcome,
       Unsettled
  <2>3. Batch <= Len(batchLog) /\ Len(batchLog) <= Batch /\ logged[r] = Len(batchLog)
    BY <1>1, <1>2, <1>5, <2>2 DEF BatchFacts
  <2>4. logged[r] = Batch
    BY <1>1, <1>2, <2>3 DEF BatchFacts
  <2>5. logged' = logged
    BY <1>2, <1>3, <2>4
  <2> QED
    BY <1>1, <1>5, <2>1, <2>5 DEF BatchReturns, LP!vars
<1> QED
  BY <1>4, <1>5

\* The results are taken where the loop is, in its view, in or behind its batch.
LEMMA TakeSimulates ==
  ASSUME LP!IInv, BInv, NEW r \in Runs, TakeResults(r)
  PROVE  LP!AppendResults(r)
<1> USE DEF agentVars, recordVars, localVars, steerVars, resetVars, handlerVars,
      LP!agentVars, LP!recordVars, LP!localVars, LP!steerVars, LP!resetVars, Places
<1>1. /\ AppendResults(r) /\ UNCHANGED <<called, toolExecution>>
      /\ Phase[r] \in {"tools", "results"}
  BY PhaseIs DEF TakeResults
<1>2. SayResults(r) => LP!SayResults(r)
  BY DEF SayResults, LP!SayResults, Say, LP!Say
<1>3. \A verdict : Leave(r, verdict) => LP!Leave(r, verdict)
  BY <1>1, LeaveGoes
<1>4. Goto(r, "boundary") => LP!Goto(r, "boundary")
  BY <1>1, GotoGoes
<1> QED
  BY <1>1, <1>2, <1>3, <1>4
     DEF AppendResults, LP!AppendResults, NotLast, LP!NotLast, AtBoundary,
         LP!AtBoundary, Batch, LP!Batch

\* Steer, Reset and the end of everything do not touch runs or batches.
LEMMA OthersSimulate ==
  ASSUME Others
  PROVE  LP!Next
<1> USE DEF agentVars, recordVars, localVars, steerVars, resetVars, handlerVars,
      LP!agentVars, LP!recordVars, LP!localVars, LP!steerVars, LP!resetVars
<1>1. UNCHANGED <<called, toolExecution>>
  BY DEF Others
<1>2. ASSUME NEW m \in Steers, Steer(m) PROVE LP!Steer(m)
  BY <1>1, <1>2, PhaseStays DEF Steer, LP!Steer, Push, LP!Push
<1>3. ASSUME NEW m \in Steers, SteerGivesUp(m) PROVE LP!SteerGivesUp(m)
  BY <1>1, <1>3, PhaseStays DEF SteerGivesUp, LP!SteerGivesUp
<1>4. CASE Reset
  BY <1>1, <1>4, PhaseStays DEF Reset, LP!Reset, MayReset, LP!MayReset, LP!Next
<1>5. CASE ResetDrains
  BY <1>1, <1>5, PhaseStays DEF ResetDrains, LP!ResetDrains, LP!Next
<1>6. CASE ResetEnds
  BY <1>1, <1>6, PhaseStays
     DEF ResetEnds, LP!ResetEnds, NothingLeft, LP!NothingLeft, LP!Next
<1>7. CASE Finished
  BY <1>1, <1>7, PhaseStays, PhaseIs DEF Finished, LP!Finished, vars, LP!vars, LP!Next
<1> QED
  BY <1>2, <1>3, <1>4, <1>5, <1>6, <1>7 DEF Others, LP!Next

\* What happens inside a batch before it has an outcome stays inside.
LEMMA HiddenSteps ==
  ASSUME UNCHANGED <<vars, called, toolExecution>>
  PROVE  UNCHANGED LP!vars
<1> USE DEF agentVars, recordVars, localVars, steerVars, resetVars,
      LP!agentVars, LP!recordVars, LP!localVars, LP!steerVars, LP!resetVars
<1> QED
  BY PhaseStays DEF vars, LP!vars

\* Every step of loop and batches, seen through Phase.
LEMMA StepSimulates ==
  ASSUME LP!IInv, BInv, [BatchesNext]_allVars
  PROVE  [LP!Next]_LP!vars
<1> USE DEF agentVars, recordVars, localVars, steerVars, resetVars, handlerVars,
      LP!agentVars, LP!recordVars, LP!localVars, LP!steerVars, LP!resetVars, Places
<1>1. ASSUME NEW r \in Runs, OutsideBatch(r) PROVE LP!Step(r)
  BY <1>1, OutsideSimulates
<1>2. ASSUME NEW r \in Runs, NEW n \in 0..MaxCalls, StreamEndsWith(r, n)
      PROVE  LP!Step(r)
  BY <1>2, StreamSimulates DEF LP!Step
<1>3. ASSUME NEW r \in Runs, NEW c \in 1..MaxCalls, HandlerReturns(r, c) \/ Skip(r, c)
      PROVE  LP!Step(r) \/ UNCHANGED LP!vars
  <2>1. pc[r] = "tools" /\ Settle(r, c) /\ c \in busy \cup DOMAIN called
    BY <1>3 DEF HandlerReturns, Skip, Pending
  <2>2. c \in 1..Batch
    BY <2>1, OpenCalls DEF BInv, BatchFacts
  <2> QED
    BY <2>1, <2>2, SettleSimulates DEF LP!Step
<1>4. ASSUME NEW r \in Runs, BatchGivenUp(r) PROVE LP!Step(r)
  <2>1. LP!BatchAborts(r)
    BY <1>4, PhaseIs, LeaveGoes DEF BatchGivenUp, BatchAborts, LP!BatchAborts
  <2> QED
    BY <2>1 DEF LP!Step
<1>5. ASSUME NEW r \in Runs, BatchReturns(r) PROVE LP!Step(r) \/ UNCHANGED LP!vars
  BY <1>5, ReturnSimulates DEF LP!Step
<1>6. ASSUME NEW r \in Runs, TakeResults(r) PROVE LP!Step(r)
  BY <1>6, TakeSimulates DEF LP!Step
<1>7. ASSUME NEW r \in Runs, NEW c \in 1..MaxCalls, HandlerStarts(r, c)
      PROVE  UNCHANGED LP!vars
  BY <1>7, HiddenSteps DEF HandlerStarts
<1>8. ASSUME NEW r \in Runs, GiveUp(r) PROVE UNCHANGED LP!vars
  BY <1>8, HiddenSteps DEF GiveUp
<1>9. ASSUME NEW c \in 1..MaxCalls, HandlerEndsLate(c) PROVE UNCHANGED LP!vars
  BY <1>9, HiddenSteps DEF HandlerEndsLate
<1>10. ASSUME NEW c \in 1..MaxCalls, NEW m \in Steers, HandlerSteers(c, m)
       PROVE  UNCHANGED LP!vars
  BY <1>10, HiddenSteps DEF HandlerSteers
<1>11. CASE UNCHANGED allVars
  BY <1>11, HiddenSteps DEF allVars
<1>12. ASSUME NEW r \in Runs, RunStep(r) PROVE LP!Step(r) \/ UNCHANGED LP!vars
  BY <1>1, <1>2, <1>3, <1>4, <1>5, <1>6, <1>7, <1>8, <1>12 DEF RunStep, RunGoesOn
<1>13. ASSUME NEW r \in Runs, CancelCtx(r) PROVE UNCHANGED LP!vars
  BY <1>13, HiddenSteps DEF CancelCtx
<1> QED
  BY <1>9, <1>10, <1>11, <1>12, <1>13, OthersSimulate DEF BatchesNext, LP!Next

\* LP and Loop instantiate the same loop.
LEMMA SameLoop ==
  /\ LP!Init <=> Loop!Init
  /\ [LP!Next]_LP!vars <=> [Loop!Next]_Loop!vars
  BY DEF LP!Init, Loop!Init, LP!Next, Loop!Next, LP!Step, Loop!Step, LP!vars,
         Loop!vars, LP!agentVars, Loop!agentVars, LP!recordVars,
         Loop!recordVars, LP!localVars, Loop!localVars, LP!steerVars,
         Loop!steerVars, LP!resetVars, Loop!resetVars, LP!Goto, Loop!Goto,
         LP!Leave, Loop!Leave, LP!Yield, Loop!Yield, LP!Say, Loop!Say,
         LP!AtBoundary, Loop!AtBoundary, LP!Batch, Loop!Batch, LP!MarkRunning,
         Loop!MarkRunning, LP!RefusedKeeps, Loop!RefusedKeeps, LP!Refuse,
         Loop!Refuse, LP!Begin, Loop!Begin, LP!MarkIdle, Loop!MarkIdle,
         LP!TakeSteering, Loop!TakeSteering, LP!KeepSteering,
         Loop!KeepSteering, LP!Forget, Loop!Forget, LP!DiscardSteering,
         Loop!DiscardSteering, LP!Drained, Loop!Drained, LP!DrainEnds,
         Loop!DrainEnds, LP!IterationStart, Loop!IterationStart,
         LP!BuildRequest, Loop!BuildRequest, LP!StreamFails, Loop!StreamFails,
         LP!StreamEnds, Loop!StreamEnds, LP!Entry, Loop!Entry, LP!LogCall,
         Loop!LogCall, LP!SourceOrder, Loop!SourceOrder, LP!LogBatch,
         Loop!LogBatch, LP!BatchAborts, Loop!BatchAborts, LP!SayResults,
         Loop!SayResults, LP!NotLast, Loop!NotLast, LP!AppendResults,
         Loop!AppendResults, LP!Push, Loop!Push, LP!Steer, Loop!Steer,
         LP!SteerGivesUp, Loop!SteerGivesUp, LP!MayReset, Loop!MayReset,
         LP!Reset, Loop!Reset, LP!ResetDrains, Loop!ResetDrains,
         LP!NothingLeft, Loop!NothingLeft, LP!ResetEnds, Loop!ResetEnds,
         LP!Finished, Loop!Finished

-----------------------------------------------------------------------------
(* The facts about batches are inductive, given those about the loop.      *)

\* There is no batch in the beginning.
LEMMA InitBInv == BatchesInit => BInv
  BY DEF BatchesInit, Init, BInv, Places, BatchFacts

\* In the beginning, every run is at the same place in both views.
LEMMA InitMaps == BatchesInit => LP!Init
<1> SUFFICES ASSUME BatchesInit PROVE LP!Init
  OBVIOUS
<1>1. Phase = [r \in Runs |-> "new"]
  BY DEF BatchesInit, Init, Phase
<1> QED
  BY <1>1 DEF BatchesInit, Init, LP!Init

\* A run that is inside, and neither enters nor keeps a batch, leaves none behind.
LEMMA NoBatch ==
  ASSUME LP!IInv, BInv, NEW r \in Runs, Inside(r),
         NEW x \in Places \ {"tools", "results"}, pc' = [pc EXCEPT ![r] = x],
         busy' = {}
  PROVE  BInv'
<1>1. \A s \in Runs : pc'[s] \notin {"tools", "results"}
  BY OneInside DEF BInv, Inside
<1>2. \A s \in Runs : BatchFacts(s)'
  BY <1>1 DEF BatchFacts
<1> QED
  BY <1>2 DEF BInv

\* The batch of the run that is inside is the only one.
LEMMA OwnBatch ==
  ASSUME LP!IInv, BInv, NEW r \in Runs, Inside(r),
         NEW x \in {"tools", "results"}, pc' = [pc EXCEPT ![r] = x],
         BatchFacts(r)', busy' # {} => x = "tools"
  PROVE  BInv'
<1>1. \A s \in Runs \ {r} : pc'[s] \notin {"tools", "results"}
  BY OneInside DEF BInv, Inside
<1>2. \A s \in Runs : BatchFacts(s)'
  BY <1>1 DEF BatchFacts
<1> QED
  BY <1>2 DEF BInv, Places

\* While no run executes a batch, no handler runs.
LEMMA Idle ==
  ASSUME LP!IInv, BInv, NEW r \in Runs, Inside(r), pc[r] # "tools"
  PROVE  busy = {}
  BY OneInside DEF BInv, Inside

\* Between batches nothing is known of one, and nothing needs to be.
LEMMA OutsideKeeps ==
  ASSUME LP!IInv, BInv, NEW r \in Runs, OutsideBatch(r)
  PROVE  BInv'
<1> USE DEF agentVars, recordVars, localVars, handlerVars, batchVars, Goto, Leave,
      Yield
<1>1. UNCHANGED <<called, busy, batchLog, outcomes, toolExecution>>
  BY DEF OutsideBatch
<1>2. ASSUME MarkRunning(r) \/ Refuse(r) PROVE BInv'
  <2>1. /\ pc[r] = "new"
        /\ \E x \in {"marked", "refused"} : pc' = [pc EXCEPT ![r] = x]
        /\ UNCHANGED <<messages, logged>>
    BY <1>2 DEF MarkRunning, Refuse
  <2>2. pc' \in [Runs -> Places] /\ \A s \in Runs : pc[s] = "tools" => pc'[s] = "tools"
    BY <2>1 DEF BInv, Places
  <2>3. \A s \in Runs : BatchFacts(s)'
    BY <1>1, <2>1 DEF BInv, BatchFacts, Batch, ShouldRunParallel
  <2> QED
    BY <1>1, <2>2, <2>3 DEF BInv
<1>3. ASSUME ~MarkRunning(r), ~Refuse(r) PROVE BInv'
  <2>1. /\ pc[r] \in {"marked", "leaving", "boundary", "inHand", "iterate", "request",
                    "stream"}
        /\ \E x \in Places \ {"tools", "results"} : pc' = [pc EXCEPT ![r] = x]
    BY <1>3 DEF OutsideBatch, Begin, MarkIdle, TakeSteering, KeepSteering,
       DiscardSteering, DrainEnds, IterationStart, BuildRequest, StreamFails, Places
  <2>2. Inside(r) /\ pc[r] # "tools"
    BY <2>1 DEF Inside
  <2> QED
    BY <1>1, <2>1, <2>2, Idle, NoBatch
<1> QED
  BY <1>2, <1>3

\* The batch that begins has the calls of the answer just appended.
LEMMA StreamKeeps ==
  ASSUME LP!IInv, BInv, NEW r \in Runs, NEW n \in 0..MaxCalls, StreamEndsWith(r, n)
  PROVE  BInv'
<1>1. /\ pc[r] = "stream" /\ Inside(r) /\ busy' = {}
  BY Idle DEF StreamEndsWith, StreamEnds, Inside
<1>2. CASE pc'[r] # "tools"
  <2>1. pc' = [pc EXCEPT ![r] = "leaving"]
    BY <1>1, <1>2 DEF StreamEndsWith, StreamEnds, Goto, Leave, BInv
  <2> QED
    BY <1>1, <2>1, NoBatch DEF Places
<1>3. CASE pc'[r] = "tools"
  <2>1. n > 0 /\ pc' = [pc EXCEPT ![r] = "tools"]
    BY <1>1, <1>3 DEF StreamEndsWith, StreamEnds, Goto, Leave, BInv
  <2>2. messages \in Seq(Message)
    BY DEF LP!IInv, LP!TypeOK, LP!Message, Message
  <2>3. Batch' = n
    BY <1>1, <2>2 DEF StreamEndsWith, StreamEnds, Say, Batch
  <2>4. logged \in [Runs -> 0..MaxCalls] /\ logged' = [logged EXCEPT ![r] = 0]
    BY DEF StreamEndsWith, StreamEnds, LP!IInv, LP!TypeOK
  <2>5. /\ called' \in [1..n -> Tool] /\ batchLog' = <<>>
        /\ outcomes' = [c \in 1..n |-> Unsettled]
    BY <1>3 DEF StreamEndsWith, Unsettled
  <2>6. BatchFacts(r)'
    BY <1>1, <2>1, <2>3, <2>4, <2>5 DEF BatchFacts, Unsettled
  <2> QED
    BY <1>1, <2>1, <2>6, OwnBatch
<1> QED
  BY <1>2, <1>3

\* A sequential batch starts a handler only where none runs.
LEMMA HandlerStartsKeeps ==
  ASSUME LP!IInv, BInv, NEW r \in Runs, NEW c \in 1..MaxCalls, HandlerStarts(r, c)
  PROVE  BInv'
<1>1. /\ pc[r] = "tools" /\ Inside(r) /\ BatchFacts(r) /\ c \in DOMAIN called
  BY DEF HandlerStarts, Pending, Inside, BInv
<1>2. c \in 1..Batch
  BY <1>1 DEF BatchFacts
<1>3. /\ UNCHANGED <<pc, messages, logged, called, batchLog, outcomes, toolExecution>>
      /\ busy' = busy \cup {c}
      /\ ~ShouldRunParallel => busy = {} /\ c = Len(batchLog) + 1
  BY DEF HandlerStarts, MyTurn, vars, recordVars, localVars, batchVars
<1>4. Batch' = Batch /\ ShouldRunParallel' = ShouldRunParallel
  BY <1>3 DEF Batch, ShouldRunParallel
<1>5. /\ busy' \subseteq 1..Batch
      /\ ~ShouldRunParallel => busy' \subseteq {Len(batchLog) + 1}
  <2>1. /\ busy \subseteq 1..Batch
        /\ ~ShouldRunParallel => busy' = {Len(batchLog) + 1}
    BY <1>1, <1>3 DEF BatchFacts
  <2> QED
    BY <1>2, <1>3, <2>1
<1>6. BatchFacts(r)'
  BY <1>1, <1>3, <1>4, <1>5 DEF BatchFacts
<1>7. pc' = [pc EXCEPT ![r] = "tools"]
  BY <1>1, <1>3 DEF BInv
<1> QED
  BY <1>1, <1>6, <1>7, OwnBatch

\* An outcome is added where there was none; sequential execution was at that call.
LEMMA SettleKeeps ==
  ASSUME LP!IInv, BInv, NEW r \in Runs, NEW c \in 1..MaxCalls,
         HandlerReturns(r, c) \/ Skip(r, c)
  PROVE  BInv'
<1>1. /\ pc[r] = "tools" /\ Inside(r) /\ BatchFacts(r) /\ Settle(r, c)
      /\ called \in [1..Batch -> Tool]
  BY DEF HandlerReturns, Skip, Pending, Inside, BInv, BatchFacts
<1>2. /\ busy' = busy \ {c} /\ c \in 1..Batch
      /\ ~ShouldRunParallel => busy \subseteq {c} /\ c = Len(batchLog) + 1
  BY <1>1 DEF HandlerReturns, Skip, Pending, MyTurn, BatchFacts
<1>3. /\ UNCHANGED <<pc, messages, called, toolExecution>>
      /\ logged' = [logged EXCEPT ![r] = Len(batchLog')]
  BY <1>1 DEF Settle
<1>4. Batch' = Batch /\ ShouldRunParallel' = ShouldRunParallel
  BY <1>3 DEF Batch, ShouldRunParallel
<1>5. PICK stop \in BOOLEAN :
        outcomes' = [outcomes EXCEPT ![c] = [call |-> c, stop |-> stop]]
  BY <1>1 DEF Settle, Contract!Settle
<1>6. /\ outcomes \in [1..Batch -> [call : Nat, stop : BOOLEAN]] /\ c \in Nat
      /\ batchLog \in Seq([call : Nat, stop : BOOLEAN])
      /\ logged[r] = Len(batchLog) /\ r \in DOMAIN logged
  BY <1>1, <1>2, OpenCalls DEF BatchFacts
<1>7. /\ outcomes' \in [1..Batch -> [call : Nat, stop : BOOLEAN]]
      /\ outcomes'[c] \in [call : Nat, stop : BOOLEAN] /\ outcomes'[c] # Unsettled
      /\ \A d \in (1..Batch) \ {c} : outcomes'[d] = outcomes[d]
  BY <1>2, <1>5, <1>6 DEF Unsettled
<1>8. logged'[r] = Len(batchLog')
  BY <1>3, <1>6
<1>9. ASSUME ShouldRunParallel PROVE BatchFacts(r)'
  <2>1. batchLog' = <<>>
    BY <1>1, <1>9 DEF Settle, LogsNow, BatchFacts
  <2> QED
    BY <1>1, <1>2, <1>3, <1>4, <1>7, <1>8, <1>9, <2>1 DEF BatchFacts
<1>10. ASSUME ~ShouldRunParallel PROVE BatchFacts(r)'
  <2>1. batchLog' = Append(batchLog, outcomes'[c])
    BY <1>1, <1>10 DEF Settle, LogsNow, Contract!Settle
  <2>2. /\ batchLog' \in Seq([call : Nat, stop : BOOLEAN])
        /\ Len(batchLog') = c /\ c <= Batch
    BY <1>2, <1>6, <1>7, <1>10, <2>1
  <2>3. \A d \in 1..Batch : outcomes'[d] # Unsettled <=> d <= Len(batchLog')
    <3> SUFFICES ASSUME NEW d \in 1..Batch PROVE outcomes'[d] # Unsettled <=> d <= c
      BY <2>2
    <3>1. CASE d = c
      BY <1>7, <3>1
    <3>2. CASE d # c
      BY <1>1, <1>2, <1>6, <1>7, <1>10, <3>2 DEF BatchFacts
    <3> QED
      BY <3>1, <3>2
  <2>4. busy' = {}
    BY <1>2, <1>10
  <2> QED
    BY <1>1, <1>3, <1>4, <1>7, <1>8, <1>10, <2>2, <2>3, <2>4 DEF BatchFacts
<1>11. pc' = [pc EXCEPT ![r] = "tools"]
  BY <1>1, <1>3 DEF BInv
<1>12. BatchFacts(r)'
  BY <1>9, <1>10
<1> QED
  BY <1>1, <1>11, <1>12, OwnBatch

\* A batch that returns has logged all calls of its message.
LEMMA ReturnKeeps ==
  ASSUME LP!IInv, BInv, NEW r \in Runs, BatchReturns(r)
  PROVE  BInv'
<1>1. /\ pc[r] = "tools" /\ Inside(r) /\ busy' = {} /\ pc' = [pc EXCEPT ![r] = "results"]
      /\ UNCHANGED <<messages, called>> /\ logged' = [logged EXCEPT ![r] = Len(called)]
  BY DEF BatchReturns, Inside, Goto, handlerVars
<1>2. called \in [1..Batch -> Tool] /\ Len(called) = Batch /\ r \in DOMAIN logged
  BY <1>1, OpenCalls DEF BInv, BatchFacts
<1>3. Batch' = Batch /\ logged'[r] = Batch
  BY <1>1, <1>2 DEF Batch
<1>4. BatchFacts(r)'
  BY <1>1, <1>2, <1>3 DEF BatchFacts, BInv
<1> QED
  BY <1>1, <1>4, OwnBatch

\* Steps that leave the run with its batch, or take a handler away.
LEMMA SameBatch ==
  ASSUME BInv, busy' \subseteq busy,
         UNCHANGED <<pc, messages, logged, called, batchLog, outcomes, toolExecution>>
  PROVE  BInv'
<1>1. Batch' = Batch /\ ShouldRunParallel' = ShouldRunParallel
  BY DEF Batch, ShouldRunParallel
<1>2. ASSUME NEW r \in Runs PROVE BatchFacts(r)'
  BY <1>1, <1>2 DEF BInv, BatchFacts
<1> QED
  BY <1>2 DEF BInv

\* Reset needs an idle agent; nobody else comes near a batch.
LEMMA OthersKeep ==
  ASSUME LP!IInv, BInv, Others
  PROVE  BInv'
<1> USE DEF agentVars, recordVars, localVars, handlerVars, batchVars
<1>1. UNCHANGED <<pc, logged, called, batchLog, outcomes, toolExecution, busy>>
  BY DEF Others, Steer, SteerGivesUp, Reset, ResetDrains, ResetEnds, Finished, vars
<1>2. CASE Reset
  <2>1. \A r \in Runs : ~Inside(r)
    BY <1>2, OneInside DEF Reset, MayReset
  <2>2. \A r \in Runs : BatchFacts(r)'
    BY <1>1, <2>1 DEF BatchFacts, Inside
  <2> QED
    BY <1>1, <2>2 DEF BInv
<1>3. CASE UNCHANGED messages
  BY <1>1, <1>3, SameBatch
<1> QED
  BY <1>2, <1>3 DEF Others, Steer, SteerGivesUp, ResetDrains, ResetEnds, Finished, vars

\* Action by action.
LEMMA BInvStep ==
  ASSUME LP!IInv, BInv, [BatchesNext]_allVars
  PROVE  BInv'
<1> USE DEF agentVars, recordVars, localVars, handlerVars, batchVars
<1>1. ASSUME NEW r \in Runs, GiveUp(r) PROVE BInv'
  BY <1>1, SameBatch DEF GiveUp, Contract!Abort, vars
<1>2. ASSUME NEW r \in Runs, BatchGivenUp(r) PROVE BInv'
  BY <1>2, NoBatch DEF BatchGivenUp, BatchAborts, Leave, Inside, Places
<1>3. ASSUME NEW r \in Runs, TakeResults(r) PROVE BInv'
  <2>1. pc[r] = "results" /\ Inside(r) /\ busy' = {}
    BY <1>3, Idle DEF TakeResults, Inside
  <2>2. \E x \in {"leaving", "boundary"} : pc' = [pc EXCEPT ![r] = x]
    BY <1>3 DEF TakeResults, AppendResults, Goto, Leave
  <2> QED
    BY <2>1, <2>2, NoBatch DEF Places
<1>4. ASSUME NEW c \in 1..MaxCalls, HandlerEndsLate(c) PROVE BInv'
  BY <1>4, SameBatch DEF HandlerEndsLate, vars
<1>5. ASSUME NEW c \in 1..MaxCalls, NEW m \in Steers, HandlerSteers(c, m) PROVE BInv'
  BY <1>5, SameBatch DEF HandlerSteers, vars
<1>6. CASE UNCHANGED allVars
  BY <1>6, SameBatch DEF allVars, vars
<1>7. ASSUME NEW r \in Runs, RunStep(r) PROVE BInv'
  BY <1>1, <1>2, <1>3, <1>7, OutsideKeeps, StreamKeeps, HandlerStartsKeeps,
     SettleKeeps, ReturnKeeps DEF RunStep, RunGoesOn
<1>8. ASSUME NEW r \in Runs, CancelCtx(r) PROVE BInv'
  BY <1>8, SameBatch DEF CancelCtx, vars
<1> QED
  BY <1>4, <1>5, <1>6, <1>7, <1>8, OthersKeep DEF BatchesNext

\* What is known of the loop and of its batch, together.
LEMMA BatchesInductive == BatchesSpec => [](LP!IInv /\ BInv)
<1>1. BatchesInit => LP!IInv /\ BInv
  BY InitBInv, InitMaps, LP!InitIInv, AgentAssumption
<1>2. LP!IInv /\ BInv /\ [BatchesNext]_allVars => LP!IInv' /\ BInv'
  BY StepSimulates, BInvStep, LP!NextIInv, AgentAssumption
<1> QED
  BY <1>1, <1>2, PTL DEF BatchesSpec

-----------------------------------------------------------------------------
\* The loop with its batches, whichever mode each is executed in and whatever its
\* handlers do, does what AgentLoop says, for any number of runs and calls.
THEOREM BatchesImplementLoop == BatchesSpec => ImplementsAgentLoop
<1>1. BatchesInit => Loop!Init
  BY InitMaps, SameLoop
<1>2. LP!IInv /\ BInv /\ [BatchesNext]_allVars => [Loop!Next]_Loop!vars
  BY StepSimulates, SameLoop
<1> QED
  BY <1>1, <1>2, BatchesInductive, PTL DEF BatchesSpec, ImplementsAgentLoop, Loop!Spec

\* No handler runs beside that of a tool that asked for sequential execution.
THEOREM SequentialRunsAlone == BatchesSpec => []NeverBesideSequential
<1>1. BInv => NeverBesideSequential
  <2> SUFFICES ASSUME BInv, NEW c \in busy,
                      called[c] = Alone \/ toolExecution # "parallel"
               PROVE  busy = {c}
    BY DEF NeverBesideSequential
  <2>1. PICK r \in Runs : pc[r] = "tools"
    BY DEF BInv
  <2>2. BatchFacts(r) /\ busy \subseteq 1..Batch /\ DOMAIN called = 1..Batch
    BY <2>1 DEF BInv, BatchFacts
  <2>3. ~ShouldRunParallel
    BY <2>2 DEF ShouldRunParallel
  <2> QED
    BY <2>1, <2>2, <2>3 DEF BatchFacts
<1> QED
  BY <1>1, BatchesInductive, PTL

\* What does not mention the phase is the same in both views.
LEMMA SameViews ==
  /\ \A kind : LP!Entries(kind) = Entries(kind)
  /\ \A r : LP!Mine(r) = Mine(r)
  /\ \A i : LP!Answered(i) <=> Answered(i)
  /\ \A S : LP!Cardinality(S) = Cardinality(S)
  /\ \A S, i : LP!Rank(S, i) = Rank(S, i)
  /\ \A m : LP!Position(m) = Position(m)
  /\ \A i, k : LP!Issued(i, k) <=> Issued(i, k)
<1>1. \A kind : LP!Entries(kind) = Entries(kind)
  BY DEF Entries, LP!Entries
<1>2. \A r : LP!Mine(r) = Mine(r)
  BY <1>1, Zenon DEF Mine, LP!Mine
<1>3. \A i : LP!Answered(i) <=> Answered(i)
  BY Zenon DEF Answered, LP!Answered
<1>4. /\ \A S : LP!Cardinality(S) = Cardinality(S)
      /\ \A S, i : LP!Rank(S, i) = Rank(S, i)
  <2>1. \A S : LP!Cardinality(S) = Cardinality(S)
    BY Zenon DEF Cardinality, LP!Cardinality
  <2>2. \A S, i : LP!Rank(S, i) = LP!Cardinality({j \in S : j <= i})
    BY Zenon DEF LP!Rank
  <2> QED
    BY <2>1, <2>2, Zenon DEF Rank
<1>5. \A m : LP!Position(m) = Position(m)
  BY Zenon DEF Position, LP!Position
<1>6. \A i, k : LP!Issued(i, k) <=> Issued(i, k)
  BY Zenon DEF Issued, LP!Issued
<1> QED
  BY <1>1, <1>2, <1>3, <1>4, <1>5, <1>6

\* What the loop's own theorems say of the run's phase, they say of the run.
LEMMA PromisesMap ==
  ASSUME LP!TypeOK, LP!RunExclusion, LP!UnansweredOnlyByAbort,
         LP!ReplyFollowsItsRequest, LP!SteeringOnTime
  PROVE  RunExclusion /\ UnansweredOnlyByAbort /\ ReplyFollowsItsRequest /\ SteeringOnTime
<1>1. \A r \in Runs :
        /\ Inside(r) <=> LP!Inside(r)
        /\ pc[r] = "marked" <=> Phase[r] = "marked"
        /\ pc[r] \in {"tools", "results"} <=> Phase[r] \in {"tools", "results"}
        /\ \A x \in {"iterate", "request", "stream"} : pc[r] = x <=> Phase[r] = x
  BY DEF Phase, Inside, LP!Inside
<1>2. RunExclusion
  BY <1>1 DEF RunExclusion, LP!RunExclusion
<1>3. UnansweredOnlyByAbort
  <2>1. \A r \in Runs : pc[r] \in {"tools", "results"} <=> Phase[r] \in {"tools", "results"}
    BY <1>1
  <2> SUFFICES ASSUME NEW i \in Entries("assistant"), messages[i].n > 0, ~Answered(i)
               PROVE  /\ i = Len(messages) \/ messages[i + 1].kind = "prompt"
                      /\ LET r == messages[i].of
                         IN  \/ how[r] = "aborted"
                             \/ i = Len(messages) /\ pc[r] \in {"tools", "results"}
    BY DEF UnansweredOnlyByAbort
  <2>2. /\ i = Len(messages) \/ messages[i + 1].kind = "prompt"
        /\ LET r == messages[i].of
           IN  \/ how[r] = "aborted"
               \/ i = Len(messages) /\ Phase[r] \in {"tools", "results"}
    BY SameViews DEF LP!UnansweredOnlyByAbort
  <2>3. messages[i].of \in Runs
    <3>1. messages[i] \in LP!Message /\ messages[i].kind = "assistant"
      BY DEF LP!TypeOK, Entries
    <3> QED
      BY <3>1 DEF LP!Message
  <2> QED
    BY <2>1, <2>2, <2>3
<1>4. ReplyFollowsItsRequest
  BY <1>1 DEF ReplyFollowsItsRequest, LP!ReplyFollowsItsRequest
<1>5. SteeringOnTime
  BY <1>1 DEF SteeringOnTime, LP!SteeringOnTime, Entries, LP!Entries
<1> QED
  BY <1>2, <1>3, <1>4, <1>5

\* Handlers that run beside each other and may steer their own agent, in either
\* mode, take nothing away from what the loop promises of its runs, its transcript,
\* its log and its steering.
THEOREM PromisesHoldWithBatches ==
  BatchesSpec =>
    [](/\ RunExclusion /\ ReplyFollowsItsRequest /\ ResultsFollowCalls
       /\ IterationsBounded /\ UnansweredOnlyByAbort /\ LogMatchesTranscript
       /\ SteeringOnTime /\ SteeringInOrder /\ SteeringConserved)
<1> DEFINE Promised == /\ LP!TypeOK
                       /\ LP!RunExclusion /\ LP!ReplyFollowsItsRequest
                       /\ LP!ResultsFollowCalls /\ LP!IterationsBounded
                       /\ LP!UnansweredOnlyByAbort /\ LP!LogMatchesTranscript
                       /\ LP!SteeringOnTime /\ LP!SteeringInOrder
                       /\ LP!SteeringConserved
           Promises == /\ RunExclusion /\ ReplyFollowsItsRequest /\ ResultsFollowCalls
                       /\ IterationsBounded /\ UnansweredOnlyByAbort
                       /\ LogMatchesTranscript /\ SteeringOnTime /\ SteeringInOrder
                       /\ SteeringConserved
<1>1. BatchesSpec => LP!Spec
  <2>1. BatchesInit => LP!Init
    BY InitMaps
  <2>2. LP!IInv /\ BInv /\ [BatchesNext]_allVars => [LP!Next]_LP!vars
    BY StepSimulates
  <2> QED
    BY <2>1, <2>2, BatchesInductive, PTL DEF BatchesSpec, LP!Spec
<1>2. /\ LP!Spec => []LP!TypeOK
      /\ LP!Spec => []LP!RunExclusion
      /\ LP!Spec => []LP!ReplyFollowsItsRequest
      /\ LP!Spec => []LP!ResultsFollowCalls
      /\ LP!Spec => []LP!IterationsBounded
      /\ LP!Spec => []LP!UnansweredOnlyByAbort
      /\ LP!Spec => []LP!LogMatchesTranscript
      /\ LP!Spec => []LP!SteeringOnTime
      /\ LP!Spec => []LP!SteeringInOrder
      /\ LP!Spec => []LP!SteeringConserved
  BY LP!AgentTypeCorrect, LP!OneRunAtATime, LP!ReplyAnswersRequest, LP!ResultsAnswerCalls,
     LP!AtMostMaxIterations, LP!OnlyAbortsLeaveUnanswered, LP!LogTellsTheTranscript,
     LP!DeliveredOnTime, LP!AppliedInOrder, LP!NeverLostOrTwice, AgentAssumption
<1>3. BatchesSpec => []Promised
  BY <1>1, <1>2, PTL
<1>4. Promised => Promises
  <2>1. LP!ResultsFollowCalls => ResultsFollowCalls
    BY SameViews DEF ResultsFollowCalls, LP!ResultsFollowCalls
  <2>2. LP!IterationsBounded => IterationsBounded
    BY SameViews, Zenon DEF IterationsBounded, LP!IterationsBounded
  <2>3. LP!LogMatchesTranscript => LogMatchesTranscript
    <3> SUFFICES ASSUME LP!LogMatchesTranscript PROVE LogMatchesTranscript
      OBVIOUS
    <3>1. \A k \in DOMAIN toolLog : \E i \in Entries("assistant") : Issued(i, k)
      BY SameViews DEF LP!LogMatchesTranscript
    <3>2. ASSUME NEW i \in Entries("assistant")
          PROVE  LET log == {k \in DOMAIN toolLog : Issued(i, k)}
                 IN  /\ \A k \in log : toolLog[k].call = Rank(log, k)
                     /\ Cardinality(log) <= messages[i].n
                     /\ Answered(i) => Cardinality(log) = messages[i].n
      <4> DEFINE log == {k \in DOMAIN toolLog : Issued(i, k)}
      <4>1. {k \in DOMAIN toolLog : LP!Issued(i, k)} = log
        BY SameViews
      <4>2. /\ \A k \in log : toolLog[k].call = LP!Rank(log, k)
            /\ LP!Cardinality(log) <= messages[i].n
            /\ LP!Answered(i) => LP!Cardinality(log) = messages[i].n
        <5>1. i \in LP!Entries("assistant")
          BY SameViews
        <5> HIDE DEF log
        <5> QED
          BY <4>1, <5>1 DEF LP!LogMatchesTranscript
      <4> HIDE DEF log
      <4>3. /\ \A k \in log : toolLog[k].call = Rank(log, k)
            /\ Cardinality(log) <= messages[i].n
            /\ Answered(i) => Cardinality(log) = messages[i].n
        BY <4>2, SameViews
      <4> QED
        BY <4>3 DEF log
    <3> QED
      BY <3>1, <3>2 DEF LogMatchesTranscript
  <2>4. LP!SteeringInOrder => SteeringInOrder
    BY SameViews DEF SteeringInOrder, LP!SteeringInOrder
  <2>5. LP!SteeringConserved => SteeringConserved
    BY SameViews, Zenon DEF SteeringConserved, LP!SteeringConserved
  <2> QED
    BY <2>1, <2>2, <2>3, <2>4, <2>5, PromisesMap
<1> QED
  BY <1>3, <1>4, PTL
=============================================================================

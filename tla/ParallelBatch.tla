--------------------------- MODULE ParallelBatch ---------------------------
(***************************************************************************)
(* executeToolCallsParallel: the calls of one assistant message, their     *)
(* handlers running in goroutines of an errgroup.  The loop goroutine is   *)
(* `pc`; worker c is the goroutine of call c; the waiter is the goroutine  *)
(* that runs g.Wait() and closes waitDone.  They share two buffered        *)
(* channels, done (capacity: one slot per call) and deltas (capacity       *)
(* Config.ToolDeltaBuffer), and a context the loop cancels.                *)
(*                                                                         *)
(* A yield hands one event to the consumer, which accepts it (go) or       *)
(* breaks out of its loop.                                                 *)
(***************************************************************************)
EXTENDS Naturals, Sequences, FiniteSets

CONSTANTS NumCalls,   \* tool calls in the message; one call never runs here
          DeltaBuf,   \* Config.ToolDeltaBuffer, or its default
          MaxDeltas   \* bound: EmitToolDelta calls of one handler

ASSUME ParallelAssumption ==
  /\ NumCalls \in Nat \ {0, 1}
  /\ DeltaBuf \in Nat \ {0}
  /\ MaxDeltas \in Nat

Call == 1..NumCalls

\* The loop's view of a finished call: finished{idx, outcome}.
Outcome == [call : Call, stop : BOOLEAN]
NoOutcome == [call |-> 0, stop |-> FALSE]

\* slot.immediate is an outcome when no handler will run; an async slot has none.
EmptySlot == [kind |-> "empty", outcome |-> NoOutcome]
AsyncSlot == [kind |-> "async", outcome |-> NoOutcome]
ImmediateSlot(o) == [kind |-> "immediate", outcome |-> o]

\* Events the consumer sees; n numbers the deltas of one handler.
Event == [kind : {"start", "delta", "end"}, call : Call, n : 0..MaxDeltas]
StartEvent(c) == [kind |-> "start", call |-> c, n |-> 0]
EndEvent(c) == [kind |-> "end", call |-> c, n |-> 0]
DeltaEvent(c, n) == [kind |-> "delta", call |-> c, n |-> n]

Finish(c, stop) == [call |-> c, stop |-> stop]

\* The slot a goroutine reports: its own copy of the loop variable.
SharedLoopVariable(c) == NumCalls
Index(c) == c

\* make(chan finished, len(calls)) and make(chan EventToolDelta, deltaBuf)
UnbufferedByOne == NumCalls - 1
DoneCap == NumCalls
HasRoomOffByOne(buffer) == Len(buffer) <= DeltaBuf
HasRoom(buffer) == Len(buffer) < DeltaBuf

VARIABLES
  pc,         \* where the loop goroutine is
  next,       \* the slot the preflight or launch loop is at
  slots,
  worker,     \* the goroutine of each call
  waiter,     \* the goroutine that closes waitDone
  done,
  deltas,
  cancelled,  \* parCancel has run
  ctxDone,    \* the run's own ctx is done
  outcomes,
  pending,
  toolLog,    \* what this batch appended to the agent's log
  results,
  terminate,
  events,     \* history: every event handed to the consumer
  emitted,    \* history: EmitToolDelta calls per handler
  accepted    \* history: deltas the buffer took

vars == <<pc, next, slots, worker, waiter, done, deltas, cancelled, ctxDone,
          outcomes, pending, toolLog, results, terminate, events, emitted,
          accepted>>

goVars == <<worker, waiter>>
channelVars == <<done, deltas, emitted, accepted>>
receiveVars == <<outcomes, pending>>
returnVars == <<toolLog, results, terminate>>

Ended == pc \in {"returned", "aborted"}

Init ==
  /\ pc = "preflight"
  /\ next = 1
  /\ slots = [c \in Call |-> EmptySlot]
  /\ worker = [c \in Call |-> "idle"]
  /\ waiter = "none"
  /\ done = <<>>
  /\ deltas = <<>>
  /\ cancelled = FALSE
  /\ ctxDone \in BOOLEAN
  /\ outcomes = [c \in Call |-> NoOutcome]
  /\ pending = NumCalls
  /\ toolLog = <<>>
  /\ results = <<>>
  /\ terminate = FALSE
  /\ events = <<>>
  /\ emitted = [c \in Call |-> 0]
  /\ accepted = <<>>

\* g.Wait() has nothing left to wait for.
FirstJoined == \E c \in Call : worker[c] \in {"idle", "exited"}
Joined == \A c \in Call : worker[c] \in {"idle", "exited"}

\* The default case of the select that flushes the delta buffer.
NeverFlush == TRUE
NothingBuffered == deltas = <<>>

\* The AND over the batch.
AnyStops == \E c \in Call : outcomes[c].stop
AllStop == \A c \in Call : outcomes[c].stop

\* The two loops over the slots: the next one, or the phase after the last.
Advance(after) ==
  IF next < NumCalls
  THEN next' = next + 1 /\ UNCHANGED pc
  ELSE next' = 1 /\ pc' = after

\* Leaving once the derived context exists: parCancel runs, deferred or not.
Exit(how) == pc' = how /\ cancelled' = TRUE

\* The consumer takes an event and stays, or breaks; a break while handlers
\* run has the loop cancel them and wait for them.
Yield(onBreak) == UNCHANGED <<pc, cancelled>> \/ Exit(onBreak)
LeaveAtOnce == Exit("aborted")
ForgetCancel == pc' = "settle" /\ UNCHANGED cancelled
BreakDrain == Exit("settle")

-----------------------------------------------------------------------------
(* Phase 1: BeforeToolCall and EventToolStart, in source order.            *)

BeforeToolCallFails ==
  /\ pc = "preflight"
  /\ pc' = "aborted"
  /\ UNCHANGED <<next, slots, cancelled, ctxDone, events>>
  /\ UNCHANGED <<goVars, channelVars, receiveVars, returnVars>>

StartTool ==
  /\ pc = "preflight"
  /\ events' = Append(events, StartEvent(next))
  /\ \/ slots' = [slots EXCEPT ![next] = AsyncSlot] /\ Advance("launch")
     \/ pc' = "aborted" /\ UNCHANGED <<slots, next>>
  /\ UNCHANGED <<cancelled, ctxDone>>
  /\ UNCHANGED <<goVars, channelVars, receiveVars, returnVars>>

\* The hook blocked the call or the tool is unknown: its outcome is known now
\* (AfterToolCall may still have set Terminate on it).
SkipTool ==
  /\ pc = "preflight"
  /\ \E stop \in BOOLEAN :
       slots' = [slots EXCEPT ![next] = ImmediateSlot(Finish(next, stop))]
  /\ Advance("launch")
  /\ UNCHANGED <<cancelled, ctxDone, events>>
  /\ UNCHANGED <<goVars, channelVars, receiveVars, returnVars>>

-----------------------------------------------------------------------------
(* Phase 2: launch, then drain what finishes.                              *)

\* The waiter goroutine starts once every slot is launched.
LaunchNext ==
  /\ pc = "launch"
  /\ Advance("drain")
  /\ waiter' = IF next = NumCalls THEN "waiting" ELSE waiter
  /\ UNCHANGED <<slots, cancelled, ctxDone, events, receiveVars, returnVars>>

LaunchImmediate ==
  /\ slots[next].kind = "immediate"
  /\ Len(done) < DoneCap
  /\ done' = Append(done, slots[next].outcome)
  /\ LaunchNext
  /\ UNCHANGED <<worker, deltas, emitted, accepted>>

LaunchHandler ==
  /\ slots[next].kind = "async"
  /\ worker' = [worker EXCEPT ![next] = "running"]
  /\ LaunchNext
  /\ UNCHANGED channelVars

\* A goroutine's step leaves the loop's own state alone.
LoopUnchanged ==
  UNCHANGED <<pc, next, slots, cancelled, ctxDone, events, receiveVars, returnVars>>

\* The handler calls EmitToolDelta: a send that gives up when the buffer is full.
EmitToolDelta(c) ==
  /\ worker[c] = "running"
  /\ emitted[c] < MaxDeltas
  /\ emitted' = [emitted EXCEPT ![c] = @ + 1]
  /\ LET d == DeltaEvent(c, emitted[c] + 1)
     IN  IF HasRoom(deltas)
         THEN deltas' = Append(deltas, d) /\ accepted' = Append(accepted, d)
         ELSE UNCHANGED <<deltas, accepted>>
  /\ LoopUnchanged /\ UNCHANGED <<goVars, done>>

\* The handler and AfterToolCall are over: the goroutine sends the outcome.
HandlerReturns(c) ==
  /\ worker[c] = "running"
  /\ Len(done) < DoneCap
  /\ \E stop \in BOOLEAN : done' = Append(done, Finish(Index(c), stop))
  /\ worker' = [worker EXCEPT ![c] = "sent"]
  /\ LoopUnchanged /\ UNCHANGED <<waiter, deltas, emitted, accepted>>

GoroutineExits(c) ==
  /\ worker[c] = "sent"
  /\ worker' = [worker EXCEPT ![c] = "exited"]
  /\ LoopUnchanged /\ UNCHANGED <<waiter, channelVars>>

\* g.Wait() returns (no goroutine ever returns an error): waitDone is closed.
WaitDone ==
  /\ waiter = "waiting"
  /\ Joined
  /\ waiter' = "closed"
  /\ LoopUnchanged /\ UNCHANGED <<worker, channelVars>>

\* Take a delta, or an outcome, off its channel and hand it to the consumer.
ShowDelta ==
  /\ deltas # <<>>
  /\ deltas' = Tail(deltas)
  /\ events' = Append(events, Head(deltas))
  /\ UNCHANGED <<next, slots, ctxDone, done, emitted, accepted>>
  /\ UNCHANGED <<goVars, receiveVars, returnVars>>

ReceiveMiscounts ==
  /\ done # <<>>
  /\ done' = Tail(done)
  /\ outcomes' = [outcomes EXCEPT ![Head(done).call] = Head(done)]
  /\ events' = Append(events, EndEvent(Head(done).call))
  /\ UNCHANGED <<next, slots, ctxDone, deltas, emitted, accepted>>
  /\ UNCHANGED <<goVars, pending, returnVars>>

Receive ==
  /\ done # <<>>
  /\ done' = Tail(done)
  /\ outcomes' = [outcomes EXCEPT ![Head(done).call] = Head(done)]
  /\ pending' = pending - 1
  /\ events' = Append(events, EndEvent(Head(done).call))
  /\ UNCHANGED <<next, slots, ctxDone, deltas, emitted, accepted>>
  /\ UNCHANGED <<goVars, returnVars>>

\* The loop takes a step that only moves it on.
Quiet ==
  /\ UNCHANGED <<next, slots, ctxDone, events>>
  /\ UNCHANGED <<goVars, channelVars, receiveVars, returnVars>>

\* The three cases of the select; Go picks any ready one.
DrainDelta ==
  /\ pc = "drain"
  /\ ShowDelta
  /\ UNCHANGED <<pc, cancelled>> \/ BreakDrain

DrainOutcome ==
  /\ pc = "drain"
  /\ Receive
  /\ \/ pc' = (IF pending' = 0 THEN "flush" ELSE pc) /\ UNCHANGED cancelled
     \/ BreakDrain

DrainWaitDone ==
  /\ pc = "drain"
  /\ waiter = "closed"
  /\ pc' = "flush"
  /\ Quiet /\ UNCHANGED cancelled

\* The consumer broke: parCancel has run, and the loop waits for the goroutines.
Settled ==
  /\ pc = "settle"
  /\ waiter = "closed"
  /\ pc' = "aborted"
  /\ Quiet /\ UNCHANGED cancelled

FlushDelta ==
  /\ pc = "flush"
  /\ ShowDelta
  /\ Yield("aborted")

FlushEmpty ==
  /\ pc = "flush"
  /\ NothingBuffered
  /\ pc' = "collect"
  /\ Quiet /\ UNCHANGED cancelled

CollectOutcome ==
  /\ pc = "collect"
  /\ pending > 0
  /\ Receive
  /\ Yield("aborted")

\* The ctx.Done() case of that select; ready outcomes do not take precedence.
CollectCancelled ==
  /\ pc = "collect"
  /\ pending > 0
  /\ ctxDone
  /\ Exit("aborted")
  /\ Quiet

-----------------------------------------------------------------------------
(* Phase 3: the results and the log, in source order.                      *)

Assemble ==
  /\ pc = "collect"
  /\ pending = 0
  /\ toolLog' = outcomes
  /\ results' = outcomes
  /\ terminate' = AllStop
  /\ Exit("returned")
  /\ UNCHANGED <<next, slots, ctxDone, events, goVars, channelVars, receiveVars>>

\* The caller cancels the ctx it gave to Run, or its deadline passes.
CancelCtx ==
  /\ ~ctxDone
  /\ ~Ended
  /\ ctxDone' = TRUE
  /\ UNCHANGED <<pc, next, slots, cancelled, events>>
  /\ UNCHANGED <<goVars, channelVars, receiveVars, returnVars>>

-----------------------------------------------------------------------------
Preflight == BeforeToolCallFails \/ StartTool \/ SkipTool
Launch == LaunchImmediate \/ LaunchHandler
Drain == DrainDelta \/ DrainOutcome \/ DrainWaitDone \/ Settled
Collect == FlushDelta \/ FlushEmpty \/ CollectOutcome \/ CollectCancelled
Loop == Preflight \/ Launch \/ Drain \/ Collect \/ Assemble

Worker(c) == EmitToolDelta(c) \/ HandlerReturns(c) \/ GoroutineExits(c)

\* The call returned and every goroutine is gone: nothing is left to do.
Finished ==
  /\ Ended
  /\ Joined
  /\ waiter # "waiting"
  /\ UNCHANGED vars

Next == Loop \/ (\E c \in Call : Worker(c)) \/ WaitDone \/ CancelCtx \/ Finished

Spec == Init /\ [][Next]_vars

\* The Go scheduler runs every ready goroutine; a blocked one waits.
RuntimeFairness ==
  /\ WF_vars(Loop)
  /\ WF_vars(WaitDone)
  /\ \A c \in Call : WF_vars(GoroutineExits(c))

\* Handlers that may run forever, but return once their context is done.
FairSpec ==
  /\ Spec
  /\ RuntimeFairness
  /\ \A c \in Call : WF_vars((cancelled \/ ctxDone) /\ HandlerReturns(c))

-----------------------------------------------------------------------------
Phases == {"preflight", "launch", "drain", "settle", "flush", "collect",
           "returned", "aborted"}

Slot == {EmptySlot, AsyncSlot} \cup {ImmediateSlot(o) : o \in Outcome}

\* The type invariant of the batch's state.
TypeOK ==
  /\ pc \in Phases
  /\ next \in Call
  /\ slots \in [Call -> Slot]
  /\ worker \in [Call -> {"idle", "running", "sent", "exited"}]
  /\ waiter \in {"none", "waiting", "closed"}
  /\ done \in Seq(Outcome)
  /\ deltas \in Seq(Event) /\ Len(deltas) <= DeltaBuf
  /\ cancelled \in BOOLEAN
  /\ ctxDone \in BOOLEAN
  /\ outcomes \in [Call -> Outcome \cup {NoOutcome}]
  /\ pending \in 0..NumCalls
  /\ toolLog \in Seq(Outcome)
  /\ results \in Seq(Outcome)
  /\ terminate \in BOOLEAN
  /\ events \in Seq(Event)
  /\ emitted \in [Call -> 0..MaxDeltas]
  /\ accepted \in Seq(Event)

CallsIn(s) == {s[i].call : i \in DOMAIN s}
Distinct(s) == \A i, j \in DOMAIN s : s[i].call = s[j].call => i = j
InDone == CallsIn(done)
Received == {c \in Call : outcomes[c] # NoOutcome}

\* Every call is accounted for exactly once: an outcome is in the done channel
\* at most once, never both there and received, pending counts those not yet
\* received, and once all slots are launched a call whose outcome is nowhere
\* still has its handler running.  "every slot produces exactly one outcome".
OneOutcomePerCall ==
  /\ Distinct(done)
  /\ InDone \cap Received = {}
  /\ pending = Cardinality(Call \ Received)
  /\ \A c \in Call : outcomes[c] # NoOutcome => outcomes[c].call = c
  /\ pc \in Phases \ {"preflight", "launch", "aborted"} =>
       \A c \in Call : worker[c] = "running" <=> c \notin InDone \cup Received

\* What each stage of the batch leaves to the next: until the launch nothing runs,
\* the launch starts or delivers exactly the slots before `next`, waitDone closes
\* only after the last goroutine, and after the drain no handler runs.
Stages ==
  /\ pc \in {"preflight", "launch"} => waiter = "none" /\ Received = {}
  /\ pc \in {"drain", "settle", "flush", "collect", "returned"} => waiter # "none"
  /\ waiter = "closed" => \A c \in Call : worker[c] \in {"idle", "exited"}
  /\ pc = "preflight" =>
       /\ done = <<>>
       /\ \A c \in Call : /\ worker[c] = "idle"
                          /\ c < next => slots[c].kind # "empty"
  /\ pc = "launch" =>
       \A c \in Call :
         /\ slots[c].kind # "empty"
         /\ c < next => (worker[c] = "running" <=> c \notin InDone)
         /\ c >= next => worker[c] = "idle" /\ c \notin InDone
  /\ \A c \in Call : slots[c].kind = "immediate" => slots[c].outcome.call = c
  /\ pc \in {"flush", "collect"} \/ Ended => \A c \in Call : worker[c] # "running"

\* The send on done never blocks: a goroutine about to send, or the launch loop
\* holding an immediate outcome, always finds room in the channel, so that a
\* goroutine can unwind while the loop only waits for it.
SendNeverBlocks ==
  /\ \A c \in Call : worker[c] = "running" => Len(done) < DoneCap
  /\ pc = "launch" => Len(done) < DoneCap

\* The drain after waitDone always has something to take: the ctx.Done() case
\* the code keeps "as defense in depth" is never what saves it from blocking.
CollectNeverWedges == pc = "collect" /\ pending > 0 => done # <<>>

\* Either every call that was let through has had its handler started, or none has.
AllStartedOrNone ==
  \/ \A c \in Call : worker[c] = "idle"
  \/ \A c \in Call : slots[c].kind # "empty" /\ (slots[c].kind = "async" => worker[c] # "idle")

\* Whichever way the batch ends, no handler is still running, or can start; and a
\* batch that BeforeToolCall or the consumer gives up when some calls are already
\* announced leaves none of them half done: no handler of it has run.
NoHandlerOutlivesBatch ==
  Ended => AllStartedOrNone /\ \A c \in Call : worker[c] # "running"

EndsAt(c) == {i \in DOMAIN events : events[i].kind = "end" /\ events[i].call = c}
DeltasAt == {i \in DOMAIN events : events[i].kind = "delta"}

\* A batch that returns reported every call exactly once, and its results, its
\* log entries and its outcomes are the same, in the order of the message;
\* the run stops early only if every result asked for it.
ReturnedComplete ==
  pc = "returned" =>
    /\ Len(results) = NumCalls
    /\ toolLog = results
    /\ \A c \in Call : results[c].call = c /\ Cardinality(EndsAt(c)) = 1
    /\ terminate <=> \A c \in Call : results[c].stop

\* Deltas that the buffer accepted are shown once each and in the order they were
\* accepted, the others are still in it, in that order, and a batch that returns
\* leaves none behind in the buffer.
DeltasShown ==
  LET shown == Cardinality(DeltasAt)
      rank(i) == Cardinality({j \in DeltasAt : j <= i})
  IN  /\ Len(accepted) = shown + Len(deltas)
      /\ \A i \in DeltasAt : events[i] = accepted[rank(i)]
      /\ \A k \in DOMAIN deltas : deltas[k] = accepted[shown + k]
      /\ pc = "returned" => deltas = <<>>

\* The batch implements the contract of a tool batch.
Contract == INSTANCE ToolBatch WITH
  status <- IF Ended THEN pc ELSE "running"
ImplementsToolBatch == Contract!Spec

\* If no handler runs for ever, the batch ends and its goroutines exit, without
\* any help from its context: nothing waits for what never comes.
BatchEnds ==
  (\A c \in Call : []<>(worker[c] # "running")) =>
    <>(Ended /\ \A c \in Call : worker[c] \in {"idle", "exited"})

\* Once the consumer broke or the run's ctx is done, the batch ends, provided
\* only that handlers return when their context is done; no other handler has
\* to make progress.
CancelEndsBatch == pc = "settle" \/ ctxDone ~> Ended

-----------------------------------------------------------------------------
(* What the documentation says and the code does not do.                   *)

\* run.go: a ToolLogEntry is "logged for every Handler call".
EveryHandlerLogged ==
  Ended => \A c \in Call :
    worker[c] # "idle" => \E i \in DOMAIN toolLog : toolLog[i].call = c

\* event.go: "deltas for one tool call still arrive between that call's Start and
\* End", in parallel execution too.
DeltasBeforeEnd ==
  \A i \in DeltasAt : \A j \in EndsAt(events[i].call) : i < j
=============================================================================

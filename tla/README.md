# pi-agent-go in TLA+

This directory specifies the agent loop of pi-agent-go: TLA+ modules translated
from the Go source, TLC configurations that check them on small instances, and
TLAPS proofs that hold for every instance. `PROJECT.json` maps each definition
to the lines it models. Paths below are relative to the repository.

To check one run, in this directory: `tlc -config AgentLoop_steering.cfg
MCAgentLoop.tla`. To check the proofs: `tlapm AgentLoopProofs.tla`.

## 1. The system

An `Agent` turns a prompt into an answer: it calls an LLM, executes the tools
the answer asks for, appends the results, and repeats. `Run` returns an
iterator; the consumer's loop body is called back (`yield`) with every event and
may break. The whole loop runs on the consumer's goroutine.

| Component | State | Operations | Source |
|---|---|---|---|
| Agent lifecycle and run loop | `running`, `runID`, `iteration`, `messages`, `toolLog` (under `mu`) | `RunMessage`, `Reset`, `Snapshot` | agent.go 276-363, 410-471 |
| Steering | the buffered channel (16), not under `mu` | `Steer`, `drainSteering`, the drain in `Reset` | agent.go 369-376, 446-506 |
| Sequential batch | results, the AND of Terminate | `executeToolCallsSequential` | agent.go 807-852 |
| Parallel batch | slots, goroutines, channels `done`, `deltas`, `waitDone`, a context | `executeToolCallsParallel` | agent.go 860-1056 |
| One tool call | the result on its way | `preflight`, `executeOneToolCall` | agent.go 621-801, tool.go 109-116 |
| Message accumulator | the blocks of a message in the making | `apply`, `final` | agent.go 1131-1271 |
| Request | a copy of the transcript | `buildRequest` | agent.go 1062-1094 |
| Choice of execution mode | `Config.ToolExecution`, each tool's `ExecutionMode` | `executeToolCalls`, `shouldRunParallel` | agent.go 550-587 |
| Snapshot and Restore | a copy of the agent, and the arrays behind its slices | `Snapshot`, `Restore` | agent.go 410-429, restore.go |
| System prompt | `systemPrompt` (under `mu`) | `SetSystemPrompt` | agent.go 394-406 |
| Tool constructors | none | `Typed`, `Raw` | tool.go |
| Run ids in the context, configuration | none that changes | `WithRunID`, `New` | runid.go, agent.go 233-259 |

**How they interact.** The run calls the provider, the hooks and (sequential
mode) the handlers, and is called by nobody; other goroutines reach it through
the steering channel and the fields under `mu`. In parallel mode handlers run in
goroutines that report through `done` and `deltas` to the run, which alone talks
to the consumer. An unmatched event from the provider, an error of a
`BeforeToolCall`, `OnSteering` or `TransformContext` hook, a break of the
consumer and a done context all end the run early, each at its own place. What
leaves the agent (a snapshot, the messages given to a hook) is a slice its
receiver may keep and write to. A process may end at any time; what its caller
saved of it, a snapshot, starts the next one.

**What is hard.** Runs that overlap; Steer against a drain, and against Reset,
which holds a lock Steer does not take; messages in a hook's hand when the run
ends; three channels ready at once in the parallel drain; a break while handlers
run; a break noticed inside a handler; batches given up in the middle;
results replaced by hooks and budgets; streams whose blocks interleave or break
the contract; a handler that steers its own agent; a restart between any two
steps, with callers that try again; a prompt and a nudge that travel apart;
arrays with several owners. `PROJECT.json` lists each at its line.

## 2. The modules

| Module | Models | Notes |
|---|---|---|
| `ToolBatch` | what a batch promises to its run | abstract; no scheduling |
| `SequentialBatch` | `executeToolCallsSequential` | implements `ToolBatch` |
| `ParallelBatch` | `executeToolCallsParallel` | implements `ToolBatch` |
| `ToolCall` | `preflight`'s verdict and `executeOneToolCall` | the one-step outcome of the batch modules, in detail |
| `AgentLoop` | `RunMessage`, `drainSteering`, `Steer`, `Reset` | a batch is seen through its contract |
| `AgentBatches` | `AgentLoop` with `executeToolCalls`, its handlers and the batch contract | composes `AgentLoop` and `ToolBatch`, implements `AgentLoop` |
| `Session` | `Snapshot`, `Restore`, `New`, `SetSystemPrompt` around the loop | extends `AgentLoop` by restarts |
| `SliceOwnership` | the copies in `Snapshot`, `Restore`, `buildRequest`, `runContextLocked` | Go's slices: arrays with a capacity, append in place |
| `Accumulator` | `messageAccumulator` | every order of events is an input |
| `MCAgentLoop`, `MCAgentBatches`, `MCSession`, `MCSliceOwnership` | - | names, symmetry, views |
| `AgentLoopProofs` | - | theorems about `AgentLoop`: who is inside; the transcript and the log; steering; the end of a run |
| `SessionProofs` | - | theorems about `Session`, on the lemmas of `AgentLoopProofs` |
| `AgentBatchesProofs`, `ParallelBatchProofs`, `SequentialBatchProofs`, `ToolCallProofs`, `SliceOwnershipProofs`, `AccumulatorProofs` | - | the theorems about each |

Three layers show that the parts fit. `ParallelBatch` and `SequentialBatch` each
implement `ToolBatch`. `AgentBatches` puts `ToolBatch` where `AgentLoop` has one
step, and implements `AgentLoop`. `Session` runs `AgentLoop` across processes.

**AgentLoop.** Every Run call is a model value with a program counter. One
action is a stretch of code between two points where another goroutine, a hook or
the consumer can act: `MarkRunning` and `Refuse` are the critical section of
`markRunning`; `Begin` is the critical section that publishes the run and
appends its prompt; `TakeSteering` the receive of `drainSteering` and
`KeepSteering` or `DiscardSteering` what OnSteering decides; `DrainEnds` the
`default` case; `BuildRequest` the copy of the transcript; `StreamEnds` the
append of the answer; `LogCall` (sequential) and `LogBatch` (parallel) the two
ways the log grows; `AppendResults` the tool message and the decision what comes
next. Every yield may end the run (`Yield`, `Leave`). `Reset` clears the fields,
`ResetDrains` receives, `ResetEnds` unlocks; in between the lock keeps runs out,
and Steer in. A message is its author (run or Steer call), its kind, its
iteration and how many calls or results it holds. `accepted`, `discarded`,
`owed`, `asked` and `resetAt` are history.

**ParallelBatch.** `pc` is the loop's goroutine: preflight, launch, drain, flush,
collect, and `settle` (the consumer broke; `parCancel`, then `<-waitDone`).
`worker[c]` is the goroutine of call c, `waiter` the one that closes `waitDone`.
Channels are sequences with a capacity. A send that has a `default` case drops;
a send without one has its guard. `DrainDelta`, `DrainOutcome`, `DrainWaitDone`
are the cases of one select: TLC tries every ready one. The context of the
caller may be done at any time, or before the batch begins.

**SequentialBatch.** The handler runs on the loop's goroutine and its deltas are
yields whose answer is dropped. What a yield does after a break depends on the
consumer, so `rangeLoop` is chosen in `Init`: the body of a `for range` statement makes
the runtime panic, a function called directly is assumed to refuse again.

**ToolCall.** Texts are lengths. The history variables keep what the handler and
the hook gave, and the properties say whose word counts. A tool is one of `Raw` or
of `Typed`, which refuses arguments that do not fit before its handler runs, and
makes a result of the summary alone.

**AgentBatches.** `StreamEndsWith` begins a batch; `ShouldRunParallel` is the
code's choice, by the configured mode, the number of calls and the tools' own
modes; `HandlerStarts` and `HandlerReturns` bracket a handler, with
`HandlerSteers` between them for one that calls `Steer` on its own agent and waits
for room; `Skip` is a blocked or unknown call. `Settle` and `BatchReturns` are the
contract's `Settle` and `Return` with the log entries each mode writes, one by one
or all in the end. `CancelCtx` is the end of the ctx the caller gave to Run, which may
never come; it matters to a handler that waits in Steer. After `GiveUp` the handlers of a parallel batch end one by one
(`HandlerEndsLate`), and the run leaves with the last. `Phase` is the
refinement mapping: it hides a sequential batch's return, which changes nothing the
loop could see.

**Session.** `systemPrompt` and `lastUsage` join the agent's fields. A prompt is the
call that set it, and whether it is empty; a usage is the message it was counted
for. `Snapshot` takes the seven fields under one lock, during a run too. A process
ends between any two steps; `Restore` starts the next one from the last snapshot
unless that was taken in a run, `New` without one. A new process has an empty channel
and no goroutine of the old one; whoever steered tries again unless the restored
transcript has the message, as restore.go 18-20 asks. Run calls that were under
way are lost, those that had not begun come later.

**SliceOwnership.** A slice is an array's name and a length. `append` writes in place
while there is capacity and moves to a larger array of any capacity otherwise;
`make` and `copy` give exactly the length; `append` to a slice without capacity, as
in `Restore`, may round up. Holders of snapshots and of slices lent to
TransformContext or a hook may overwrite, append and cut at any later time. The
tool log is copied in the same way. The elements are messages as values: the blocks
within a message (`Content`, a call's `Arguments`) stay shared by all copies, and
writing to those is outside the model.

**Accumulator.** The n-th event carries n as its text, so a block shows which
events made it, and the header which event gave the model, the stop reason and the
usage. `Kept` is the loop of `final` that filters the slots, a recursive function over
them. `phase` and `expected` follow the documented contract beside the code's
builders. A block index is an `int`: one below zero is among the inputs.

## 3. The runs

| Run | Question | Bounds |
|---|---|---|
| loop_records | Is there one run at a time, left alone by the others? Do transcript and log stay well formed and agree, through aborts and resets? Does every Run return? | 2 runs, 1 Steer, 2 calls a batch, 2 iterations, 1 Reset |
| loop_steering | Is steering on time, in order, applied once or accounted for? | 3 Steer calls, a channel of 2, 2 runs, 1 Reset |
| parallel_batch | Are outcomes neither lost nor doubled; can a send or a receive block; does a handler outlive the batch, or run in one that was given up before its launch; are deltas shown in order; is the batch an implementation of the contract; does it end when handlers return, and after a break or a cancel when they heed only their context? | 2 calls, 2 deltas each, a buffer of 1 |
| seq_batch | Do brackets nest, is the log ahead of the events, does a break stop the batch, does the contract hold? | 3 calls, 2 deltas, both consumers |
| call_outcome | Whose Terminate, hint and verdict count; what of the budget? | texts up to 3 |
| stream_fold | Is a message made of its own events, in order, without nil blocks? Does only an index below zero panic? | indices -1 to 1, 5 events |
| session_restarts | Is what the agent and its snapshots tell about the transcript true of it? Is an answer ever under an older prompt than its steering? Is a message steered again applied twice? Are calls left open by an abort or a restart only? | 2 runs, 1 Steer, 1 iteration, 1 call, and one each of Reset, SetSystemPrompt, Snapshot and restart |
| batches_compose | Does a sequential tool ever run beside another? Do loop and batches implement `AgentLoop`? Can anything but a handler that waits for room in the channel of its own agent keep the run from ending? | 1 run, 2 Steer calls, a channel of 1, 2 iterations, 2 calls, both modes, a ctx that ends or not |
| slice_views | Does anybody see another's writes? | 2 agents, 1 snapshot, 1 lent slice, arrays of 2 |

The bounds are the smallest at which the interesting cases exist: two runs so
that one is refused, waits, or finds what the other left; a channel that fills up; more
messages than it holds; two calls so that finish order differs from source
order (three in the sequential batch, where one lies between the first and the last); a
delta buffer smaller than the deltas one handler sends; five events, two blocks interleaved with each
other or with the header;
lengths below, at and above each budget; one restart with a run before and one
after it; an array with room behind its slice, and one snapshot restored
into two agents. Names of the bounds are the constants of the modules; each is a
guard in one action. Steer calls are finite in number, which also bounds every
drain.

`loop_steering`, `session_restarts` and `slice_views` use the symmetry of
interchangeable names; none of them checks liveness. `session_restarts` and
`slice_views` have a VIEW in their MC module, without what no later step and no
property reads: locals of runs that are over, a snapshot after the last restart, the
names of arrays and the arrays nobody holds. `batches_compose` has one run,
because only one is ever inside; that others change nothing is proved (section 4).

Every property of a passing run has a mutant in `PROJECT.json`, a change of one
definition that a plausible mistake in the code would be, that violates it.

**Fairness.** `FairSpec` of AgentLoop: the goroutine of each run is scheduled and
what it calls returns, and so does Reset. Nothing is assumed of Steer. `FairSpec`
of ParallelBatch: the Go scheduler runs the loop, the waiter and the ends of
goroutines. Handlers may run for ever, but return when their context is done,
which is what the comment at agent.go 980-983 asks of them; `CancelEndsBatch`
needs no more. `BatchEnds` names its own premise: no handler runs for ever.
`FairBatchesSpec` assumes no more of the caller than the code does: nobody has to break
or to give up a batch (`RunGoesOn` leaves out `GiveUp`), and no ctx has to end, since
`context.Background()` never does (`CancelCtx` may happen to the run's ctx, at any moment,
without fairness). It assumes that a handler returns when it is not inside Steer, that it
gives Steer the ctx it was given, and that a Steer returns when its select is ready
(`SteerReturns`): when there is room, or when that ctx is done, because the run's is or
because `parCancel` has run (`HandlerCtxDone`). So the deadlock is in the model: a handler
that steers into a full channel waits for the goroutine that waits for it, in either
mode. `RunsEndOrWait` says that this, with a ctx that is never done, is all that can
keep a run from ending; if the ctx is done, the run ends. Without its second disjunct TLC
finds the hang: agent.go 366-367 says that Steer blocks "until the loop drains", and the
loop does not. `Session` states no fairness: a process may end.

### Where code and documentation disagree

These runs each find a behaviour of the code that a sentence of the repository
excludes.

| Run | What the run shows |
|---|---|
| parallel_logged | Handlers that ran are missing in the log of an aborted batch (run.go 37). |
| parallel_overtaken | A parallel batch shows a call's delta after the call's end: the select may take the outcome first (event.go 89-90; agent.go 968, 1002-1013). |
| seq_panic | After a break on a delta the next yield panics in a for-range consumer (agent.go 834-836, tool_delta.go 29-32). |

Read but not made into runs: a run completes with steering pending when the message
arrives during the last answer, and the next run applies it (event.go 27-28;
`SteeringOnTime` speaks of what arrived before a boundary); the drain also takes messages
that arrive while it goes on, as many as Steer keeps up with (agent.go 304-305); a parallel
batch announces every start before it launches a handler, so that a start does not imply
"a real Handler ran" (event.go 71-72) when a later BeforeToolCall fails
(`NoHandlerOutlivesBatch` says that none ran); a negative block index of a
provider panics, where agent.go 1156-1158 wants an error (`OnlyBelowZeroPanics` says that
nothing else does); an AfterToolCall error does not abort the run
(README.md 113; hooks.go 34-36 says the opposite); of the broken streams only an
end of a tool call without its start is refused (README.md 113);
`ErrSteeringClosed` (agent.go 60-62) is never returned; run.go 10-12 says hooks run
"while the loop holds its lock", and no hook does; the argument deltas of a tool
call are collected (agent.go 1195-1198) and never read, the arguments are those of
the end event; an emptied system prompt does not survive Restore (restore.go 59, as
documented, so `NudgeUnderItsPrompt` excepts it); the copies Restore makes for "we own
our state" (restore.go 64-65) share the blocks within the messages.

## 4. What is proved

The proofs assume only the ASSUMEs of the modules: bounds are natural numbers,
capacities are positive, `NoSteer` and `NoRun` are not a Steer call or a run.

**AgentLoop** (`AgentLoopProofs`, part 1): `AgentTypeCorrect`, `OneRunAtATime`,
`ReplyAnswersRequest`, `ResultsAnswerCalls`. None is inductive alone. That
`AppendResults` writes its message behind the right calls needs that the
transcript still ends with them when the batch is over; that needs that nobody
else appends meanwhile; that needs that only one run is inside; and that the
iteration shown is the run's needs the same. `RunState` says what the run inside
relies on, and the conjunction `IInv` is inductive: the lemmas take the actions
one by one, most of them by noting that a run outside is left outside
(`StayInside`, `NobodyMoves`) and that the run inside keeps its own facts
(`OwnFactsSuffice`).

**Transcript and log** (`AgentLoopProofs`, part 2):
`AtMostMaxIterations`, `OnlyAbortsLeaveUnanswered`, `LogTellsTheTranscript`. The
invariant `Records` says, by the stage a run is in, how many of its answers are in the
transcript (`Counted`), which of them are answered (`Answers`) and what the log
holds of each (`LogFollows`). The counts are cardinalities and the numbering is a rank,
`Cardinality({j \in S : j <= i})`, so that nothing recursive is needed: an entry beyond all
others raises the count by one, has the highest rank and changes no other's
(`RankGrows`, `RankExtends`). Four actions write to the transcript (`Speech`); for all
others it is enough that the run keeps its stage or gives up (`Quiet`). The part that is
not obvious: an answer opens a batch of which the log has nothing yet (`FreshLog`),
since no other answer has the same run and iteration, which is what the ranks say.

**Steering** (`AgentLoopProofs`, part 3): `DeliveredOnTime`, `AppliedInOrder`,
`NeverLostOrTwice`, for any number of Steer calls and runs and any channel size. `SInv`
follows a message through the channel. What is in the channel is the end of `accepted`,
so what has left it is the beginning, and the message in a hand is the last of that
(`Channel`, `Hand`); what left since the last Reset is in the transcript, discarded or in the
hand (`Fates`), and every steering entry comes from there, in that order
(`Sources`, `Ordered`). A boundary owes what was accepted before it, and the drain ends
only when the channel is empty (`Due`); the entry before a message is no call, which
is `Answers` (so the proof of steering needs that of the transcript). `Clearing` says that
while `ResetDrains` receives, no run is inside.

**The end of a run** (`AgentLoopProofs`, part 4): `RunsRunOut` is the safety half of
`RunsEnd`. What a run has still to do is a triple: the iterations left, the stage of the
one it is in, and the repetitions left of a step that repeats (two for each message in
the channel, as it is taken and then placed; the calls not yet logged). The first and the
last are natural numbers in every state, for which `OpenBatch` is needed: the calls
logged are no more than those of the last message. Each step of the run lowers the triple
lexicographically (`StepsComeCloser`), and no step of anybody else raises it, except a
Steer into the channel the run is draining (`NobodyHoldsBack`); each Steer call does that
at most once. So a run can take finitely many steps. That it takes them all, which is
ENABLED and fairness, is left to TLC.

**Session** (`SessionProofs`): `LoopSurvivesRestarts`, `FieldsTellOneStory`,
`NoOlderPrompt`, `NeverAppliedTwice`, for any number of snapshots, prompts and
restarts. A restart brings back what was saved, so the snapshot must satisfy what the
agent did when it was taken, and go on doing so while the agent moves on: `SavedOK` and
`SavedRecords` restate the invariants for a transcript that is not the agent's. This
holds because Restore refuses a snapshot of an agent that was running; the runs of an
idle one have left, and how they ended is settled (`LeftStays`). `Places` replaces
`SInv`, which does not survive a restart: `accepted` begins anew with the channel, while
the transcript keeps what the old channel delivered. `Prompted` compares the prompt each
message was sent under with the agent's and with the requests'. With these, every step
of `AgentLoop`'s proofs is used again: a step of a session is one of the loop's, or a
restart (`SessionMoves`).

**ParallelBatch** (`ParallelBatchProofs`): `BatchTypeCorrect`, `NoOutcomeLost`,
`SendFindsRoom`, `CollectFindsOutcome`, `HandlersStopFirst`, for any number of
calls. The argument for the channel: the calls in `done` are distinct and not
yet received, and a running handler's is not among them, so `done` holds at most
NumCalls - 1 outcomes when a handler is about to send (`FiniteSetTheorems` gives
the cardinalities). For the drain after `waitDone`: `pending` is the number of calls not received;
after `waitDone` no handler runs, so each of them is in `done`. `Stages` carries
what one phase leaves to the next, and `Launching` that the launch starts all handlers
the preflight let through, or none.

`ReturnsComplete`, `NoDeltaLost` and `ParallelImplementsContract` add `History`: the end
events are those of the calls received, one each; the deltas shown are the first of those
the buffer took, in that order, and the buffer holds the rest; and log, results and
`terminate` are written together, when all calls are received. For the refinement, an outcome
of the contract is one the loop has received (`SettleStep`), `Assemble` is the return,
every way out early is an abort, and all other steps stutter.

`BatchRunsOut` is the safety half of `BatchEnds`, along the same lines as `RunsRunOut`:
the loop's steps lower its stage, the slots left to pass or what is left in the channels,
a goroutine's lower its stage or the deltas it may still emit, and only a handler
that pushes while the loop drains gives the loop more. That nothing is pushed once the
drain is over needs `Stages`.

**SequentialBatch** (`SequentialBatchProofs`): `BracketsAlwaysNest`, `LoggedFirst`,
`BreakStops` (an action property) and `SequentialImplementsContract`, for either
kind of consumer. `Books` ties results, log and `terminate` to the current call,
`Handlers` the handlers that ran, and `Shown` the events: all are of calls up to the current
one, and an end only of a call that is in the log. With the two refinements of
`ToolBatch` and `BatchesImplementLoop` below, the three layers are proved to fit.

**AgentBatches** (`AgentBatchesProofs`): `BatchesImplementLoop`, the refinement, and
`SequentialRunsAlone`, for any number of runs, calls and Steer calls. `BInv` says what
a batch and the loop have in common: the calls are those of the last message; a
sequential batch has an outcome exactly for the calls in its log, and runs at most
the handler of the next. `BInv` alone does not survive a step, since another run could
replace the batch. That none is inside is what `AgentLoopProofs` shows of `AgentLoop`; so
its invariant is taken through the refinement mapping (`LP == INSTANCE
AgentLoopProofs WITH pc <- Phase`): a step that simulates one of `AgentLoop`
preserves the mapped `IInv`, which with `BInv` makes the next step simulate one too.
The step lemmas go action by action; the two that matter are `SettleSimulates` (an
outcome is a `LogCall` or nothing) and `ReturnSimulates` (a return is a
`LogBatch` or nothing). `PromisesHoldWithBatches` draws the conclusion: the nine
promises of the loop, proved for `AgentLoop`, hold of loop and batches together. They are
taken through the mapping and translated back: where the mapped program counter
differs from the real one, a run still counts as executing its calls (`PromisesMap`).

**SliceOwnership** (`SliceOwnershipProofs`): `SlicesTypeCorrect` and
`NobodySeesOthersWrites`, for any finite number of agents, snapshots and lent slices. That a
write disturbs nobody needs the strengthening that no two holders share an array,
which every copy must restore: a new array is one that nobody held, and there is
always one, because there are more arrays than holders (`FiniteSetTheorems`).

**ToolCall** (`ToolCallProofs`): `StopIsWanted`, `BudgetHolds`, `HintIsGiven`,
`VerdictIsHonest`. The invariant `OwnedResult` says that until the
budget check the result is the one of the party with the last word, or the
loop's own text.

**Accumulator** (`AccumulatorProofs`): `PanicsBelowZero`, `BlocksAreTheirOwn` and
`MessagesAreComplete`, for streams of any length and any block indices. `Room` says that
a builder or metadata of an index at or above zero exists only with its slot, so an
assignment finds it; `Collected` that the builder of an open block that keeps the
contract holds what the contract says so far. `MessagesAreComplete` also needs what
`final`'s loop computes, for every sequence of slots: `KeptLists` says that an increasing
function maps the positions of the result onto the filled slots. This is induction over
data. The library's induction theorems take an operator as a parameter and cannot be
cited here; `SetInduction` says the same of a set of naturals that holds zero and the
successor of each member, and follows from the library's well-foundedness of the
naturals (`NatLessThanWellFounded`, `WFMin`). The loop's recursive function exists
because it exists up to each slot (`LoopRuns`, `KeptIsLoop`).

**Only model-checked.** Liveness under fairness (`RunsEnd`, `RunsEndOrWait`, `BatchEnds`,
`CancelEndsBatch`) stays with TLC: neither ENABLED nor fairness is in the reach of the
provers. Of `RunsEnd` and `BatchEnds`, `RunsRunOut` and `BatchRunsOut` prove the part
that is safety, that nobody can go on for ever. Every other property of a passing run is
proved. The three runs that expect a violation show what does not hold.

## 5. What is not modelled

Run ids: a context value and a random string; `AgentLoop` takes fresh ones for
granted. `New`'s checks of the configuration return before there is an agent, the
defaults it fills in are constants. The JSON schema `Typed` reflects from a Go type is
the work of libraries on data no decision reads. The provider is external: any
events in `Accumulator`, success or failure in `AgentLoop`. A handler or consumer that
panics on its own ends the process. Times, usage counts, names and texts are data
no decision reads, but for lengths. How a caller stores a snapshot is its own
affair (restore.go 38-45). The examples are clients; they show how a
consumer ranges over a run.

Steer on the run's own agent is modelled for handlers (`AgentBatches`). Called from a hook
or from the consumer's loop body it is on the run's goroutine too, and with a full channel
and a ctx that never ends it waits for itself in the same way.

`AgentLoop` abstracts a batch to its contract: the log grows in the order of the
message, call by call or at once, and the batch is abandoned at any moment or
answers every call. Both batch modules are checked against `ToolBatch`, and
`AgentBatches`, which obeys `ToolBatch`, is proved to implement `AgentLoop`.

## 6. Plan

The safety and action properties of every module are proved, and so are the three
refinements. What could be added:

1. The steering properties across restarts: `SteeringConserved` for the messages of one
   process, with `accepted` counted from its start.
2. The properties of `SequentialBatch` and `ParallelBatch` that `ToolBatch` implies, from
   the contract once instead of from each module.

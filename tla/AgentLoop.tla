----------------------------- MODULE AgentLoop -----------------------------
(***************************************************************************)
(* An Agent and the goroutines that use it: Run calls that may overlap,    *)
(* Steer calls that push into the steering channel, and Reset.  They share *)
(* the fields guarded by Agent.mu and the channel, which is not.  A batch  *)
(* of tool calls is one phase here, seen through the contract of ToolBatch *)
(* : log entries in the order of the message, then results, or abandoned.  *)
(*                                                                         *)
(* A handed out event may be refused: the consumer breaks, and the run     *)
(* leaves.  A run that ends on an error of a hook or of the provider       *)
(* leaves the same way.                                                    *)
(***************************************************************************)
EXTENDS Naturals, Sequences, FiniteSets

CONSTANTS Runs,           \* calls of Run or RunMessage, one per model value
          Steers,         \* calls of Steer, each with a message of its own
          NoSteer,        \* no message in hand
          NoRun,          \* the empty RunID
          BufSize,        \* steeringBufferSize
          MaxIterations,  \* Config.MaxIterations
          MaxCalls,       \* bound: tool calls in one assistant message
          MaxResets       \* bound: calls of Reset that succeed

ASSUME AgentAssumption ==
  /\ NoSteer \notin Steers
  /\ NoRun \notin Runs
  /\ BufSize \in Nat \ {0}
  /\ MaxIterations \in Nat \ {0}
  /\ MaxCalls \in Nat
  /\ MaxResets \in Nat

\* Transcript entries. `of` is the run, or the Steer call, that wrote the entry;
\* `it` is the iteration; n counts an assistant's tool calls, or the results.
Message == [kind : {"prompt", "assistant", "tool"}, of : Runs,
            it : 0..MaxIterations, n : 0..MaxCalls]
           \cup [kind : {"steering"}, of : Steers, it : 1..MaxIterations, n : {0}]

LogEntry == [of : Runs, it : 1..MaxIterations, call : 1..MaxCalls]

VARIABLES
  running, runID, iteration, messages, toolLog,   \* Agent fields under mu
  resetting,  \* Reset holds mu and drains the channel
  steering,   \* the buffered channel
  pc,         \* where each run is
  it,         \* each run's loop counter
  inHand,     \* the message drainSteering has received and not yet placed
  logged,     \* how many calls of the current batch are in the log
  how,        \* how each run ended
  steer,      \* each Steer call: "calling", "sent" or "gaveUp"
  resets,
  accepted,   \* history: messages the channel took, in order
  discarded,  \* history: messages OnSteering dropped or failed on, or Reset drained
  owed,       \* history: Len(accepted) when the run came to its last boundary
  asked,      \* history: Len(messages) when the run built its last request
  resetAt     \* history: Len(accepted) when Reset last cleared, then drained

agentVars == <<running, runID, iteration>>
recordVars == <<messages, toolLog>>
localVars == <<it, inHand, logged, owed, asked>>
steerVars == <<steer, accepted>>
resetVars == <<resetting, resets, resetAt>>

vars == <<agentVars, recordVars, localVars, steerVars, resetVars, steering, pc,
          how, discarded>>

Init ==
  /\ running = FALSE
  /\ runID = NoRun
  /\ iteration = 0
  /\ messages = <<>>
  /\ toolLog = <<>>
  /\ steering = <<>>
  /\ pc = [r \in Runs |-> "new"]
  /\ it = [r \in Runs |-> 0]
  /\ inHand = [r \in Runs |-> NoSteer]
  /\ logged = [r \in Runs |-> 0]
  /\ how = [r \in Runs |-> "none"]
  /\ steer = [m \in Steers |-> "calling"]
  /\ resetting = FALSE
  /\ resets = 0
  /\ accepted = <<>>
  /\ discarded = {}
  /\ owed = [r \in Runs |-> 0]
  /\ asked = [r \in Runs |-> 0]
  /\ resetAt = 0

-----------------------------------------------------------------------------
Goto(r, place) == pc' = [pc EXCEPT ![r] = place] /\ UNCHANGED how
Leave(r, verdict) ==
  /\ pc' = [pc EXCEPT ![r] = "leaving"]
  /\ how' = [how EXCEPT ![r] = verdict]

\* The next event is handed out: the run goes on to `place`, or leaves.
Yield(r, place) == Goto(r, place) \/ Leave(r, "aborted")

Say(r, kind, n) ==
  messages' = Append(messages, [kind |-> kind, of |-> r, it |-> it[r], n |-> n])

\* A run at an iteration boundary: what Steer delivered so far is due now.
AtBoundary(r) == owed' = [owed EXCEPT ![r] = Len(accepted)]

\* The last message of the transcript, the current batch's while in "tools".
Batch == messages[Len(messages)].n

-----------------------------------------------------------------------------
(* RunMessage: entering and leaving.                                       *)

RunBlindly(r) ==
  /\ pc[r] = "new"
  /\ running' = TRUE
  /\ Goto(r, "marked")
  /\ UNCHANGED <<runID, iteration, recordVars, localVars, steerVars, resetVars,
                 steering, discarded>>

\* markRunning: the check and the set are one critical section.
MarkRunning(r) ==
  /\ pc[r] = "new"
  /\ ~resetting
  /\ ~running
  /\ running' = TRUE
  /\ Goto(r, "marked")
  /\ UNCHANGED <<runID, iteration, recordVars, localVars, steerVars, resetVars,
                 steering, discarded>>

\* ErrAlreadyRunning: the deferred markIdle is not yet registered.
RefusedClears == running' = FALSE
RefusedKeeps == UNCHANGED running

Refuse(r) ==
  /\ pc[r] = "new"
  /\ ~resetting
  /\ running
  /\ RefusedKeeps
  /\ Goto(r, "refused")
  /\ UNCHANGED <<runID, iteration, recordVars, localVars, steerVars, resetVars,
                 steering, discarded>>

\* The run's identity and prompt in one critical section, then EventRunStart.
Begin(r) ==
  /\ pc[r] = "marked"
  /\ runID' = r
  /\ iteration' = 0
  /\ Say(r, "prompt", 0)
  /\ it' = [it EXCEPT ![r] = 1]
  /\ AtBoundary(r)
  /\ Yield(r, "boundary")
  /\ UNCHANGED <<running, toolLog, inHand, logged, asked, steerVars, resetVars,
                 steering, discarded>>

MarkIdle(r) ==
  /\ pc[r] = "leaving"
  /\ running' = FALSE
  /\ Goto(r, "left")
  /\ UNCHANGED <<runID, iteration, recordVars, localVars, steerVars, resetVars,
                 steering, discarded>>

-----------------------------------------------------------------------------
(* The iteration boundary: drainSteering, then EventIterationStart.        *)

TakeSteering(r) ==
  /\ pc[r] = "boundary"
  /\ steering # <<>>
  /\ inHand' = [inHand EXCEPT ![r] = Head(steering)]
  /\ steering' = Tail(steering)
  /\ Goto(r, "inHand")
  /\ UNCHANGED <<agentVars, recordVars, it, logged, owed, asked, steerVars,
                 resetVars, discarded>>

\* OnSteering let it through, or there is no hook: EventSteering.
KeepSteering(r) ==
  /\ pc[r] = "inHand"
  /\ messages' = Append(messages, [kind |-> "steering", of |-> inHand[r],
                                   it |-> it[r], n |-> 0])
  /\ inHand' = [inHand EXCEPT ![r] = NoSteer]
  /\ Yield(r, "boundary")
  /\ UNCHANGED <<agentVars, toolLog, it, logged, owed, asked, steerVars,
                 resetVars, steering, discarded>>

PutBack(r) == steering' = Append(steering, inHand[r]) /\ UNCHANGED discarded
Forget(r) == discarded' = discarded \cup {inHand[r]} /\ UNCHANGED steering

\* OnSteering drops the message, or fails: the message is gone either way.
DiscardSteering(r) ==
  /\ pc[r] = "inHand"
  /\ Forget(r)
  /\ inHand' = [inHand EXCEPT ![r] = NoSteer]
  /\ Yield(r, "boundary")
  /\ UNCHANGED <<agentVars, recordVars, it, logged, owed, asked, steerVars,
                 resetVars>>

\* The default case of the select that ends the drain.
DrainOnce == TRUE
Drained == steering = <<>>

DrainEnds(r) ==
  /\ pc[r] = "boundary"
  /\ Drained
  /\ Goto(r, "iterate")
  /\ UNCHANGED <<agentVars, recordVars, localVars, steerVars, resetVars,
                 steering, discarded>>

IterationStart(r) ==
  /\ pc[r] = "iterate"
  /\ iteration' = it[r]
  /\ Yield(r, "request")
  /\ UNCHANGED <<running, runID, recordVars, localVars, steerVars, resetVars,
                 steering, discarded>>

-----------------------------------------------------------------------------
(* One LLM call.                                                           *)

\* buildRequest copies the transcript; TransformContext may fail.
BuildRequest(r) ==
  /\ pc[r] = "request"
  /\ asked' = [asked EXCEPT ![r] = Len(messages)]
  /\ Yield(r, "stream")
  /\ UNCHANGED <<agentVars, recordVars, it, inHand, logged, owed, steerVars,
                 resetVars, steering, discarded>>

\* The provider fails, the stream is malformed, or the consumer breaks in it.
StreamFails(r) ==
  /\ pc[r] = "stream"
  /\ Leave(r, "aborted")
  /\ UNCHANGED <<agentVars, recordVars, localVars, steerVars, resetVars,
                 steering, discarded>>

\* The stream is over: the assistant's message, with n tool calls, is recorded
\* and announced.  Without tool calls the run is done.
StreamEnds(r, n) ==
  /\ pc[r] = "stream"
  /\ Say(r, "assistant", n)
  /\ logged' = [logged EXCEPT ![r] = 0]
  /\ \/ Leave(r, "aborted")
     \/ n = 0 /\ Leave(r, "complete")
     \/ n > 0 /\ Goto(r, "tools")
  /\ UNCHANGED <<agentVars, toolLog, it, inHand, owed, asked, steerVars,
                 resetVars, steering, discarded>>

-----------------------------------------------------------------------------
(* The batch of tool calls.                                                *)

Entry(r, c) == [of |-> r, it |-> it[r], call |-> c]

\* Sequential execution logs each call before it reports it.
LogCall(r) ==
  /\ pc[r] = "tools"
  /\ logged[r] < Batch
  /\ toolLog' = Append(toolLog, Entry(r, logged[r] + 1))
  /\ logged' = [logged EXCEPT ![r] = @ + 1]
  /\ UNCHANGED <<agentVars, messages, it, inHand, owed, asked, steerVars,
                 resetVars, steering, pc, how, discarded>>

FinishOrder(r) == [c \in 1..Batch |-> Entry(r, Batch + 1 - c)]
SourceOrder(r) == [c \in 1..Batch |-> Entry(r, c)]

\* Parallel execution logs the whole batch at the end, and then returns.
LogBatch(r) ==
  /\ pc[r] = "tools"
  /\ logged[r] = 0
  /\ Batch > 1
  /\ toolLog' = toolLog \o SourceOrder(r)
  /\ logged' = [logged EXCEPT ![r] = Batch]
  /\ Goto(r, "results")
  /\ UNCHANGED <<agentVars, messages, it, inHand, owed, asked, steerVars,
                 resetVars, steering, discarded>>

\* BeforeToolCall fails, the consumer breaks, or a handler that ran when the
\* ctx was done is waited for: what is not logged yet never will be.
BatchAborts(r) ==
  /\ pc[r] = "tools"
  /\ Leave(r, "aborted")
  /\ UNCHANGED <<agentVars, recordVars, localVars, steerVars, resetVars,
                 steering, discarded>>

UnlessStopping(r) ==
  IF pc'[r] = "leaving" THEN UNCHANGED messages ELSE Say(r, "tool", logged[r])
SayResults(r) == Say(r, "tool", logged[r])

OneMore(r) == it[r] <= MaxIterations
NotLast(r) == it[r] < MaxIterations

\* One message with every result; then stop, if every result asked for it, or
\* the iterations are used up; or the next iteration.
AppendResults(r) ==
  /\ pc[r] \in {"tools", "results"}
  /\ logged[r] = Batch
  /\ \/ Leave(r, "terminated") /\ UNCHANGED <<it, owed>>
     \/ ~NotLast(r) /\ Leave(r, "maxIterations") /\ UNCHANGED <<it, owed>>
     \/ /\ NotLast(r)
        /\ it' = [it EXCEPT ![r] = @ + 1]
        /\ AtBoundary(r)
        /\ Goto(r, "boundary")
  /\ SayResults(r)
  /\ UNCHANGED <<agentVars, toolLog, inHand, logged, asked, steerVars,
                 resetVars, steering, discarded>>

-----------------------------------------------------------------------------
(* The other entry points.                                                 *)

PushOrDrop(m) ==
  steering' = IF Len(steering) < BufSize THEN Append(steering, m) ELSE steering
Push(m) == Len(steering) < BufSize /\ steering' = Append(steering, m)

\* Steer blocks while the channel is full, whether or not a run is there.
Steer(m) ==
  /\ steer[m] = "calling"
  /\ Push(m)
  /\ accepted' = Append(accepted, m)
  /\ steer' = [steer EXCEPT ![m] = "sent"]
  /\ UNCHANGED <<agentVars, recordVars, localVars, resetVars, pc, how, discarded>>

TriesAgain(m) == steer[m] = "calling" /\ UNCHANGED vars

\* The ctx of the Steer call is done first.
SteerGivesUp(m) ==
  /\ steer[m] = "calling"
  /\ steer' = [steer EXCEPT ![m] = "gaveUp"]
  /\ UNCHANGED <<agentVars, recordVars, localVars, accepted, resetVars, steering,
                 pc, how, discarded>>

MayAlwaysReset == TRUE
MayReset == ~running   \* it panics otherwise, and changes nothing

\* Reset clears the agent's fields and, still under mu, drains the channel. Steer
\* does not take mu: it may refill the channel while the drain goes on.
Reset ==
  /\ ~resetting
  /\ MayReset
  /\ resets < MaxResets
  /\ resetting' = TRUE
  /\ resets' = resets + 1
  /\ messages' = <<>>
  /\ toolLog' = <<>>
  /\ runID' = NoRun
  /\ iteration' = 0
  /\ resetAt' = Len(accepted)
  /\ UNCHANGED <<running, localVars, steerVars, steering, pc, how, discarded>>

ResetDrains ==
  /\ resetting
  /\ steering # <<>>
  /\ discarded' = discarded \cup {Head(steering)}
  /\ steering' = Tail(steering)
  /\ UNCHANGED <<agentVars, recordVars, localVars, steerVars, resetVars, pc, how>>

\* The default case of the select that ends the drain; the deferred unlock.
DrainedOrNot == TRUE
NothingLeft == steering = <<>>

ResetEnds ==
  /\ resetting
  /\ NothingLeft
  /\ resetting' = FALSE
  /\ resetAt' = Len(accepted)
  /\ UNCHANGED <<agentVars, recordVars, localVars, steerVars, resets, steering, pc,
                 how, discarded>>

-----------------------------------------------------------------------------
Step(r) ==
  \/ MarkRunning(r) \/ Refuse(r) \/ Begin(r) \/ MarkIdle(r)
  \/ TakeSteering(r) \/ KeepSteering(r) \/ DiscardSteering(r) \/ DrainEnds(r)
  \/ IterationStart(r) \/ BuildRequest(r) \/ StreamFails(r)
  \/ \E n \in 0..MaxCalls : StreamEnds(r, n)
  \/ LogCall(r) \/ LogBatch(r) \/ BatchAborts(r) \/ AppendResults(r)

\* Every Run returned and every Steer call too.
Finished ==
  /\ \A r \in Runs : pc[r] \in {"refused", "left"}
  /\ \A m \in Steers : steer[m] # "calling"
  /\ UNCHANGED vars

Next ==
  \/ \E r \in Runs : Step(r)
  \/ \E m \in Steers : Steer(m) \/ SteerGivesUp(m)
  \/ Reset \/ ResetDrains \/ ResetEnds
  \/ Finished

Spec == Init /\ [][Next]_vars

\* Each run's goroutine is scheduled: hooks, provider, handlers and consumer
\* return, and so does Reset.  Nobody has to call Steer, and a Steer may block
\* for ever.
FairSpec ==
  /\ Spec
  /\ \A r \in Runs : WF_vars(Step(r))
  /\ WF_vars(ResetDrains \/ ResetEnds)

-----------------------------------------------------------------------------
Inside(r) == pc[r] \notin {"new", "refused", "left"}
Position(m) == CHOOSE i \in DOMAIN accepted : accepted[i] = m
Entries(kind) == {i \in DOMAIN messages : messages[i].kind = kind}
Mine(r) == {i \in Entries("assistant") : messages[i].of = r}
Answered(i) == i < Len(messages) /\ messages[i + 1].kind = "tool"
Rank(S, i) == Cardinality({j \in S : j <= i})

\* Entry i of the transcript issued the call of entry k of the log.
Issued(i, k) == toolLog[k].of = messages[i].of /\ toolLog[k].it = messages[i].it

\* The type invariant: the agent's fields, the runs' locals and the history.
TypeOK ==
  /\ running \in BOOLEAN
  /\ runID \in Runs \cup {NoRun}
  /\ iteration \in 0..MaxIterations
  /\ messages \in Seq(Message)
  /\ toolLog \in Seq(LogEntry)
  /\ steering \in Seq(Steers) /\ Len(steering) <= BufSize
  /\ pc \in [Runs -> {"new", "refused", "marked", "boundary", "inHand", "iterate",
                      "request", "stream", "tools", "results", "leaving", "left"}]
  /\ it \in [Runs -> 0..MaxIterations]
  /\ inHand \in [Runs -> Steers \cup {NoSteer}]
  /\ logged \in [Runs -> 0..MaxCalls]
  /\ how \in [Runs -> {"none", "aborted", "complete", "terminated", "maxIterations"}]
  /\ steer \in [Steers -> {"calling", "sent", "gaveUp"}]
  /\ resetting \in BOOLEAN
  /\ resets \in 0..MaxResets
  /\ accepted \in Seq(Steers)
  /\ discarded \subseteq Steers
  /\ owed \in [Runs -> Nat]
  /\ asked \in [Runs -> Nat]
  /\ resetAt \in Nat

\* At most one run is inside RunMessage, the agent says it is running exactly
\* while one is, and the identity and iteration it shows are that run's: a
\* refused Run, or one that is leaving, takes nothing away from another.
RunExclusion ==
  /\ \A r, s \in Runs : Inside(r) /\ Inside(s) => r = s
  /\ running <=> \E r \in Runs : Inside(r)
  /\ \A r \in Runs : Inside(r) /\ pc[r] # "marked" =>
       runID = r /\ iteration \in {it[r] - 1, it[r]}

\* The transcript ends with the calls the run is executing.
OpenBatch(r) ==
  /\ Len(messages) > 0
  /\ LET a == messages[Len(messages)]
     IN  a.kind = "assistant" /\ a.of = r /\ a.it = it[r] /\ a.n > 0

\* What a run relies on while it is inside, though other runs, Steer and Reset
\* go on around it: the published iteration is the one it is in, it holds the
\* message it took, and the calls it executes are the transcript's last word.
RunState ==
  \A r \in Runs :
    /\ Inside(r) /\ pc[r] # "marked" => it[r] \in 1..MaxIterations
    /\ pc[r] \in {"boundary", "inHand", "iterate"} => iteration = it[r] - 1
    /\ pc[r] \in {"request", "stream", "tools", "results"} => iteration = it[r]
    /\ pc[r] = "inHand" => inHand[r] \in Steers
    /\ pc[r] \in {"tools", "results"} => OpenBatch(r) /\ logged[r] <= Batch

\* Results follow the calls they answer: a tool message stands directly after
\* the assistant message of the same run and iteration, one result per call.
ResultsFollowCalls ==
  \A i \in Entries("tool") :
    /\ i > 1
    /\ LET a == messages[i - 1]
       IN  a.kind = "assistant" /\ a.of = messages[i].of
           /\ a.it = messages[i].it /\ a.n = messages[i].n /\ a.n > 0

\* An assistant's tool calls are left unanswered only by a run that aborted, and
\* then nothing of that run follows: the next entry, if any, is the prompt of
\* another run.
UnansweredOnlyByAbort ==
  \A i \in Entries("assistant") :
    messages[i].n > 0 =>
      \/ Answered(i)
      \/ /\ i = Len(messages) \/ messages[i + 1].kind = "prompt"
         /\ LET r == messages[i].of
            IN  \/ how[r] = "aborted"
                \/ i = Len(messages) /\ pc[r] \in {"tools", "results"}

\* While the model answers, the transcript is the one the request copied, so
\* that the answer directly follows what it answers, steering included.
ReplyFollowsItsRequest ==
  \A r \in Runs : pc[r] = "stream" => Len(messages) = asked[r]

\* Steering is on time: a message the channel took before the run came to its
\* boundary is in the transcript when the next request is built, unless
\* OnSteering or Reset disposed of it.
SteeringOnTime ==
  \A r \in Runs : pc[r] \in {"iterate", "request", "stream"} =>
    \A k \in resetAt + 1 .. owed[r] :
      \/ accepted[k] \in discarded
      \/ \E i \in Entries("steering") : messages[i].of = accepted[k]

\* Steering is applied in the order the channel took it, at most once, never
\* between an assistant's calls and their results, and a fresh run starts clean:
\* nothing taken before the last Reset is applied after it.
SteeringInOrder ==
  \A i \in Entries("steering") :
    /\ messages[i].of \notin discarded
    /\ Position(messages[i].of) > resetAt
    /\ i > 1 /\ messages[i - 1].kind \in {"prompt", "steering", "tool"}
    /\ \A j \in Entries("steering") :
         i < j => Position(messages[i].of) < Position(messages[j].of)

\* A Steer that succeeded while a run was there, or before it, is never lost
\* silently: the message is in the channel, in a run's hand, in the transcript,
\* or was discarded. One that gave up left nothing behind.
SteeringConserved ==
  \A m \in Steers :
    LET waits == Cardinality({i \in DOMAIN steering : steering[i] = m})
        held  == Cardinality({r \in Runs : inHand[r] = m})
        done  == Cardinality({i \in Entries("steering") : messages[i].of = m})
        gone  == IF m \in discarded THEN 1 ELSE 0
    IN  /\ steer[m] # "sent" => waits + held + done + gone = 0
        /\ steer[m] = "sent" /\ Position(m) > resetAt => waits + held + done + gone = 1

\* A run makes at most MaxIterations LLM calls, numbered 1, 2, ... in the
\* transcript, and one that ran out of them made them all and left no call
\* unanswered.
IterationsBounded ==
  \A r \in Runs :
    /\ \A i \in Mine(r) : messages[i].it = Rank(Mine(r), i)
    /\ Cardinality(Mine(r)) <= MaxIterations
    /\ how[r] = "maxIterations" /\ Mine(r) # {} =>
         /\ Cardinality(Mine(r)) = MaxIterations
         /\ \A i \in Mine(r) : Answered(i)

\* The audit log and the transcript tell the same story: the log holds, in order,
\* the calls of every answered batch, each once, and besides them only the first
\* calls of a batch that is running or was aborted.
LogMatchesTranscript ==
  /\ \A k \in DOMAIN toolLog : \E i \in Entries("assistant") : Issued(i, k)
  /\ \A i \in Entries("assistant") :
       LET log == {k \in DOMAIN toolLog : Issued(i, k)}
       IN  /\ \A k \in log : toolLog[k].call = Rank(log, k)
           /\ Cardinality(log) <= messages[i].n
           /\ Answered(i) => Cardinality(log) = messages[i].n

\* Every Run returns, refused or over, and the agent is free again, whatever
\* Steer and Reset do around it.
RunsEnd == \A r \in Runs : <>(pc[r] \in {"refused", "left"})
=============================================================================

------------------------------ MODULE Session ------------------------------
(***************************************************************************)
(* A conversation that outlives the process.  The loop of AgentLoop runs   *)
(* on; any goroutine may set the system prompt or take a Snapshot, and the *)
(* caller keeps the last one.  The process may end at any moment.  The next*)
(* one has an agent from Restore, if it accepts the snapshot, or from New, *)
(* and the callers of Steer try again with what the restored transcript    *)
(* does not contain.                                                       *)
(*                                                                         *)
(* A prompt is the SetSystemPrompt call that gave it, 0 for the one of the *)
(* configuration, and whether its text is empty.  A usage is the message   *)
(* it was counted for.                                                     *)
(***************************************************************************)
EXTENDS AgentLoop

CONSTANTS NoUsage,       \* the zero llm.Usage
          NoSnapshot,
          MaxSets,       \* bound: calls of SetSystemPrompt
          MaxSnapshots,  \* bound: calls of Snapshot
          MaxRestarts    \* bound: processes that end

ASSUME SessionAssumption ==
  /\ NoUsage \notin Message
  /\ MaxSets \in Nat
  /\ MaxSnapshots \in Nat
  /\ MaxRestarts \in Nat

Prompt == [set : 0..MaxSets, empty : BOOLEAN]

VARIABLES
  systemPrompt, lastUsage,  \* Agent fields under mu
  system,     \* the System of each run's last request
  saved,      \* the last snapshot
  sets, snapshots, restarts,
  nudged      \* history: systemPrompt.set when the channel took each message

counters == <<sets, snapshots, restarts>>
sessionVars == <<vars, systemPrompt, lastUsage, system, saved, counters, nudged>>

\* Restore keeps the configured prompt instead of an empty one.
RestoredPrompt(cfg, snap) == IF snap.systemPrompt.empty THEN cfg ELSE snap.systemPrompt
ConfigPrompts == [set : {0}, empty : BOOLEAN]

SessionInit ==
  /\ Init
  /\ systemPrompt \in ConfigPrompts
  /\ lastUsage = NoUsage
  /\ system = [r \in Runs |-> systemPrompt]
  /\ saved = NoSnapshot
  /\ sets = 0 /\ snapshots = 0 /\ restarts = 0
  /\ nudged = [m \in Steers |-> 0]

-----------------------------------------------------------------------------
(* The agent while the process is up.                                      *)

PromptOfFirstRequest(r) ==
  LET built == {q \in Runs : asked[q] > 0}
  IN  IF built = {} THEN systemPrompt ELSE system[CHOOSE q \in built : TRUE]
LivePrompt(r) == systemPrompt

\* buildRequest reads the prompt with the transcript, under one lock, before it
\* calls TransformContext; a new answer brings its usage, under one lock.
LoopStep(r) ==
  /\ Step(r)
  /\ system' = IF pc[r] = "request" THEN [system EXCEPT ![r] = LivePrompt(r)] ELSE system
  /\ lastUsage' = IF pc[r] = "stream" /\ messages' # messages
                  THEN messages'[Len(messages')] ELSE lastUsage
  /\ UNCHANGED <<systemPrompt, saved, counters, nudged>>

SteerStep(m) ==
  /\ Steer(m) \/ SteerGivesUp(m)
  /\ nudged' = IF steer'[m] = "sent" THEN [nudged EXCEPT ![m] = systemPrompt.set] ELSE nudged
  /\ UNCHANGED <<systemPrompt, lastUsage, system, saved, counters>>

UsageKept == lastUsage
UsageCleared == NoUsage

ResetStep ==
  /\ \/ Reset /\ lastUsage' = UsageCleared
     \/ (ResetDrains \/ ResetEnds) /\ UNCHANGED lastUsage
  /\ UNCHANGED <<systemPrompt, system, saved, counters, nudged>>

SetSystemPrompt(empty) ==
  /\ ~resetting
  /\ sets < MaxSets
  /\ sets' = sets + 1
  /\ systemPrompt' = [set |-> sets', empty |-> empty]
  /\ UNCHANGED <<vars, lastUsage, system, saved, snapshots, restarts, nudged>>

\* The copies Snapshot makes of the fields, all under one read lock.
View == [runID |-> runID, iteration |-> iteration, isRunning |-> running,
         systemPrompt |-> systemPrompt, lastUsage |-> lastUsage,
         messages |-> messages, toolLog |-> toolLog]

Snapshot ==
  /\ ~resetting
  /\ snapshots < MaxSnapshots
  /\ snapshots' = snapshots + 1
  /\ saved' = View
  /\ UNCHANGED <<vars, systemPrompt, lastUsage, system, sets, restarts, nudged>>

-----------------------------------------------------------------------------
(* The process ends, and the next one begins.                              *)

AnySnapshot == saved # NoSnapshot
Restorable == saved # NoSnapshot /\ ~saved.isRunning

OldChannel == steering
NewChannel == <<>>

\* What every new process has: a new agent, no goroutine of the old one, callers
\* of Steer that try again unless the transcript already holds their message.
ProcessEnds ==
  /\ restarts < MaxRestarts
  /\ restarts' = restarts + 1
  /\ running' = FALSE
  /\ resetting' = FALSE
  /\ steering' = NewChannel
  /\ pc' = [r \in Runs |-> IF Inside(r) THEN "left" ELSE pc[r]]
  /\ inHand' = [r \in Runs |-> NoSteer]
  /\ steer' = [m \in Steers |->
       IF \E i \in DOMAIN messages' : messages'[i].kind = "steering" /\ messages'[i].of = m
       THEN "sent" ELSE "calling"]
  /\ accepted' = <<>>
  /\ discarded' = {}
  /\ resetAt' = 0
  /\ UNCHANGED <<it, logged, owed, asked, how, resets, system, sets, snapshots>>

RestoredUsage(snap) == snap.lastUsage

Restore(cfg) ==
  /\ Restorable
  /\ systemPrompt' = RestoredPrompt(cfg, saved)
  /\ messages' = saved.messages
  /\ toolLog' = saved.toolLog
  /\ lastUsage' = RestoredUsage(saved)
  /\ runID' = saved.runID
  /\ iteration' = saved.iteration
  /\ nudged' = IF saved.systemPrompt.empty THEN [m \in Steers |-> 0] ELSE nudged
  /\ UNCHANGED saved
  /\ ProcessEnds

New(cfg) ==
  /\ systemPrompt' = cfg
  /\ messages' = <<>>
  /\ toolLog' = <<>>
  /\ lastUsage' = NoUsage
  /\ runID' = NoRun
  /\ iteration' = 0
  /\ saved' = NoSnapshot
  /\ UNCHANGED nudged
  /\ ProcessEnds

-----------------------------------------------------------------------------
SessionNext ==
  \/ \E r \in Runs : LoopStep(r)
  \/ \E m \in Steers : SteerStep(m)
  \/ ResetStep
  \/ Finished /\ UNCHANGED sessionVars
  \/ \E empty \in BOOLEAN : SetSystemPrompt(empty)
  \/ Snapshot
  \/ \E cfg \in ConfigPrompts : Restore(cfg) \/ New(cfg)

SessionSpec == SessionInit /\ [][SessionNext]_sessionVars

-----------------------------------------------------------------------------
Last(msgs, kind) ==
  {i \in DOMAIN msgs : msgs[i].kind = kind /\ \A j \in i + 1 .. Len(msgs) : msgs[j].kind # kind}

\* The usage is the last answer's, and the run id is that of the last prompt.
OneStory(a) ==
  /\ \A i \in Last(a.messages, "assistant") : a.lastUsage = a.messages[i]
  /\ Last(a.messages, "assistant") = {} => a.lastUsage = NoUsage
  /\ \A i \in Last(a.messages, "prompt") : a.runID = a.messages[i].of
  /\ Last(a.messages, "prompt") = {} => a.runID = NoRun

\* What the agent tells about its transcript is about this transcript, in the
\* agent and in every snapshot, whatever runs, Reset and restarts came between:
\* the usage is the one of its last answer, the run id the one of its last run.
FieldsAgree == OneStory(View) /\ (saved # NoSnapshot => OneStory(saved))

\* A client that sets a prompt and then steers is never answered with its
\* message under the older prompt, although prompt and message travel apart and
\* the process may end in between; an empty prompt, which Restore does not keep,
\* is excepted.
NudgeUnderItsPrompt ==
  \A r \in Runs : pc[r] = "stream" =>
    \A i \in Entries("steering") :
      i <= asked[r] => system[r].set >= nudged[messages[i].of]

\* A message that is steered again after a restart, as the callers must, is
\* still in one place only: it is never applied twice.
SteeredOnce ==
  \A m \in Steers :
    Cardinality({i \in DOMAIN steering : steering[i] = m})
    + Cardinality({r \in Runs : inHand[r] = m})
    + Cardinality({i \in Entries("steering") : messages[i].of = m}) <= 1
=============================================================================

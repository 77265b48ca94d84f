--------------------------- MODULE SessionProofs ----------------------------
(***************************************************************************)
(* Proofs about Session: the agent's fields, the transcript and the prompt *)
(* across snapshots and restarts.  The loop's invariant holds of a session *)
(* too, since a restart leaves no run inside; what the session adds is that*)
(* the snapshot, which a restart brings back, satisfies what the agent did *)
(* when it was taken.                                                      *)
(***************************************************************************)
EXTENDS Session, AgentLoopProofs

\* A transcript in which results follow their calls.
WellFollowed(msgs) ==
  \A i \in {j \in DOMAIN msgs : msgs[j].kind = "tool"} :
    /\ i > 1
    /\ LET a == msgs[i - 1]
       IN  a.kind = "assistant" /\ a.of = msgs[i].of
           /\ a.it = msgs[i].it /\ a.n = msgs[i].n /\ a.n > 0

\* A transcript in which no steering message stands twice.
SteeringIn(msgs) == {i \in DOMAIN msgs : msgs[i].kind = "steering"}
AppliedOnce(msgs) == \A i, j \in SteeringIn(msgs) : msgs[i].of = msgs[j].of => i = j

SessionTypeOK ==
  /\ systemPrompt \in Prompt
  /\ system \in [Runs -> Prompt]
  /\ sets \in 0..MaxSets
  /\ systemPrompt.set <= sets
  /\ nudged \in [Steers -> 0..MaxSets]

\* What a restart relies on.
SavedOK ==
  saved # NoSnapshot =>
    /\ saved.messages \in Seq(Message) /\ saved.toolLog \in Seq(LogEntry)
    /\ saved.runID \in Runs \cup {NoRun} /\ saved.iteration \in 0..MaxIterations
    /\ saved.systemPrompt \in Prompt /\ saved.systemPrompt.set <= sets
    /\ WellFollowed(saved.messages)
    /\ AppliedOnce(saved.messages)
    /\ \A i \in SteeringIn(saved.messages) :
         /\ steer[saved.messages[i].of] = "sent"
         /\ \/ saved.systemPrompt.empty
            \/ nudged[saved.messages[i].of] <= saved.systemPrompt.set

\* A message is sent once, and from then on in one place at most.
Places ==
  /\ \A j \in DOMAIN steering : steer[steering[j]] = "sent"
  /\ \A j, k \in DOMAIN steering : steering[j] = steering[k] => j = k
  /\ \A r \in Runs : IF pc[r] = "inHand"
                     THEN /\ steer[inHand[r]] = "sent"
                          /\ \A j \in DOMAIN steering : steering[j] # inHand[r]
                     ELSE inHand[r] = NoSteer
  /\ \A i \in SteeringIn(messages) :
       /\ steer[messages[i].of] = "sent"
       /\ \A j \in DOMAIN steering : steering[j] # messages[i].of
       /\ \A r \in Runs : inHand[r] # messages[i].of
  /\ AppliedOnce(messages)

\* Messages that were sent met no later prompt than the agent has.
Prompted ==
  /\ \A m \in Steers : steer[m] = "sent" => nudged[m] <= systemPrompt.set
  /\ \A r \in Runs : pc[r] = "stream" =>
       \A i \in SteeringIn(messages) : nudged[messages[i].of] <= system[r].set

SessionIInv == IInv /\ SessionTypeOK /\ SavedOK /\ Places /\ Prompted /\ FieldsAgree

-----------------------------------------------------------------------------
(* The loop's invariant.                                                   *)

\* A session starts as a fresh agent.
LEMMA InitSession == SessionInit => SessionIInv
<1> SUFFICES ASSUME SessionInit PROVE SessionIInv
  OBVIOUS
<1>1. IInv
  BY InitIInv DEF SessionInit
<1>2. /\ messages = <<>> /\ steering = <<>> /\ saved = NoSnapshot
      /\ lastUsage = NoUsage /\ runID = NoRun
      /\ \A r \in Runs : pc[r] = "new" /\ inHand[r] = NoSteer
      /\ \A m \in Steers : steer[m] = "calling"
  BY DEF SessionInit, Init
<1>3. /\ SteeringIn(messages) = {} /\ DOMAIN steering = {}
      /\ \A kind : Last(messages, kind) = {}
  BY <1>2 DEF SteeringIn, Last
<1>4. SessionTypeOK
  BY SessionAssumption DEF SessionAssumption, SessionInit, ConfigPrompts, SessionTypeOK, Prompt
<1>5. SavedOK /\ Places /\ Prompted
  BY <1>2, <1>3 DEF SavedOK, Places, AppliedOnce, Prompted
<1>6. FieldsAgree
  BY <1>2, <1>3 DEF FieldsAgree, OneStory, View
<1> QED
  BY <1>1, <1>4, <1>5, <1>6 DEF SessionIInv

\* What every step of the agent itself leaves alone.
LEMMA SessionMoves ==
  ASSUME [SessionNext]_sessionVars
  PROVE  \/ [Next]_vars
         \/ \E cfg \in ConfigPrompts : Restore(cfg) \/ New(cfg)
BY DEF SessionNext, sessionVars, LoopStep, SteerStep, ResetStep, SetSystemPrompt,
       Snapshot, Next

\* A restart leaves nobody inside, and a transcript that was one before.
LEMMA RestartIInv ==
  ASSUME IInv, SavedOK, NEW cfg \in ConfigPrompts, Restore(cfg) \/ New(cfg)
  PROVE  IInv'
<1>1. /\ ProcessEnds
      /\ messages' \in Seq(Message) /\ toolLog' \in Seq(LogEntry)
      /\ runID' \in Runs \cup {NoRun} /\ iteration' \in 0..MaxIterations
      /\ WellFollowed(messages')
  <2>1. CASE Restore(cfg)
    BY <2>1 DEF Restore, Restorable, SavedOK
  <2>2. CASE New(cfg)
    BY <2>2, AgentAssumption DEF AgentAssumption, New, WellFollowed
  <2> QED
    BY <2>1, <2>2
<1>2. /\ \A r \in Runs : pc'[r] \in {"new", "refused", "left"}
      /\ running' = FALSE
  BY <1>1 DEF ProcessEnds, Inside
<1>3. \A r \in Runs : ~Inside(r)'
  BY <1>2 DEF Inside
<1>4. TypeOK'
  <2>1. /\ pc' \in [Runs -> {"new", "refused", "left"}]
        /\ inHand' \in [Runs -> Steers \cup {NoSteer}]
        /\ steer' \in [Steers -> {"calling", "sent", "gaveUp"}]
    BY <1>1, <1>2 DEF ProcessEnds
  <2>2. /\ steering' = <<>> /\ accepted' = <<>> /\ discarded' = {} /\ resetAt' = 0
        /\ resetting' = FALSE
        /\ UNCHANGED <<it, logged, owed, asked, how, resets>>
    BY <1>1 DEF ProcessEnds, NewChannel
  <2>3. steering' \in Seq(Steers) /\ Len(steering') <= BufSize /\ accepted' \in Seq(Steers)
    BY <2>2, AgentAssumption DEF AgentAssumption
  <2> QED
    BY <1>1, <1>2, <2>1, <2>2, <2>3 DEF IInv, TypeOK
<1>5. RunExclusion' /\ RunState' /\ ReplyFollowsItsRequest'
  BY <1>2, <1>3 DEF RunExclusion, RunState, ReplyFollowsItsRequest
<1>6. ResultsFollowCalls'
  BY <1>1 DEF WellFollowed, ResultsFollowCalls, Entries
<1> QED
  BY <1>4, <1>5, <1>6 DEF IInv

\* The loop's invariant survives every step of a session.
LEMMA LoopHolds ==
  ASSUME IInv, SavedOK, [SessionNext]_sessionVars
  PROVE  IInv'
BY SessionMoves, NextIInv, RestartIInv

-----------------------------------------------------------------------------
(* Prompts and the snapshot.                                               *)

\* Every step keeps the types of what a session adds.
LEMMA SessionTypeStep ==
  ASSUME SessionTypeOK, SavedOK, [SessionNext]_sessionVars
  PROVE  SessionTypeOK'
<1> USE SessionAssumption DEF SessionAssumption, SessionTypeOK, Prompt, counters
<1>1. ASSUME NEW r \in Runs, LoopStep(r) PROVE SessionTypeOK'
  BY <1>1 DEF LoopStep, LivePrompt
<1>2. ASSUME NEW m \in Steers, SteerStep(m) PROVE SessionTypeOK'
  BY <1>2 DEF SteerStep
<1>3. CASE ResetStep
  BY <1>3 DEF ResetStep
<1>4. ASSUME NEW empty \in BOOLEAN, SetSystemPrompt(empty) PROVE SessionTypeOK'
  <2>1. sets' \in 0..MaxSets
    BY <1>4 DEF SetSystemPrompt
  <2>2. systemPrompt' = [set |-> sets', empty |-> empty] /\ UNCHANGED <<system, nudged>>
    BY <1>4 DEF SetSystemPrompt
  <2> QED
    BY <2>1, <2>2
<1>5. CASE Snapshot
  BY <1>5 DEF Snapshot
<1>6. ASSUME NEW cfg \in ConfigPrompts, Restore(cfg) PROVE SessionTypeOK'
  <2>1. UNCHANGED <<sets, system>> /\ nudged' \in [Steers -> 0..MaxSets]
    BY <1>6 DEF Restore, ProcessEnds
  <2>2. systemPrompt' \in Prompt /\ systemPrompt'.set <= sets
    BY <1>6 DEF Restore, Restorable, RestoredPrompt, ConfigPrompts, SavedOK
  <2> QED
    BY <2>1, <2>2
<1>7. ASSUME NEW cfg \in ConfigPrompts, New(cfg) PROVE SessionTypeOK'
  BY <1>7 DEF New, ProcessEnds, ConfigPrompts
<1>8. CASE UNCHANGED sessionVars
  BY <1>8 DEF sessionVars
<1> QED
  BY <1>1, <1>2, <1>3, <1>4, <1>5, <1>6, <1>7, <1>8 DEF SessionNext

\* The agent's own steps give no message that was sent another state.
LEMMA SentStays ==
  ASSUME TypeOK, [Next]_vars, NEW m \in Steers, steer[m] = "sent"
  PROVE  steer'[m] = "sent"
BY DEF TypeOK, Next, Step, MarkRunning, Refuse, Begin, MarkIdle, TakeSteering, KeepSteering,
     DiscardSteering, DrainEnds, IterationStart, BuildRequest, StreamFails, StreamEnds,
     LogCall, LogBatch, BatchAborts, AppendResults, Steer, SteerGivesUp, Reset, ResetDrains,
     ResetEnds, Finished, vars, steerVars

\* The authors of steering entries are Steer calls.
LEMMA SteeringAuthors ==
  ASSUME NEW msgs \in Seq(Message), NEW i \in SteeringIn(msgs)
  PROVE  msgs[i].of \in Steers
BY DEF SteeringIn, Message

\* Only the Steer call that is sent notes a prompt, and it was not sent before.
LEMMA NotedOnce ==
  ASSUME TypeOK, SessionTypeOK, NEW p \in Steers, SteerStep(p)
  PROVE  /\ \A m \in Steers : steer[m] = "sent" => nudged'[m] = nudged[m]
         /\ \A m \in Steers : steer'[m] = "sent" =>
              steer[m] = "sent" \/ nudged'[m] = systemPrompt.set
         /\ UNCHANGED <<systemPrompt, system, saved, sets, pc, messages>>
BY DEF TypeOK, SessionTypeOK, SteerStep, Steer, SteerGivesUp, recordVars, counters

\* The snapshot stays fit for a restart.
LEMMA SavedStep ==
  ASSUME IInv, SessionTypeOK, SavedOK, Places, Prompted, [SessionNext]_sessionVars
  PROVE  SavedOK'
<1> USE DEF counters
<1>1. ASSUME UNCHANGED saved, sets' \in Nat, sets <= sets',
             \A m \in Steers : steer[m] = "sent" =>
               steer'[m] = "sent" /\ (nudged'[m] = nudged[m] \/ nudged'[m] = 0)
      PROVE  SavedOK'
  <2>1. saved # NoSnapshot => saved.systemPrompt \in Prompt /\ saved.systemPrompt.set \in Nat
    BY SessionAssumption DEF SessionAssumption, SavedOK, Prompt
  <2>2. sets \in Nat /\ \A m \in Steers : nudged[m] \in Nat
    BY SessionAssumption DEF SessionAssumption, SessionTypeOK
  <2>3. saved # NoSnapshot => saved.systemPrompt.set <= sets'
    BY <1>1, <2>1, <2>2 DEF SavedOK
  <2>4. ASSUME saved # NoSnapshot, NEW i \in SteeringIn(saved.messages)
        PROVE  /\ steer'[saved.messages[i].of] = "sent"
               /\ \/ saved.systemPrompt.empty
                  \/ nudged'[saved.messages[i].of] <= saved.systemPrompt.set
    <3>1. saved.messages[i].of \in Steers
      BY <2>4, SteeringAuthors DEF SavedOK
    <3> QED
      BY <1>1, <2>1, <2>2, <2>4, <3>1 DEF SavedOK
  <2> QED
    BY <1>1, <2>3, <2>4 DEF SavedOK
<1>2. sets \in Nat /\ sets <= sets
  BY SessionAssumption DEF SessionAssumption, SessionTypeOK
<1>3. ASSUME [Next]_vars, UNCHANGED <<saved, nudged>>, sets' \in Nat, sets <= sets'
      PROVE  SavedOK'
  BY <1>1, <1>3, SentStays DEF IInv
<1>4. ASSUME NEW r \in Runs, LoopStep(r) PROVE SavedOK'
  BY <1>2, <1>3, <1>4 DEF LoopStep, Next
<1>5. ASSUME NEW m \in Steers, SteerStep(m) PROVE SavedOK'
  <2>1. [Next]_vars
    BY <1>5 DEF SteerStep, Next
  <2> QED
    BY <1>1, <1>2, <1>5, <2>1, SentStays, NotedOnce DEF IInv
<1>6. CASE ResetStep
  BY <1>2, <1>3, <1>6 DEF ResetStep, Next
<1>7. ASSUME NEW empty \in BOOLEAN, SetSystemPrompt(empty) PROVE SavedOK'
  <2>1. [Next]_vars /\ UNCHANGED <<saved, nudged>> /\ sets' = sets + 1
    BY <1>7 DEF SetSystemPrompt
  <2> QED
    BY <1>2, <1>3, <2>1
<1>8. CASE Snapshot
  <2>1. /\ saved' = View /\ UNCHANGED <<steer, nudged, sets, messages>>
    BY <1>8 DEF Snapshot, vars, steerVars, recordVars
  <2>2. /\ View.messages = messages /\ View.toolLog = toolLog /\ View.runID = runID
        /\ View.iteration = iteration /\ View.systemPrompt = systemPrompt
    BY DEF View
  <2>3. /\ messages \in Seq(Message) /\ toolLog \in Seq(LogEntry)
        /\ runID \in Runs \cup {NoRun} /\ iteration \in 0..MaxIterations
        /\ systemPrompt \in Prompt /\ systemPrompt.set <= sets
    BY DEF IInv, TypeOK, SessionTypeOK
  <2>4. WellFollowed(messages)
    BY DEF IInv, ResultsFollowCalls, Entries, WellFollowed
  <2>5. AppliedOnce(messages) /\ \A i \in SteeringIn(messages) :
          /\ steer[messages[i].of] = "sent" /\ messages[i].of \in Steers
          /\ nudged[messages[i].of] <= systemPrompt.set
    BY <2>3, SteeringAuthors DEF Places, Prompted
  <2> HIDE DEF View
  <2>6. SavedOK'
    BY <2>1, <2>2, <2>3, <2>4, <2>5 DEF SavedOK
  <2> QED
    BY <2>6
<1>9. ASSUME NEW cfg \in ConfigPrompts, Restore(cfg) PROVE SavedOK'
  <2>1. /\ saved # NoSnapshot /\ messages' = saved.messages /\ UNCHANGED <<saved, sets>>
        /\ nudged' = IF saved.systemPrompt.empty THEN [m \in Steers |-> 0] ELSE nudged
        /\ \A m \in Steers :
             (\E i \in SteeringIn(messages') : messages'[i].of = m) => steer'[m] = "sent"
    BY <1>9 DEF Restore, Restorable, ProcessEnds, SteeringIn
  <2>2. ASSUME NEW i \in SteeringIn(saved.messages)
        PROVE  /\ steer'[saved.messages[i].of] = "sent"
               /\ \/ saved.systemPrompt.empty
                  \/ nudged'[saved.messages[i].of] <= saved.systemPrompt.set
    <3>1. saved.messages[i].of \in Steers
      BY <2>1, <2>2, SteeringAuthors DEF SavedOK
    <3> QED
      BY <2>1, <2>2, <3>1 DEF SavedOK
  <2> QED
    BY <2>1, <2>2 DEF SavedOK
<1>10. ASSUME NEW cfg \in ConfigPrompts, New(cfg) PROVE SavedOK'
  BY <1>10 DEF New, SavedOK
<1>11. CASE UNCHANGED sessionVars
  BY <1>2, <1>3, <1>11 DEF sessionVars
<1>12. CASE Finished /\ UNCHANGED sessionVars
  BY <1>11, <1>12
<1> QED
  BY <1>4, <1>5, <1>6, <1>7, <1>8, <1>9, <1>10, <1>11, <1>12 DEF SessionNext

-----------------------------------------------------------------------------
(* One place for each message.                                             *)

\* A restart empties the channel and every hand, and a message counts as sent
\* exactly when the transcript holds it.
LEMMA RestartPlaces ==
  ASSUME SavedOK, NEW cfg \in ConfigPrompts, Restore(cfg) \/ New(cfg)
  PROVE  /\ Places'
         /\ \A m \in Steers : steer'[m] = "sent" =>
              \E i \in SteeringIn(messages') : messages'[i].of = m
<1>1. /\ steering' = <<>> /\ \A r \in Runs : inHand'[r] = NoSteer /\ pc'[r] # "inHand"
      /\ steer' = [m \in Steers |->
           IF \E i \in SteeringIn(messages') : messages'[i].of = m THEN "sent" ELSE "calling"]
  BY DEF Restore, New, ProcessEnds, NewChannel, SteeringIn, Inside
<1>2. messages' \in Seq(Message) /\ AppliedOnce(messages')
  <2>1. CASE Restore(cfg)
    BY <2>1 DEF Restore, Restorable, SavedOK
  <2>2. CASE New(cfg)
    BY <2>2 DEF New, AppliedOnce, SteeringIn
  <2> QED
    BY <2>1, <2>2
<1>3. ASSUME NEW i \in SteeringIn(messages')
      PROVE  messages'[i].of \in Steers /\ steer'[messages'[i].of] = "sent"
  BY <1>1, <1>2, SteeringAuthors
<1>4. DOMAIN steering' = {} /\ NoSteer \notin Steers
  BY <1>1, AgentAssumption DEF AgentAssumption
<1>5. Places'
  BY <1>1, <1>2, <1>3, <1>4 DEF Places
<1> QED
  BY <1>1, <1>5

\* Every step of the agent keeps each message in its place, or moves it.
LEMMA PlacesStep ==
  ASSUME IInv, Places, [Next]_vars
  PROVE  Places'
<1>0. /\ TypeOK /\ messages \in Seq(Message) /\ steering \in Seq(Steers)
      /\ inHand \in [Runs -> Steers \cup {NoSteer}] /\ NoSteer \notin Steers
      /\ DOMAIN steering = 1..Len(steering) /\ Len(steering) \in Nat
      /\ \A j \in DOMAIN steering : steering[j] \in Steers
      /\ \A i \in SteeringIn(messages) : messages[i].of \in Steers
  <2>1. /\ TypeOK /\ messages \in Seq(Message) /\ steering \in Seq(Steers)
        /\ inHand \in [Runs -> Steers \cup {NoSteer}]
    BY DEF IInv, TypeOK
  <2>2. NoSteer \notin Steers
    BY AgentAssumption DEF AgentAssumption
  <2> QED
    BY <2>1, <2>2, SteeringAuthors
<1>1. CASE Aside
  <2>1. /\ UNCHANGED <<steering, inHand>>
        /\ \A s \in Runs : pc'[s] = "inHand" <=> pc[s] = "inHand"
        /\ \A m \in Steers : steer'[m] = "sent" <=> steer[m] = "sent"
        /\ SteeringIn(messages)' = SteeringIn(messages)
        /\ \A i \in SteeringIn(messages) : messages'[i] = messages[i]
    BY <1>1 DEF Aside, SteeringIn, Entries
  <2>2. \A s \in Runs : pc[s] = "inHand" => inHand[s] \in Steers
    BY DEF IInv, RunState
  <2> QED
    BY <1>0, <2>1, <2>2 DEF Places, AppliedOnce
<1>2. ASSUME steering # <<>>, steering' = Tail(steering)
      PROVE  /\ \A j \in DOMAIN steering' : /\ steering'[j] = steering[j + 1]
                                            /\ j + 1 \in DOMAIN steering /\ j + 1 # 1
             /\ 1 \in DOMAIN steering /\ Head(steering) = steering[1]
             /\ \A j, k \in DOMAIN steering' : j + 1 = k + 1 => j = k
  BY <1>0, <1>2
<1>3. ASSUME NEW r \in Runs, TakeSteering(r) PROVE Places'
  <2>1. /\ steering # <<>> /\ steering' = Tail(steering) /\ UNCHANGED <<messages, steer>>
        /\ pc'[r] = "inHand" /\ inHand'[r] = Head(steering)
        /\ \A s \in Runs \ {r} : pc'[s] = pc[s] /\ inHand'[s] = inHand[s]
    BY <1>0, <1>3 DEF TakeSteering, Goto, TypeOK, recordVars, steerVars
  <2>2. \A s \in Runs \ {r} : pc[s] # "inHand"
    <3>1. \A s \in Runs \ {r} : ~Inside(s)
      BY <1>3, OthersOutside DEF IInv, Inside, TakeSteering
    <3> QED
      BY <3>1 DEF Inside
  <2>3. /\ SteeringIn(messages)' = SteeringIn(messages)
        /\ AppliedOnce(messages)' <=> AppliedOnce(messages)
    BY <2>1 DEF SteeringIn, AppliedOnce
  <2>4. \A j \in DOMAIN steering' : steering'[j] # Head(steering)
    BY <1>2, <2>1 DEF Places
  <2>5. /\ \A j \in DOMAIN steering' : steer'[steering'[j]] = "sent"
        /\ \A j, k \in DOMAIN steering' : steering'[j] = steering'[k] => j = k
    BY <1>2, <2>1 DEF Places
  <2>6. ASSUME NEW s \in Runs
        PROVE  IF pc'[s] = "inHand"
               THEN /\ steer'[inHand'[s]] = "sent"
                    /\ \A j \in DOMAIN steering' : steering'[j] # inHand'[s]
               ELSE inHand'[s] = NoSteer
    BY <1>2, <2>1, <2>2, <2>4 DEF Places
  <2>7. ASSUME NEW i \in SteeringIn(messages)
        PROVE  /\ steer'[messages[i].of] = "sent"
               /\ \A j \in DOMAIN steering' : steering'[j] # messages[i].of
               /\ \A s \in Runs : inHand'[s] # messages[i].of
    BY <1>2, <2>1 DEF Places
  <2> QED
    BY <2>1, <2>3, <2>5, <2>6, <2>7 DEF Places
<1>4. ASSUME NEW r \in Runs, KeepSteering(r) PROVE Places'
  <2> DEFINE n == Len(messages) + 1
             e == [kind |-> "steering", of |-> inHand[r], it |-> it[r], n |-> 0]
  <2>1. /\ messages' = Append(messages, e) /\ UNCHANGED <<steering, steer>>
        /\ pc[r] = "inHand" /\ pc'[r] # "inHand" /\ inHand'[r] = NoSteer
        /\ \A s \in Runs \ {r} : pc'[s] = pc[s] /\ inHand'[s] = inHand[s]
    BY <1>0, <1>4 DEF KeepSteering, Goto, Leave, Yield, TypeOK, steerVars
  <2>2. \A s \in Runs \ {r} : pc[s] # "inHand"
    BY <2>1, OneHand
  <2>3. /\ messages'[n] = e /\ \A i \in DOMAIN messages : messages'[i] = messages[i]
        /\ DOMAIN messages' = DOMAIN messages \cup {n}
    BY <1>0, <2>1, Grown
  <2> HIDE DEF n
  <2>4. /\ SteeringIn(messages)' = SteeringIn(messages) \cup {n}
        /\ \A i \in SteeringIn(messages) : messages'[i] = messages[i]
    BY <2>3 DEF SteeringIn
  <2>5. /\ steer[inHand[r]] = "sent" /\ \A j \in DOMAIN steering : steering[j] # inHand[r]
        /\ inHand[r] \in Steers
        /\ \A i \in SteeringIn(messages) : messages[i].of # inHand[r]
    BY <1>0, <2>1 DEF Places, IInv, RunState
  <2>6. AppliedOnce(messages)'
    BY <2>3, <2>4, <2>5 DEF Places, AppliedOnce
  <2>7. ASSUME NEW i \in SteeringIn(messages)'
        PROVE  /\ steer[messages'[i].of] = "sent"
               /\ \A j \in DOMAIN steering : steering[j] # messages'[i].of
               /\ messages'[i].of \in Steers
    BY <1>0, <2>3, <2>4, <2>5, <2>7 DEF Places
  <2>8. \A s \in Runs : pc'[s] # "inHand" /\ inHand'[s] = NoSteer
    BY <2>1, <2>2 DEF Places
  <2>9. \A i \in SteeringIn(messages)' : \A s \in Runs : inHand'[s] # messages'[i].of
    BY <1>0, <2>7, <2>8
  <2> QED
    BY <2>1, <2>6, <2>7, <2>8, <2>9 DEF Places
<1>5. ASSUME NEW r \in Runs, DiscardSteering(r) PROVE Places'
  <2>1. /\ UNCHANGED <<steering, steer, messages>>
        /\ pc[r] = "inHand" /\ pc'[r] # "inHand" /\ inHand'[r] = NoSteer
        /\ \A s \in Runs \ {r} : pc'[s] = pc[s] /\ inHand'[s] = inHand[s]
    BY <1>0, <1>5 DEF DiscardSteering, Forget, Goto, Leave, Yield, TypeOK, steerVars,
        recordVars
  <2>2. \A s \in Runs : pc'[s] # "inHand" /\ inHand'[s] = NoSteer
    BY <2>1, OneHand DEF Places
  <2>3. /\ SteeringIn(messages)' = SteeringIn(messages)
        /\ AppliedOnce(messages)' <=> AppliedOnce(messages)
    BY <2>1 DEF SteeringIn, AppliedOnce
  <2> QED
    BY <1>0, <2>1, <2>2, <2>3 DEF Places
<1>6. ASSUME NEW m \in Steers, Steer(m) PROVE Places'
  <2> DEFINE n == Len(steering) + 1
  <2>1. /\ UNCHANGED <<messages, pc, inHand>> /\ steer[m] # "sent"
        /\ steer' = [steer EXCEPT ![m] = "sent"]
        /\ steer \in [Steers -> {"calling", "sent", "gaveUp"}]
        /\ steering' = Append(steering, m)
    BY <1>0, <1>6 DEF Steer, Push, TypeOK, localVars, recordVars
  <2>2. /\ DOMAIN steering' = DOMAIN steering \cup {n} /\ steering'[n] = m
        /\ \A j \in DOMAIN steering : steering'[j] = steering[j]
    BY <1>0, <2>1
  <2> HIDE DEF n
  <2>3. \A p \in Steers : steer[p] = "sent" => steer'[p] = "sent" /\ p # m
    BY <2>1
  <2>4. steer'[m] = "sent"
    BY <2>1
  <2>5. \A s \in Runs : pc[s] = "inHand" => inHand[s] \in Steers
    BY DEF IInv, RunState
  <2>6. /\ SteeringIn(messages)' = SteeringIn(messages)
        /\ AppliedOnce(messages)' <=> AppliedOnce(messages)
    BY <2>1 DEF SteeringIn, AppliedOnce
  <2>7. /\ \A j \in DOMAIN steering' : steer'[steering'[j]] = "sent"
        /\ \A j, k \in DOMAIN steering' : steering'[j] = steering'[k] => j = k
    BY <1>0, <2>2, <2>3, <2>4 DEF Places
  <2>8. ASSUME NEW s \in Runs, pc[s] = "inHand"
        PROVE  /\ steer'[inHand[s]] = "sent"
               /\ \A j \in DOMAIN steering' : steering'[j] # inHand[s]
    BY <2>2, <2>3, <2>5, <2>8 DEF Places
  <2>9. ASSUME NEW i \in SteeringIn(messages)
        PROVE  /\ steer'[messages[i].of] = "sent"
               /\ \A j \in DOMAIN steering' : steering'[j] # messages[i].of
    BY <1>0, <2>2, <2>3 DEF Places
  <2> QED
    BY <2>1, <2>6, <2>7, <2>8, <2>9 DEF Places
<1>7. CASE Reset
  <2>1. /\ UNCHANGED <<steering, steer, pc, inHand>> /\ messages' = <<>>
    BY <1>7 DEF Reset, steerVars, localVars
  <2>2. SteeringIn(messages)' = {} /\ AppliedOnce(messages)'
    BY <2>1 DEF SteeringIn, AppliedOnce
  <2> QED
    BY <2>1, <2>2 DEF Places
<1>8. CASE ResetDrains
  <2>1. /\ steering # <<>> /\ steering' = Tail(steering)
        /\ UNCHANGED <<messages, steer, pc, inHand>>
    BY <1>8 DEF ResetDrains, steerVars, recordVars, localVars
  <2>2. /\ SteeringIn(messages)' = SteeringIn(messages)
        /\ AppliedOnce(messages)' <=> AppliedOnce(messages)
    BY <2>1 DEF SteeringIn, AppliedOnce
  <2> QED
    BY <1>2, <2>1, <2>2 DEF Places
<1>9. CASE ResetEnds
  <2>1. UNCHANGED <<messages, steer, pc, inHand, steering>>
    BY <1>9 DEF ResetEnds, steerVars, recordVars, localVars
  <2> QED
    BY <2>1 DEF Places, SteeringIn, AppliedOnce
<1> QED
  BY <1>1, <1>3, <1>4, <1>5, <1>6, <1>7, <1>8, <1>9, SteeringMoves

-----------------------------------------------------------------------------
(* No older prompt.                                                        *)

\* While a model answers, the transcript and what it was asked with stay.
LEMMA StreamStays ==
  ASSUME IInv, NEW r \in Runs, Step(r), NEW s \in Runs, pc'[s] = "stream"
  PROVE  /\ messages' = messages
         /\ s = r => pc[r] = "request"
         /\ s # r => pc[s] = "stream"
<1> USE DEF IInv, TypeOK, recordVars, localVars, Goto, Leave, Yield
<1>1. ASSUME s # r PROVE pc[s] = "stream" /\ messages' = messages
  <2>1. pc[s] = "stream"
    BY <1>1 DEF Step, MarkRunning, Refuse, Begin, MarkIdle, TakeSteering, KeepSteering,
       DiscardSteering, DrainEnds, IterationStart, BuildRequest, StreamFails, StreamEnds,
       LogCall, LogBatch, BatchAborts, AppendResults
  <2>2. ~Inside(r)
    BY <1>1, <2>1, OthersOutside DEF Inside
  <2>3. MarkRunning(r) \/ Refuse(r)
    BY <2>2 DEF Inside, Step, Begin, MarkIdle, TakeSteering, KeepSteering,
       DiscardSteering, DrainEnds, IterationStart, BuildRequest, StreamFails, StreamEnds,
       LogCall, LogBatch, BatchAborts, AppendResults
  <2> QED
    BY <2>1, <2>3 DEF MarkRunning, Refuse
<1>2. ASSUME s = r PROVE BuildRequest(r)
  BY <1>2 DEF Step, MarkRunning, Refuse, Begin, MarkIdle, TakeSteering, KeepSteering,
     DiscardSteering, DrainEnds, IterationStart, StreamFails, StreamEnds,
     LogCall, LogBatch, BatchAborts, AppendResults
<1>3. s = r => pc[r] = "request" /\ messages' = messages
  BY <1>2 DEF BuildRequest
<1> QED
  BY <1>1, <1>3

\* A run never calls Steer.
LEMMA StepSendsNothing ==
  ASSUME NEW r \in Runs, Step(r)
  PROVE  steer' = steer
BY DEF Step, MarkRunning, Refuse, Begin, MarkIdle, TakeSteering, KeepSteering,
     DiscardSteering, DrainEnds, IterationStart, BuildRequest, StreamFails, StreamEnds,
     LogCall, LogBatch, BatchAborts, AppendResults, steerVars

\* Every step keeps the prompts in step with the messages.
LEMMA PromptedStep ==
  ASSUME IInv, SessionTypeOK, SavedOK, Places, Prompted, [SessionNext]_sessionVars
  PROVE  Prompted'
<1> USE DEF counters
<1>0. /\ \A m \in Steers : steer[m] = "sent" => nudged[m] <= systemPrompt.set
      /\ \A i \in SteeringIn(messages) :
           messages[i].of \in Steers /\ steer[messages[i].of] = "sent"
      /\ \A m \in Steers : nudged[m] \in Nat
      /\ systemPrompt.set \in Nat /\ sets \in Nat /\ systemPrompt.set <= sets
  BY SteeringAuthors, SessionAssumption
  DEF SessionAssumption, Prompted, Places, SessionTypeOK, Prompt, IInv, TypeOK
<1>1. ASSUME UNCHANGED <<steer, nudged, systemPrompt, system, messages, pc>> PROVE Prompted'
  BY <1>1 DEF Prompted, SteeringIn
<1>2. ASSUME NEW r \in Runs, LoopStep(r) PROVE Prompted'
  <2>1. /\ Step(r) /\ UNCHANGED <<systemPrompt, nudged>> /\ system \in [Runs -> Prompt]
        /\ system' = IF pc[r] = "request" THEN [system EXCEPT ![r] = systemPrompt] ELSE system
    BY <1>2 DEF LoopStep, LivePrompt, SessionTypeOK
  <2>2. steer' = steer
    BY <2>1, StepSendsNothing
  <2>3. ASSUME NEW s \in Runs, pc'[s] = "stream", NEW i \in SteeringIn(messages)'
        PROVE  nudged[messages'[i].of] <= system'[s].set
    <3>1. /\ messages' = messages /\ i \in SteeringIn(messages)
          /\ s = r => pc[r] = "request"
          /\ s # r => pc[s] = "stream"
      BY <2>1, <2>3, StreamStays DEF SteeringIn
    <3>2. CASE s = r
      <4>1. system'[s] = systemPrompt
        BY <2>1, <3>1, <3>2
      <4> QED
        BY <1>0, <3>1, <4>1
    <3>3. CASE s # r
      <4>1. system'[s] = system[s]
        BY <2>1, <3>3
      <4> QED
        BY <3>1, <3>3, <4>1 DEF Prompted
    <3> QED
      BY <3>2, <3>3
  <2> QED
    BY <1>0, <2>1, <2>2, <2>3 DEF Prompted
<1>3. ASSUME NEW m \in Steers, SteerStep(m) PROVE Prompted'
  <2>1. /\ \A p \in Steers : steer[p] = "sent" => nudged'[p] = nudged[p]
        /\ \A p \in Steers : steer'[p] = "sent" =>
             steer[p] = "sent" \/ nudged'[p] = systemPrompt.set
        /\ UNCHANGED <<systemPrompt, system, pc, messages>>
    BY <1>3, NotedOnce DEF IInv
  <2>2. SteeringIn(messages)' = SteeringIn(messages) /\ systemPrompt.set <= systemPrompt.set
    BY <1>0, <2>1 DEF SteeringIn
  <2> QED
    BY <1>0, <2>1, <2>2 DEF Prompted
<1>4. CASE ResetStep
  <2>1. UNCHANGED <<steer, nudged, systemPrompt, system, pc>>
    BY <1>4 DEF ResetStep, Reset, ResetDrains, ResetEnds, steerVars
  <2>2. messages' = messages \/ messages' = <<>>
    BY <1>4 DEF ResetStep, Reset, ResetDrains, ResetEnds, recordVars
  <2>3. messages' = <<>> => SteeringIn(messages)' = {}
    BY DEF SteeringIn
  <2> QED
    BY <1>1, <2>1, <2>2, <2>3 DEF Prompted
<1>5. ASSUME NEW empty \in BOOLEAN, SetSystemPrompt(empty) PROVE Prompted'
  <2>1. /\ systemPrompt'.set = sets + 1
        /\ UNCHANGED <<steer, nudged, system, messages, pc>>
    BY <1>5 DEF SetSystemPrompt, vars, steerVars, recordVars
  <2>2. \A m \in Steers : steer[m] = "sent" => nudged[m] <= sets + 1
    <3>1. ASSUME NEW m \in Steers, steer[m] = "sent" PROVE nudged[m] <= sets + 1
      <4>1. nudged[m] <= systemPrompt.set
        BY <1>0, <3>1
      <4> QED
        BY <1>0, <4>1
    <3> QED
      BY <3>1
  <2> QED
    BY <2>1, <2>2 DEF Prompted, SteeringIn
<1>6. CASE Snapshot
  BY <1>1, <1>6 DEF Snapshot, vars, steerVars, recordVars
<1>7. ASSUME NEW cfg \in ConfigPrompts, Restore(cfg) \/ New(cfg) PROVE Prompted'
  <2>1. \A s \in Runs : pc'[s] # "stream"
    BY <1>7 DEF Restore, New, ProcessEnds, Inside
  <2>2. \A m \in Steers : steer'[m] = "sent" =>
          \E i \in SteeringIn(messages') : messages'[i].of = m
    BY <1>7, RestartPlaces
  <2>3. ASSUME Restore(cfg), NEW m \in Steers, steer'[m] = "sent"
        PROVE  nudged'[m] <= systemPrompt'.set
    <3>1. /\ saved # NoSnapshot /\ messages' = saved.messages
          /\ systemPrompt' = IF saved.systemPrompt.empty THEN cfg ELSE saved.systemPrompt
          /\ nudged' = IF saved.systemPrompt.empty THEN [p \in Steers |-> 0] ELSE nudged
      BY <2>3 DEF Restore, Restorable, RestoredPrompt
    <3>2. PICK i \in SteeringIn(saved.messages) : saved.messages[i].of = m
      BY <2>2, <2>3, <3>1
    <3>3. CASE saved.systemPrompt.empty
      <4>1. nudged'[m] = 0 /\ systemPrompt'.set = 0
        BY <3>1, <3>3 DEF ConfigPrompts
      <4> QED
        BY <4>1
    <3>4. CASE ~saved.systemPrompt.empty
      BY <3>1, <3>2, <3>4 DEF SavedOK
    <3> QED
      BY <3>3, <3>4
  <2>4. ASSUME New(cfg) PROVE \A m \in Steers : steer'[m] # "sent"
    <3>1. SteeringIn(messages') = {}
      BY <2>4 DEF New, SteeringIn
    <3> QED
      BY <2>2, <3>1
  <2> QED
    BY <1>7, <2>1, <2>3, <2>4 DEF Prompted
<1>8. CASE UNCHANGED sessionVars
  BY <1>1, <1>8 DEF sessionVars, vars, steerVars, recordVars
<1>9. CASE Finished /\ UNCHANGED sessionVars
  BY <1>8, <1>9
<1> QED
  BY <1>2, <1>3, <1>4, <1>5, <1>6, <1>7, <1>8, <1>9 DEF SessionNext

-----------------------------------------------------------------------------
(* One story.                                                              *)

\* The last entry of its kind is the newest.
LEMMA LastGrows ==
         \A msgs \in Seq(Message) : \A e, kind :
           /\ Last(Append(msgs, e), kind)
                = IF e.kind = kind THEN {Len(msgs) + 1} ELSE Last(msgs, kind)
           /\ Append(msgs, e)[Len(msgs) + 1] = e
           /\ \A i \in Last(msgs, kind) : Append(msgs, e)[i] = msgs[i]
<1> TAKE msgs \in Seq(Message)
<1> TAKE e, kind
<1> DEFINE new == Append(msgs, e)
           n == Len(msgs) + 1
<1>1. /\ Len(msgs) \in Nat /\ DOMAIN msgs = 1..Len(msgs) /\ DOMAIN new = 1..n
      /\ Len(new) = n /\ new[n] = e /\ \A i \in 1..Len(msgs) : new[i] = msgs[i]
  <2>1. /\ Len(new) = n /\ new[n] = e /\ \A i \in 1..Len(msgs) : new[i] = msgs[i]
    BY AppendShape
  <2>2. DOMAIN new = 1..n /\ DOMAIN msgs = 1..Len(msgs) /\ Len(msgs) \in Nat
    OBVIOUS
  <2> QED
    BY <2>1, <2>2
<1> HIDE DEF new
<1>2. CASE e.kind = kind
  <2>1. n \in Last(new, kind)
    <3>1. n \in 1..n /\ n + 1 .. n = {}
      BY <1>1
    <3> QED
      BY <1>1, <1>2, <3>1 DEF Last
  <2>2. ASSUME NEW i \in Last(new, kind) PROVE i = n
    <3>1. i \in 1..n /\ (i # n => n \in i + 1 .. n)
      BY <1>1 DEF Last
    <3> QED
      BY <1>1, <1>2, <3>1 DEF Last
  <2>3. Last(new, kind) = {n}
    BY <2>1, <2>2
  <2> QED
    BY <1>1, <1>2, <2>3 DEF Last, new
<1>3. CASE e.kind # kind
  <2>1. ASSUME NEW i \in Last(msgs, kind) PROVE i \in Last(new, kind)
    <3>1. i \in 1..n /\ \A j \in i + 1 .. n : j = n \/ j \in i + 1 .. Len(msgs)
      BY <1>1 DEF Last
    <3>2. \A j \in i + 1 .. Len(msgs) : j \in 1..Len(msgs)
      BY <1>1 DEF Last
    <3> QED
      BY <1>1, <1>3, <3>1, <3>2 DEF Last
  <2>2. ASSUME NEW i \in Last(new, kind) PROVE i \in Last(msgs, kind)
    <3>1. i \in 1..n /\ i # n
      BY <1>1, <1>3 DEF Last
    <3>2. i \in 1..Len(msgs) /\ \A j \in i + 1 .. Len(msgs) :
                                  j \in i + 1 .. n /\ j \in 1..Len(msgs)
      BY <1>1, <3>1
    <3> QED
      BY <1>1, <3>2 DEF Last
  <2>3. Last(new, kind) = Last(msgs, kind)
    BY <2>1, <2>2
  <2> QED
    BY <1>1, <1>3, <2>3 DEF Last, new
<1> QED
  BY <1>2, <1>3

\* OneStory, of a transcript, a usage and a run id.
Told(msgs, usage, id) ==
  /\ \A i \in Last(msgs, "assistant") : usage = msgs[i]
  /\ Last(msgs, "assistant") = {} => usage = NoUsage
  /\ \A i \in Last(msgs, "prompt") : id = msgs[i].of
  /\ Last(msgs, "prompt") = {} => id = NoRun

\* Every entry comes with the field that goes with it.
LEMMA ToldGrows ==
  ASSUME NEW msgs \in Seq(Message), NEW usage, NEW id, Told(msgs, usage, id), NEW e
  PROVE  Told(Append(msgs, e),
              IF e.kind = "assistant" THEN e ELSE usage,
              IF e.kind = "prompt" THEN e.of ELSE id)
<1>0. \A kind :
        /\ Last(Append(msgs, e), kind)
             = IF e.kind = kind THEN {Len(msgs) + 1} ELSE Last(msgs, kind)
        /\ Append(msgs, e)[Len(msgs) + 1] = e
        /\ \A i \in Last(msgs, kind) : Append(msgs, e)[i] = msgs[i]
  <2>1. msgs \in Seq(Message)
    OBVIOUS
  <2>2. \A x, kind :
           /\ Last(Append(msgs, x), kind)
                = IF x.kind = kind THEN {Len(msgs) + 1} ELSE Last(msgs, kind)
           /\ Append(msgs, x)[Len(msgs) + 1] = x
           /\ \A i \in Last(msgs, kind) : Append(msgs, x)[i] = msgs[i]
    BY <2>1, LastGrows, Zenon
  <2> QED
    BY <2>2, Zenon
<1> DEFINE new == Append(msgs, e)
           n == Len(msgs) + 1
           newUsage == IF e.kind = "assistant" THEN e ELSE usage
           newId == IF e.kind = "prompt" THEN e.of ELSE id
<1>1. /\ Last(new, "assistant") = IF e.kind = "assistant" THEN {n} ELSE Last(msgs, "assistant")
      /\ new[n] = e /\ \A i \in Last(msgs, "assistant") : new[i] = msgs[i]
  BY <1>0, Zenon
<1>2. /\ Last(new, "prompt") = IF e.kind = "prompt" THEN {n} ELSE Last(msgs, "prompt")
      /\ \A i \in Last(msgs, "prompt") : new[i] = msgs[i]
  BY <1>0, Zenon
<1> HIDE DEF new, n
<1>3. /\ \A i \in Last(new, "assistant") : newUsage = new[i]
      /\ Last(new, "assistant") = {} => newUsage = NoUsage
  BY <1>1 DEF Told
<1>4. /\ \A i \in Last(new, "prompt") : newId = new[i].of
      /\ Last(new, "prompt") = {} => newId = NoRun
  BY <1>1, <1>2 DEF Told
<1>5. Told(new, newUsage, newId)
  BY <1>3, <1>4 DEF Told
<1> QED
  BY <1>5 DEF new

\* Every step keeps the fields, and the saved fields, in one story.
LEMMA FieldsStep ==
  ASSUME IInv, FieldsAgree, [SessionNext]_sessionVars
  PROVE  FieldsAgree'
<1>0. /\ Told(messages, lastUsage, runID) /\ messages \in Seq(Message)
      /\ FieldsAgree' <=> /\ Told(messages', lastUsage', runID')
                          /\ saved' # NoSnapshot =>
                               Told(saved'.messages, saved'.lastUsage, saved'.runID)
      /\ saved # NoSnapshot => Told(saved.messages, saved.lastUsage, saved.runID)
  BY DEF IInv, TypeOK, FieldsAgree, OneStory, View, Told
<1>1. ASSUME UNCHANGED <<messages, lastUsage, runID, saved>> PROVE FieldsAgree'
  BY <1>0, <1>1
<1>2. ASSUME NEW r \in Runs, LoopStep(r) PROVE FieldsAgree'
  <2> USE DEF recordVars, agentVars
  <2>1. /\ Step(r) /\ saved' = saved
        /\ lastUsage' = IF pc[r] = "stream" /\ messages' # messages
                        THEN messages'[Len(messages')] ELSE lastUsage
    BY <1>2 DEF LoopStep
  <2>2. ASSUME UNCHANGED <<messages, runID>> PROVE FieldsAgree'
    BY <1>1, <2>1, <2>2
  <2>3. ASSUME NEW e, messages' = Append(messages, e),
               e.kind = "assistant" <=> pc[r] = "stream",
               runID' = IF e.kind = "prompt" THEN e.of ELSE runID
        PROVE  FieldsAgree'
    <3>1. /\ messages'[Len(messages')] = e /\ messages' # messages
      <4>1. /\ Len(messages') = Len(messages) + 1 /\ messages'[Len(messages) + 1] = e
            /\ Len(messages) \in Nat
        BY <1>0, <2>3, AppendShape
      <4>2. Len(messages) # Len(messages) + 1
        BY <4>1
      <4> QED
        BY <4>1, <4>2
    <3>2. lastUsage' = IF e.kind = "assistant" THEN e ELSE lastUsage
      BY <2>1, <2>3, <3>1
    <3>3. Told(messages', lastUsage', runID')
      BY <1>0, <2>3, <3>2, ToldGrows
    <3> QED
      BY <1>0, <2>1, <3>3
  <2>4. ASSUME \/ MarkRunning(r) \/ Refuse(r) \/ MarkIdle(r) \/ TakeSteering(r)
               \/ DiscardSteering(r) \/ DrainEnds(r) \/ IterationStart(r)
               \/ BuildRequest(r) \/ StreamFails(r) \/ LogCall(r) \/ LogBatch(r)
               \/ BatchAborts(r)
        PROVE  FieldsAgree'
    BY <2>2, <2>4 DEF MarkRunning, Refuse, MarkIdle, TakeSteering, DiscardSteering, DrainEnds,
       IterationStart, BuildRequest, StreamFails, LogCall, LogBatch, BatchAborts
  <2>5. ASSUME Begin(r) PROVE FieldsAgree'
    <3> DEFINE e == [kind |-> "prompt", of |-> r, it |-> it[r], n |-> 0]
    <3>1. messages' = Append(messages, e) /\ pc[r] = "marked" /\ runID' = e.of
      BY <2>5 DEF Begin, Say
    <3>2. e.kind = "prompt"
      OBVIOUS
    <3> HIDE DEF e
    <3> QED
      BY <2>3, <3>1, <3>2
  <2>6. ASSUME KeepSteering(r) PROVE FieldsAgree'
    <3> DEFINE e == [kind |-> "steering", of |-> inHand[r], it |-> it[r], n |-> 0]
    <3>1. messages' = Append(messages, e) /\ pc[r] = "inHand" /\ runID' = runID
      BY <2>6 DEF KeepSteering
    <3>2. e.kind = "steering"
      OBVIOUS
    <3> HIDE DEF e
    <3> QED
      BY <2>3, <3>1, <3>2
  <2>7. ASSUME NEW n \in 0..MaxCalls, StreamEnds(r, n) PROVE FieldsAgree'
    <3> DEFINE e == [kind |-> "assistant", of |-> r, it |-> it[r], n |-> n]
    <3>1. messages' = Append(messages, e) /\ pc[r] = "stream" /\ runID' = runID
      BY <2>7 DEF StreamEnds, Say
    <3>2. e.kind = "assistant"
      OBVIOUS
    <3> HIDE DEF e
    <3> QED
      BY <2>3, <3>1, <3>2
  <2>8. ASSUME AppendResults(r) PROVE FieldsAgree'
    <3> DEFINE e == [kind |-> "tool", of |-> r, it |-> it[r], n |-> logged[r]]
    <3>1. messages' = Append(messages, e) /\ pc[r] # "stream" /\ runID' = runID
      BY <2>8 DEF AppendResults, SayResults, Say
    <3>2. e.kind = "tool"
      OBVIOUS
    <3> HIDE DEF e
    <3> QED
      BY <2>3, <3>1, <3>2
  <2> QED
    BY <2>1, <2>4, <2>5, <2>6, <2>7, <2>8 DEF Step
<1>3. ASSUME NEW m \in Steers, SteerStep(m) PROVE FieldsAgree'
  BY <1>1, <1>3 DEF SteerStep, Steer, SteerGivesUp, agentVars, recordVars
<1>4. CASE ResetStep
  <2>1. CASE Reset /\ lastUsage' = UsageCleared /\ saved' = saved
    <3>1. messages' = <<>> /\ lastUsage' = NoUsage /\ runID' = NoRun
      BY <2>1 DEF Reset, UsageCleared
    <3>2. Told(messages', lastUsage', runID')
      BY <3>1 DEF Told, Last
    <3> QED
      BY <1>0, <2>1, <3>2
  <2>2. CASE (ResetDrains \/ ResetEnds) /\ UNCHANGED <<lastUsage, saved>>
    BY <1>1, <2>2 DEF ResetDrains, ResetEnds, agentVars, recordVars
  <2> QED
    BY <1>4, <2>1, <2>2 DEF ResetStep
<1>5. ASSUME NEW empty \in BOOLEAN, SetSystemPrompt(empty) PROVE FieldsAgree'
  BY <1>1, <1>5 DEF SetSystemPrompt, vars, agentVars, recordVars
<1>6. CASE Snapshot
  <2>1. saved' = View /\ UNCHANGED <<messages, lastUsage, runID>>
    BY <1>6 DEF Snapshot, vars, agentVars, recordVars
  <2>2. View.messages = messages /\ View.lastUsage = lastUsage /\ View.runID = runID
    BY DEF View
  <2> HIDE DEF View
  <2> QED
    BY <1>0, <2>1, <2>2
<1>7. ASSUME NEW cfg \in ConfigPrompts, Restore(cfg) PROVE FieldsAgree'
  BY <1>0, <1>7 DEF Restore, Restorable, RestoredUsage
<1>8. ASSUME NEW cfg \in ConfigPrompts, New(cfg) PROVE FieldsAgree'
  <2>1. messages' = <<>> /\ lastUsage' = NoUsage /\ runID' = NoRun /\ saved' = NoSnapshot
    BY <1>8 DEF New
  <2>2. Told(messages', lastUsage', runID')
    BY <2>1 DEF Told, Last
  <2> QED
    BY <1>0, <2>1, <2>2
<1>9. CASE UNCHANGED sessionVars
  BY <1>1, <1>9 DEF sessionVars, vars, agentVars, recordVars
<1>10. CASE Finished /\ UNCHANGED sessionVars
  BY <1>9, <1>10
<1> QED
  BY <1>2, <1>3, <1>4, <1>5, <1>6, <1>7, <1>8, <1>9, <1>10 DEF SessionNext

-----------------------------------------------------------------------------
\* The session's invariant is inductive.
LEMMA NextSession == SessionIInv /\ [SessionNext]_sessionVars => SessionIInv'
<1> SUFFICES ASSUME SessionIInv, [SessionNext]_sessionVars PROVE SessionIInv'
  OBVIOUS
<1>1. IInv /\ SessionTypeOK /\ SavedOK /\ Places /\ Prompted /\ FieldsAgree
  BY DEF SessionIInv
<1>2. IInv' /\ SessionTypeOK' /\ SavedOK' /\ Prompted' /\ FieldsAgree'
  BY <1>1, LoopHolds, SessionTypeStep, SavedStep, PromptedStep, FieldsStep
<1>3. Places'
  BY <1>1, SessionMoves, PlacesStep, RestartPlaces
<1> QED
  BY <1>2, <1>3 DEF SessionIInv

\* The invariant holds throughout.
LEMMA SessionHolds == SessionSpec => []SessionIInv
BY InitSession, NextSession, PTL DEF SessionSpec

-----------------------------------------------------------------------------
(* The records across restarts.                                            *)

RepliesIn(msgs, r) == {i \in DOMAIN msgs : msgs[i].kind = "assistant" /\ msgs[i].of = r}
AnsweredIn(msgs, i) == i < Len(msgs) /\ msgs[i + 1].kind = "tool"
LogIn(log, a) == {k \in DOMAIN log : log[k].of = a.of /\ log[k].it = a.it}

\* Records, of a transcript and a log that no run works on.
CountedIn(msgs, r) ==
  LET mine == RepliesIn(msgs, r)
  IN  /\ mine # {} => pc[r] = "left"
      /\ Cardinality(mine) <= MaxIterations
      /\ how[r] = "maxIterations" /\ mine # {} => Cardinality(mine) = MaxIterations
      /\ how[r] = "maxIterations" => \A i \in mine : AnsweredIn(msgs, i)
      /\ \A i \in mine : msgs[i].it = Rank(mine, i)

ExcusedIn(msgs, i) ==
  msgs[i].n > 0 =>
    \/ AnsweredIn(msgs, i)
    \/ /\ i = Len(msgs) \/ msgs[i + 1].kind = "prompt"
       /\ how[msgs[i].of] = "aborted"

BookedIn(msgs, log, i) ==
  LET entries == LogIn(log, msgs[i])
  IN  /\ \A k \in entries : log[k].call = Rank(entries, k)
      /\ Cardinality(entries) <= msgs[i].n
      /\ AnsweredIn(msgs, i) => Cardinality(entries) = msgs[i].n

RecordedIn(msgs, log) ==
  LET replies == {i \in DOMAIN msgs : msgs[i].kind = "assistant"}
  IN  /\ \A r \in Runs : CountedIn(msgs, r)
      /\ \A i \in replies : ExcusedIn(msgs, i) /\ BookedIn(msgs, log, i)
      /\ \A k \in DOMAIN log : \E i \in replies :
           log[k].of = msgs[i].of /\ log[k].it = msgs[i].it

\* What Restore brings back: it refuses a snapshot of an agent that was running.
SavedRecords ==
  saved # NoSnapshot /\ ~saved.isRunning => RecordedIn(saved.messages, saved.toolLog)

\* While no run is inside, the agent's own records have that form.
LEMMA IdleRecords ==
  ASSUME IInv, Records, ~running
  PROVE  RecordedIn(messages, toolLog)
<1>1. /\ \A r \in Runs : pc[r] \in {"new", "refused", "left"}
      /\ \A r \in Runs : Counted /\ CountedOf(r) /\ AnswersOf(r)
      /\ \A i \in Entries("assistant") : messages[i].of \in Runs
  BY DEF IInv, TypeOK, RunExclusion, Inside, Records, Counted, Answers, Entries, Message
<1>2. /\ \A r \in Runs : RepliesIn(messages, r) = Mine(r)
      /\ \A i : AnsweredIn(messages, i) <=> Answered(i)
      /\ {i \in DOMAIN messages : messages[i].kind = "assistant"} = Entries("assistant")
      /\ \A i : LogIn(toolLog, messages[i]) = LogOfEntry(i)
  BY DEF RepliesIn, Mine, AnsweredIn, Answered, Entries, LogIn, LogOfEntry, LogOf
<1>3. ASSUME NEW r \in Runs PROVE CountedIn(messages, r)
  <2>1. CountedOf(r) /\ AnswersOf(r) /\ pc[r] \in {"new", "refused", "left"}
    BY <1>1
  <2>2. /\ Mine(r) # {} => pc[r] = "left"
        /\ Cardinality(Mine(r)) <= MaxIterations
        /\ how[r] = "maxIterations" /\ Mine(r) # {} => Cardinality(Mine(r)) = MaxIterations
        /\ how[r] = "maxIterations" => \A i \in Mine(r) : Answered(i)
        /\ \A i \in Mine(r) : messages[i].it = Rank(Mine(r), i)
    BY <2>1 DEF CountedOf, AnswersOf, Before
  <2> QED
    BY <1>2, <2>2 DEF CountedIn
<1>4. ASSUME NEW i \in Entries("assistant") PROVE ExcusedIn(messages, i)
  BY <1>1, <1>2, <1>4 DEF Records, UnansweredOnlyByAbort, ExcusedIn
<1>5. ASSUME NEW i \in Entries("assistant") PROVE BookedIn(messages, toolLog, i)
  <2>1. Booked(i)
    BY DEF Records, LogFollows
  <2> QED
    BY <1>2, <2>1 DEF Booked, BookedIn
<1>6. \A k \in DOMAIN toolLog : \E i \in Entries("assistant") :
        toolLog[k].of = messages[i].of /\ toolLog[k].it = messages[i].it
  BY DEF Records, LogFollows, Issued
<1> QED
  BY <1>2, <1>3, <1>4, <1>5, <1>6 DEF RecordedIn

\* And what has that form makes the agent's records when it is brought back.
LEMMA RestoredRecords ==
  ASSUME NEW msgs \in Seq(Message), NEW log, RecordedIn(msgs, log),
         messages' = msgs, toolLog' = log, how' = how,
         \A r \in Runs : /\ pc'[r] \in {"new", "refused", "left"}
                         /\ pc[r] = "left" => pc'[r] = "left"
                         /\ how[r] # "none" => pc'[r] = "left"
  PROVE  Records'
<1>1. /\ \A r \in Runs : RepliesIn(msgs, r) = Mine(r)'
      /\ \A i : AnsweredIn(msgs, i) <=> Answered(i)'
      /\ {i \in DOMAIN msgs : msgs[i].kind = "assistant"} = Entries("assistant")'
      /\ \A i : LogIn(log, msgs[i]) = LogOfEntry(i)'
      /\ \A i : \A k : Issued(i, k)' <=> (log[k].of = msgs[i].of /\ log[k].it = msgs[i].it)
  BY DEF RepliesIn, Mine, AnsweredIn, Answered, Entries, LogIn, LogOfEntry, LogOf, Issued
<1>2. ASSUME NEW r \in Runs PROVE CountedOf(r)' /\ AnswersOf(r)'
  <2>1. /\ RepliesIn(msgs, r) # {} => pc[r] = "left"
        /\ Cardinality(Mine(r)') <= MaxIterations
        /\ how[r] = "maxIterations" /\ Mine(r)' # {} =>
             Cardinality(Mine(r)') = MaxIterations
        /\ how[r] = "maxIterations" => \A i \in Mine(r)' : Answered(i)'
        /\ \A i \in Mine(r)' : messages'[i].it = Rank(Mine(r)', i)
    BY <1>1 DEF RecordedIn, CountedIn
  <2>2. \A i : Rank(Mine(r)', i) = Rank(Mine(r), i)'
    BY DEF Rank
  <2>3. /\ pc'[r] \in {"new", "refused", "left"} /\ how'[r] = how[r]
        /\ pc'[r] # "left" => Mine(r)' = {}
        /\ how[r] # "none" => pc'[r] = "left"
    BY <1>1, <2>1
  <2>4. CountedOf(r)'
    BY <2>1, <2>2, <2>3 DEF CountedOf, Before, Asking, Working
  <2>5. AnswersOf(r)'
    BY <2>1, <2>3 DEF AnswersOf, Before, Asking, Working, Over
  <2> QED
    BY <2>4, <2>5
<1>3. UnansweredOnlyByAbort'
  BY <1>1 DEF RecordedIn, ExcusedIn, UnansweredOnlyByAbort
<1>4. ASSUME NEW i \in Entries("assistant")' PROVE Booked(i)'
  <2>1. BookedIn(msgs, log, i)
    BY <1>1, <1>4 DEF RecordedIn
  <2>2. \A k : Rank(LogOfEntry(i)', k) = Rank(LogOfEntry(i), k)'
    BY DEF Rank
  <2> QED
    BY <1>1, <2>1, <2>2 DEF Booked, BookedIn
<1>5. LogFollows'
  BY <1>1, <1>4 DEF LogFollows, RecordedIn, Working
<1> QED
  BY <1>2, <1>3, <1>5 DEF Records, Counted, Answers

\* A run that left stays so, and how it ended is settled.
LEMMA LeftStays ==
  ASSUME IInv, [SessionNext]_sessionVars
  PROVE  \A r \in Runs : pc[r] = "left" => pc'[r] = "left" /\ how'[r] = how[r]
<1>1. CASE [Next]_vars
  <2> USE DEF IInv, TypeOK, localVars, Goto, Leave, Yield
  <2>1. ASSUME NEW s \in Runs, Step(s)
        PROVE  /\ pc[s] # "left"
               /\ \A r \in Runs \ {s} : pc'[r] = pc[r] /\ how'[r] = how[r]
    BY <2>1 DEF Step, MarkRunning, Refuse, Begin, MarkIdle, TakeSteering, KeepSteering,
       DiscardSteering, DrainEnds, IterationStart, BuildRequest, StreamFails, StreamEnds,
       LogCall, LogBatch, BatchAborts, AppendResults, NotLast
  <2>2. ASSUME ~\E s \in Runs : Step(s) PROVE UNCHANGED <<pc, how>>
    BY <1>1, <2>2 DEF Next, Steer, SteerGivesUp, Reset, ResetDrains, ResetEnds, Finished, vars
  <2> QED
    BY <2>1, <2>2
<1>2. ASSUME NEW cfg \in ConfigPrompts, Restore(cfg) \/ New(cfg)
      PROVE  \A r \in Runs : pc[r] = "left" => pc'[r] = "left" /\ how'[r] = how[r]
  BY <1>2 DEF Restore, New, ProcessEnds, Inside
<1> QED
  BY <1>1, <1>2, SessionMoves

\* A snapshot is of the agent, or the one there was.
LEMMA SavedMoves ==
  ASSUME [SessionNext]_sessionVars
  PROVE  \/ saved' = saved \/ saved' = NoSnapshot
         \/ saved' = View /\ UNCHANGED vars
BY DEF SessionNext, sessionVars, LoopStep, SteerStep, ResetStep, SetSystemPrompt, Snapshot,
       Restore, New

\* What is saved keeps its form while it is the snapshot.
LEMMA SavedRecordsStep ==
  ASSUME IInv, Records, SavedOK, SavedRecords, [SessionNext]_sessionVars
  PROVE  SavedRecords'
<1>1. CASE saved' = saved
  <2> SUFFICES ASSUME saved # NoSnapshot, ~saved.isRunning
               PROVE  RecordedIn(saved.messages, saved.toolLog)'
    BY <1>1 DEF SavedRecords
  <2> DEFINE msgs == saved.messages
             log == saved.toolLog
  <2>1. RecordedIn(msgs, log) /\ msgs \in Seq(Message)
    BY DEF SavedRecords, SavedOK
  <2>2. UNCHANGED <<msgs, log>>
    BY <1>1
  <2>3. ASSUME NEW r \in Runs PROVE CountedIn(msgs, r)'
    <3>1. CountedIn(msgs, r)
      BY <2>1 DEF RecordedIn
    <3>2. /\ RepliesIn(msgs, r)' = RepliesIn(msgs, r)
          /\ \A i : Rank(RepliesIn(msgs, r), i)' = Rank(RepliesIn(msgs, r), i)
          /\ \A i : AnsweredIn(msgs, i)' <=> AnsweredIn(msgs, i)
      BY <2>2 DEF RepliesIn, Rank, AnsweredIn
    <3>3. CASE RepliesIn(msgs, r) = {}
      <4>1. Cardinality(RepliesIn(msgs, r)') <= MaxIterations
        BY <3>1, <3>2 DEF CountedIn
      <4> QED
        BY <3>2, <3>3, <4>1 DEF CountedIn
    <3>4. CASE RepliesIn(msgs, r) # {}
      <4>1. pc'[r] = "left" /\ how'[r] = how[r]
        BY <3>1, <3>4, LeftStays DEF CountedIn
      <4> QED
        BY <2>2, <3>1, <3>2, <3>4, <4>1 DEF CountedIn
    <3> QED
      BY <3>3, <3>4
  <2>4. ASSUME NEW i \in DOMAIN msgs, msgs[i].kind = "assistant"
        PROVE  ExcusedIn(msgs, i)'
    <3>1. ExcusedIn(msgs, i) /\ msgs[i].of \in Runs
      BY <2>1, <2>4 DEF RecordedIn, Message
    <3>2. i \in RepliesIn(msgs, msgs[i].of)
      BY <2>4 DEF RepliesIn
    <3>3. pc[msgs[i].of] = "left"
      BY <2>1, <3>1, <3>2 DEF RecordedIn, CountedIn
    <3>4. how'[msgs[i].of] = how[msgs[i].of]
      BY <3>1, <3>3, LeftStays
    <3> QED
      BY <2>2, <3>1, <3>4 DEF ExcusedIn, AnsweredIn
  <2>5. ASSUME NEW i \in DOMAIN msgs, msgs[i].kind = "assistant"
        PROVE  BookedIn(msgs, log, i)'
    <3>1. BookedIn(msgs, log, i)
      BY <2>1, <2>5 DEF RecordedIn
    <3> QED
      BY <2>2, <3>1 DEF BookedIn, LogIn, AnsweredIn, Rank
  <2>6. \A k \in DOMAIN log : \E i \in {j \in DOMAIN msgs : msgs[j].kind = "assistant"} :
          log[k].of = msgs[i].of /\ log[k].it = msgs[i].it
    BY <2>1 DEF RecordedIn
  <2> QED
    BY <2>2, <2>3, <2>4, <2>5, <2>6 DEF RecordedIn
<1>2. CASE saved' = NoSnapshot
  BY <1>2 DEF SavedRecords
<1>3. CASE saved' = View /\ UNCHANGED vars
  <2>1. /\ saved'.isRunning = running /\ saved'.messages = messages
        /\ saved'.toolLog = toolLog
    BY <1>3 DEF View
  <2>2. UNCHANGED <<messages, toolLog, pc, how, running>>
    BY <1>3 DEF vars, agentVars, recordVars, localVars
  <2>3. ASSUME ~running PROVE RecordedIn(messages, toolLog)'
    <3>1. RecordedIn(messages, toolLog)
      BY <2>3, IdleRecords
    <3>2. \A r : CountedIn(messages, r)' <=> CountedIn(messages, r)
      BY <2>2 DEF CountedIn, RepliesIn, Rank, AnsweredIn
    <3>3. \A i : ExcusedIn(messages, i)' <=> ExcusedIn(messages, i)
      BY <2>2 DEF ExcusedIn, AnsweredIn
    <3>4. \A i : BookedIn(messages, toolLog, i)' <=> BookedIn(messages, toolLog, i)
      BY <2>2 DEF BookedIn, LogIn, AnsweredIn, Rank
    <3> QED
      BY <2>2, <3>1, <3>2, <3>3, <3>4 DEF RecordedIn
  <2> QED
    BY <2>1, <2>2, <2>3 DEF SavedRecords
<1> QED
  BY <1>1, <1>2, <1>3, SavedMoves

\* A restart finds records, and no run that works on them.
LEMMA RestartRecords ==
  ASSUME IInv, Records, SavedOK, SavedRecords,
         NEW cfg \in ConfigPrompts, Restore(cfg) \/ New(cfg)
  PROVE  Records'
<1>1. /\ how' = how
      /\ \A r \in Runs : /\ pc'[r] \in {"new", "refused", "left"}
                         /\ pc[r] = "left" => pc'[r] = "left"
                         /\ how[r] # "none" => pc'[r] = "left"
  <2>1. \A r \in Runs : how[r] # "none" => pc[r] \in {"leaving", "left"}
    BY DEF Records, Answers, AnswersOf, Over
  <2> QED
    <3>1. \A r \in Runs : pc[r] \notin {"new", "refused", "left"} => Inside(r)
      BY DEF IInv, TypeOK, Inside
    <3>2. how' = how /\ \A r \in Runs : pc'[r] = IF Inside(r) THEN "left" ELSE pc[r]
      BY DEF Restore, New, ProcessEnds
    <3>3. \A r \in Runs : pc[r] = "leaving" => Inside(r)
      BY <3>1
    <3> QED
      BY <2>1, <3>1, <3>2, <3>3
<1>2. ASSUME Restore(cfg) PROVE Records'
  <2> DEFINE msgs == saved.messages
             log == saved.toolLog
  <2>1. RecordedIn(msgs, log) /\ msgs \in Seq(Message) /\ messages' = msgs /\ toolLog' = log
    BY <1>2 DEF Restore, Restorable, SavedRecords, SavedOK
  <2> HIDE DEF msgs, log
  <2> QED
    BY <1>1, <2>1, RestoredRecords
<1>3. ASSUME New(cfg) PROVE Records'
  <2>1. messages' = <<>> /\ toolLog' = <<>> /\ <<>> \in Seq(Message)
    BY <1>3 DEF New
  <2>2. RecordedIn(<<>>, <<>>)
    <3>1. DOMAIN <<>> = {} /\ \A r : RepliesIn(<<>>, r) = {}
      BY DEF RepliesIn
    <3>2. Cardinality({}) <= MaxIterations
      BY AgentAssumption, FS_EmptySet DEF AgentAssumption
    <3> QED
      BY <3>1, <3>2 DEF RecordedIn, CountedIn
  <2> QED
    BY <1>1, <2>1, <2>2, RestoredRecords
<1> QED
  BY <1>2, <1>3

\* The records hold through snapshots and restarts.
LEMMA SessionRecords == SessionSpec => [](SessionIInv /\ Records /\ SavedRecords)
<1>1. SessionInit => Records /\ SavedRecords
  BY InitRecords DEF SessionInit, SavedRecords
<1>2. SessionIInv /\ Records /\ SavedRecords /\ [SessionNext]_sessionVars
        => Records' /\ SavedRecords'
  <2> SUFFICES ASSUME SessionIInv, Records, SavedRecords, [SessionNext]_sessionVars
               PROVE  Records' /\ SavedRecords'
    OBVIOUS
  <2>1. IInv /\ SavedOK
    BY DEF SessionIInv
  <2>2. Records'
    BY <2>1, SessionMoves, NextRecords, RestartRecords
  <2> QED
    BY <2>1, <2>2, SavedRecordsStep
<1> QED
  BY <1>1, <1>2, InitSession, NextSession, PTL DEF SessionSpec

\* The loop keeps its promises through snapshots and restarts, although any step may
\* be the last of a process and any snapshot of an idle agent the next one's start:
\* one run at a time, results behind their calls, no more LLM calls than allowed,
\* no call unanswered but by an abort, and a log that tells the transcript.
THEOREM LoopSurvivesRestarts ==
          SessionSpec => [](/\ RunExclusion /\ ResultsFollowCalls /\ IterationsBounded
                            /\ UnansweredOnlyByAbort /\ LogMatchesTranscript)
<1>1. SessionIInv => RunExclusion /\ ResultsFollowCalls
  BY DEF SessionIInv, IInv
<1> QED
  BY <1>1, RecordsSay, SessionRecords, PTL

\* The usage and the run id that the agent and its snapshot show are those of the
\* transcript they show.
THEOREM FieldsTellOneStory == SessionSpec => []FieldsAgree
<1>1. SessionIInv => FieldsAgree
  BY DEF SessionIInv
<1> QED
  BY <1>1, SessionHolds, PTL

\* No message is answered under a prompt older than the one it was sent under.
THEOREM NoOlderPrompt == SessionSpec => []NudgeUnderItsPrompt
<1>1. ASSUME SessionIInv PROVE NudgeUnderItsPrompt
  <2>1. ASSUME NEW r \in Runs, pc[r] = "stream", NEW i \in Entries("steering")
        PROVE  system[r].set >= nudged[messages[i].of]
    <3>1. nudged[messages[i].of] <= system[r].set
      BY <1>1, <2>1 DEF SessionIInv, Prompted, Entries, SteeringIn
    <3>2. nudged[messages[i].of] \in Nat /\ system[r].set \in Nat
      <4>1. messages[i].of \in Steers
        BY <1>1, <2>1, SteeringAuthors DEF SessionIInv, IInv, TypeOK, Entries, SteeringIn
      <4> QED
        BY <1>1, <4>1, SessionAssumption
        DEF SessionAssumption, SessionIInv, SessionTypeOK, Prompt
    <3> QED
      BY <3>1, <3>2
  <2> QED
    BY <2>1 DEF NudgeUnderItsPrompt
<1> QED
  BY <1>1, SessionHolds, PTL

\* A set without two elements has at most one.
LEMMA AtMostOne ==
  ASSUME NEW S, \A x, y \in S : x = y
  PROVE  Cardinality(S) \in {0, 1} /\ (S = {} => Cardinality(S) = 0)
<1>1. CASE S = {}
  BY <1>1, FS_EmptySet
<1>2. CASE S # {}
  <2>1. PICK x \in S : TRUE
    BY <1>2
  <2>2. S = {x}
    BY <2>1
  <2>3. Cardinality(S) = 1
    BY <2>2, FS_Singleton, Zenon
  <2> QED
    BY <1>2, <2>3
<1> QED
  BY <1>1, <1>2

\* However often a message is steered again, it is in one place only.
THEOREM NeverAppliedTwice == SessionSpec => []SteeredOnce
<1>1. ASSUME SessionIInv PROVE SteeredOnce
  <2>1. ASSUME NEW m \in Steers
        PROVE  Cardinality({j \in DOMAIN steering : steering[j] = m})
               + Cardinality({r \in Runs : inHand[r] = m})
               + Cardinality({i \in Entries("steering") : messages[i].of = m}) <= 1
    <3> DEFINE waits == {j \in DOMAIN steering : steering[j] = m}
               held  == {r \in Runs : inHand[r] = m}
               done  == {i \in Entries("steering") : messages[i].of = m}
    <3>1. NoSteer \notin Steers /\ Places /\ IInv
      BY <1>1, AgentAssumption DEF AgentAssumption, SessionIInv
    <3>2. \A r \in held : pc[r] = "inHand"
      BY <3>1 DEF Places
    <3>3. \A j, k \in waits : j = k
      BY <3>1 DEF Places
    <3>4. \A r, s \in held : r = s
      BY <3>1, <3>2, OneHand
    <3>5. \A i, j \in done : i = j
      BY <3>1 DEF Places, AppliedOnce, Entries, SteeringIn
    <3>6. /\ held # {} => waits = {}
          /\ done # {} => waits = {} /\ held = {}
      <4>1. held # {} => waits = {}
        BY <3>1, <3>2 DEF Places
      <4>2. done # {} => waits = {} /\ held = {}
        BY <3>1 DEF Places, Entries, SteeringIn
      <4> QED
        BY <4>1, <4>2
    <3> HIDE DEF waits, held, done
    <3>7. /\ Cardinality(waits) \in {0, 1} /\ (waits = {} => Cardinality(waits) = 0)
          /\ Cardinality(held) \in {0, 1} /\ (held = {} => Cardinality(held) = 0)
          /\ Cardinality(done) \in {0, 1} /\ (done = {} => Cardinality(done) = 0)
      BY <3>3, <3>4, <3>5, AtMostOne
    <3>8. Cardinality(waits) + Cardinality(held) + Cardinality(done) <= 1
      BY <3>6, <3>7
    <3> QED
      BY <3>8 DEF waits, held, done
  <2> QED
    BY <2>1 DEF SteeredOnce
<1> QED
  BY <1>1, SessionHolds, PTL
=============================================================================

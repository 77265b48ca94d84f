-------------------------- MODULE AgentLoopProofs --------------------------
(***************************************************************************)
(* Proofs about AgentLoop, for any number of runs and Steer calls and any  *)
(* bounds, in four parts, each of which ends with the theorems that state  *)
(* the properties of every behaviour:                                      *)
(*                                                                         *)
(* 1. The runs.  IInv: one run inside, and what it relies on.              *)
(*                                                                         *)
(* 2. The records a run leaves behind.  Records says how many of a run's   *)
(*    LLM calls are in the transcript, which of them are answered and what *)
(*    the log holds of each, by where the run is.                          *)
(*                                                                         *)
(* 3. Steering.  SInv follows each message from the channel to the         *)
(*    transcript: what has left the channel is the beginning of what was   *)
(*    accepted.                                                            *)
(*                                                                         *)
(* 4. The end of a run.  Each of its steps leaves it less to do.           *)
(***************************************************************************)
EXTENDS AgentLoop, FiniteSetTheorems, TLAPS

-----------------------------------------------------------------------------
(* Part 1: the runs.                                                       *)

\* The inductive invariant.  RunState is what makes the others inductive: it says
\* what the run inside relies on while runs, Steer and Reset go on around it.
IInv ==
  /\ TypeOK
  /\ RunExclusion
  /\ RunState
  /\ ReplyFollowsItsRequest
  /\ ResultsFollowCalls

\* A fresh agent satisfies the invariant.
LEMMA InitIInv == Init => IInv
<1> SUFFICES ASSUME Init PROVE IInv
  OBVIOUS
<1>1. TypeOK
  <2>1. owed \in [Runs -> Nat] /\ asked \in [Runs -> Nat] /\ resetAt \in Nat
    BY AgentAssumption DEF AgentAssumption, Init
  <2>2. steering \in Seq(Steers) /\ Len(steering) <= BufSize
    BY AgentAssumption DEF AgentAssumption, Init
  <2>3. it \in [Runs -> 0..MaxIterations]
    BY AgentAssumption DEF AgentAssumption, Init
  <2>4. logged \in [Runs -> 0..MaxCalls]
    BY AgentAssumption DEF AgentAssumption, Init
  <2>5. steer \in [Steers -> {"calling", "sent", "gaveUp"}]
    BY AgentAssumption DEF AgentAssumption, Init
  <2>6. resets \in 0..MaxResets /\ iteration \in 0..MaxIterations
    BY AgentAssumption DEF AgentAssumption, Init
  <2>7. messages \in Seq(Message) /\ toolLog \in Seq(LogEntry) /\ accepted \in Seq(Steers)
    BY AgentAssumption DEF AgentAssumption, Init
  <2> QED
    BY <2>1, <2>2, <2>3, <2>4, <2>5, <2>6, <2>7 DEF Init, TypeOK
<1>2. RunExclusion
  BY DEF Init, RunExclusion, Inside
<1>3. RunState
  BY DEF Init, RunState, Inside
<1>4. ReplyFollowsItsRequest
  BY DEF Init, ReplyFollowsItsRequest
<1>5. ResultsFollowCalls
  BY DEF Init, ResultsFollowCalls, Entries
<1> QED
  BY <1>1, <1>2, <1>3, <1>4, <1>5 DEF IInv

\* RunState, of one run.
RunFacts(r) ==
  /\ Inside(r) /\ pc[r] # "marked" => it[r] \in 1..MaxIterations
  /\ pc[r] \in {"boundary", "inHand", "iterate"} => iteration = it[r] - 1
  /\ pc[r] \in {"request", "stream", "tools", "results"} => iteration = it[r]
  /\ pc[r] = "inHand" => inHand[r] \in Steers
  /\ pc[r] \in {"tools", "results"} => OpenBatch(r) /\ logged[r] <= Batch

\* Appending a run's own entry keeps the transcript well typed.
LEMMA SayType ==
  ASSUME TypeOK, NEW r \in Runs, NEW kind \in {"prompt", "assistant", "tool"},
         NEW n \in 0..MaxCalls, Say(r, kind, n)
  PROVE  messages' \in Seq(Message)
<1>1. [kind |-> kind, of |-> r, it |-> it[r], n |-> n] \in Message
  BY DEF TypeOK, Message
<1> QED
  BY <1>1 DEF TypeOK, Say

\* It adds one entry at the end, and changes no other.
LEMMA AppendShape ==
  ASSUME NEW s \in Seq(Message), NEW e
  PROVE  /\ Len(Append(s, e)) = Len(s) + 1
         /\ Append(s, e)[Len(s) + 1] = e
         /\ \A i \in 1..Len(s) : Append(s, e)[i] = s[i]
<1>1. Len(Append(s, e)) = Len(s) + 1
  OBVIOUS
<1>2. Append(s, e)[Len(s) + 1] = e
  OBVIOUS
<1>3. \A i \in 1..Len(s) : Append(s, e)[i] = s[i]
  OBVIOUS
<1> QED
  BY <1>1, <1>2, <1>3

\* The number of calls in an open batch is a type-correct bound.
LEMMA BatchType ==
  ASSUME TypeOK, RunState, NEW r \in Runs, pc[r] \in {"tools", "results"}
  PROVE  /\ Batch \in 1..MaxCalls
         /\ it[r] \in 1..MaxIterations
         /\ Len(messages) > 0
<1>1. OpenBatch(r) /\ Len(messages) > 0
  BY DEF RunState, OpenBatch
<1>2. messages[Len(messages)] \in Message
  BY <1>1 DEF TypeOK
<1>3. messages[Len(messages)].n \in 0..MaxCalls
  BY <1>1, <1>2, AgentAssumption DEF Message, OpenBatch, AgentAssumption
<1>4. it[r] \in 1..MaxIterations
  BY DEF RunState, Inside
<1> QED
  BY <1>1, <1>3, <1>4, AgentAssumption DEF Batch, OpenBatch, AgentAssumption

\* No step of a run, of Steer or of Reset leaves the types.
LEMMA TypeOKStep ==
  ASSUME TypeOK, RunState, [Next]_vars
  PROVE  TypeOK'
<1> USE AgentAssumption DEF AgentAssumption, agentVars, recordVars, localVars,
      steerVars, resetVars, Goto, Leave, Yield, AtBoundary
<1>1. ASSUME NEW r \in Runs, MarkRunning(r) PROVE TypeOK'
  BY <1>1 DEF MarkRunning, TypeOK
<1>2. ASSUME NEW r \in Runs, Refuse(r) PROVE TypeOK'
  BY <1>2 DEF Refuse, TypeOK, RefusedKeeps
<1>3. ASSUME NEW r \in Runs, Begin(r) PROVE TypeOK'
  <2>1. messages' \in Seq(Message)
    BY <1>3, SayType DEF Begin
  <2>2. owed' \in [Runs -> Nat]
    BY <1>3 DEF Begin, TypeOK
  <2>3. it' \in [Runs -> 0..MaxIterations] /\ iteration' \in 0..MaxIterations
    BY <1>3 DEF Begin, TypeOK
  <2> QED
    BY <1>3, <2>1, <2>2, <2>3 DEF Begin, TypeOK
<1>4. ASSUME NEW r \in Runs, MarkIdle(r) PROVE TypeOK'
  BY <1>4 DEF MarkIdle, TypeOK
<1>5. ASSUME NEW r \in Runs, TakeSteering(r) PROVE TypeOK'
  <2>1. /\ Head(steering) \in Steers
        /\ steering' \in Seq(Steers)
        /\ Len(steering') <= BufSize
    BY <1>5 DEF TakeSteering, TypeOK
  <2> QED
    BY <1>5, <2>1 DEF TakeSteering, TypeOK
<1>6. ASSUME NEW r \in Runs, KeepSteering(r) PROVE TypeOK'
  <2>1. inHand[r] \in Steers /\ it[r] \in 1..MaxIterations
    BY <1>6 DEF KeepSteering, RunState, Inside
  <2>2. [kind |-> "steering", of |-> inHand[r], it |-> it[r], n |-> 0] \in Message
    BY <2>1 DEF Message
  <2>3. messages' \in Seq(Message)
    BY <1>6, <2>2 DEF KeepSteering, TypeOK
  <2> QED
    BY <1>6, <2>3 DEF KeepSteering, TypeOK
<1>7. ASSUME NEW r \in Runs, DiscardSteering(r) PROVE TypeOK'
  BY <1>7 DEF DiscardSteering, TypeOK, Forget, RunState
<1>8. ASSUME NEW r \in Runs, DrainEnds(r) PROVE TypeOK'
  BY <1>8 DEF DrainEnds, TypeOK
<1>9. ASSUME NEW r \in Runs, IterationStart(r) PROVE TypeOK'
  BY <1>9 DEF IterationStart, TypeOK
<1>10. ASSUME NEW r \in Runs, BuildRequest(r) PROVE TypeOK'
  <2>1. asked' \in [Runs -> Nat]
    BY <1>10 DEF BuildRequest, TypeOK
  <2> QED
    BY <1>10, <2>1 DEF BuildRequest, TypeOK
<1>11. ASSUME NEW r \in Runs, StreamFails(r) PROVE TypeOK'
  BY <1>11 DEF StreamFails, TypeOK
<1>12. ASSUME NEW r \in Runs, NEW n \in 0..MaxCalls, StreamEnds(r, n) PROVE TypeOK'
  <2>1. messages' \in Seq(Message)
    BY <1>12, SayType DEF StreamEnds
  <2>2. logged' \in [Runs -> 0..MaxCalls]
    BY <1>12 DEF StreamEnds, TypeOK
  <2> QED
    BY <1>12, <2>1, <2>2 DEF StreamEnds, TypeOK
<1>13. ASSUME NEW r \in Runs, LogCall(r) PROVE TypeOK'
  <2>1. Batch \in 1..MaxCalls /\ it[r] \in 1..MaxIterations
    BY <1>13, BatchType DEF LogCall
  <2>2. logged[r] + 1 \in 1..MaxCalls
    <3>1. logged[r] \in Nat /\ logged[r] < Batch
      BY <1>13 DEF LogCall, TypeOK
    <3> QED
      BY <2>1, <3>1
  <2>3. toolLog' \in Seq(LogEntry)
    BY <1>13, <2>1, <2>2 DEF LogCall, TypeOK, Entry, LogEntry
  <2>4. logged' \in [Runs -> 0..MaxCalls]
    BY <1>13, <2>2, SMTT(30) DEF LogCall, TypeOK
  <2> QED
    BY <1>13, <2>3, <2>4 DEF LogCall, TypeOK
<1>14. ASSUME NEW r \in Runs, LogBatch(r) PROVE TypeOK'
  <2>1. Batch \in 1..MaxCalls /\ it[r] \in 1..MaxIterations
    BY <1>14, BatchType DEF LogBatch
  <2>2. \A c \in 1..Batch : Entry(r, c) \in LogEntry
    BY <2>1 DEF Entry, LogEntry
  <2>3. SourceOrder(r) \in Seq(LogEntry)
    BY <2>1, <2>2 DEF SourceOrder
  <2>4. toolLog' \in Seq(LogEntry)
    BY <1>14, <2>3 DEF LogBatch, TypeOK
  <2>5. logged' \in [Runs -> 0..MaxCalls]
    BY <1>14, <2>1 DEF LogBatch, TypeOK
  <2> QED
    BY <1>14, <2>4, <2>5 DEF LogBatch, TypeOK
<1>15. ASSUME NEW r \in Runs, BatchAborts(r) PROVE TypeOK'
  BY <1>15 DEF BatchAborts, TypeOK
<1>16. ASSUME NEW r \in Runs, AppendResults(r) PROVE TypeOK'
  <2>1. messages' \in Seq(Message)
    <3>1. logged[r] \in 0..MaxCalls
      BY <1>16 DEF TypeOK
    <3> QED
      BY <1>16, <3>1, SayType DEF AppendResults, SayResults
  <2>2. it' \in [Runs -> 0..MaxIterations]
    <3>1. \/ it' = it
          \/ it[r] < MaxIterations /\ it' = [it EXCEPT ![r] = @ + 1]
      BY <1>16 DEF AppendResults, NotLast
    <3>2. it \in [Runs -> 0..MaxIterations]
      BY DEF TypeOK
    <3>3. it[r] < MaxIterations => it[r] + 1 \in 0..MaxIterations
      BY <3>2
    <3> QED
      BY <3>1, <3>2, <3>3
  <2>3. owed' \in [Runs -> Nat]
    <3>1. owed' = owed \/ owed' = [owed EXCEPT ![r] = Len(accepted)]
      BY <1>16 DEF AppendResults
    <3>2. owed \in [Runs -> Nat] /\ Len(accepted) \in Nat
      BY DEF TypeOK
    <3> QED
      BY <3>1, <3>2
  <2> QED
    BY <1>16, <2>1, <2>2, <2>3 DEF AppendResults, TypeOK
<1>17. ASSUME NEW m \in Steers, Steer(m) PROVE TypeOK'
  <2>1. steering' \in Seq(Steers) /\ Len(steering') <= BufSize
    BY <1>17 DEF Steer, Push, TypeOK
  <2>2. accepted' \in Seq(Steers)
    BY <1>17 DEF Steer, TypeOK
  <2> QED
    BY <1>17, <2>1, <2>2 DEF Steer, TypeOK
<1>18. ASSUME NEW m \in Steers, SteerGivesUp(m) PROVE TypeOK'
  BY <1>18 DEF SteerGivesUp, TypeOK
<1>19. ASSUME Reset PROVE TypeOK'
  <2>1. messages' \in Seq(Message) /\ toolLog' \in Seq(LogEntry)
    BY <1>19 DEF Reset
  <2>2. resetAt' \in Nat /\ resets' \in 0..MaxResets /\ iteration' \in 0..MaxIterations
    BY <1>19 DEF Reset, TypeOK
  <2> QED
    BY <1>19, <2>1, <2>2 DEF Reset, TypeOK
<1>20. CASE UNCHANGED vars
  BY <1>20 DEF vars, TypeOK
<1>21. ASSUME ResetDrains PROVE TypeOK'
  <2>1. /\ Head(steering) \in Steers
        /\ steering' \in Seq(Steers)
        /\ Len(steering') <= BufSize
    BY <1>21 DEF ResetDrains, TypeOK
  <2> QED
    BY <1>21, <2>1 DEF ResetDrains, TypeOK
<1>22. ASSUME ResetEnds PROVE TypeOK'
  <2>1. resetAt' \in Nat
    BY <1>22 DEF ResetEnds, TypeOK
  <2> QED
    BY <1>22, <2>1 DEF ResetEnds, TypeOK
<1> QED
  BY <1>1, <1>2, <1>3, <1>4, <1>5, <1>6, <1>7, <1>8, <1>9, <1>10, <1>11, <1>12,
     <1>13, <1>14, <1>15, <1>16, <1>17, <1>18, <1>19, <1>20,
     <1>21, <1>22
  DEF Next, Step, Finished

\* Nobody else is inside while r is.
LEMMA OthersOutside ==
  ASSUME RunExclusion, NEW r \in Runs, Inside(r)
  PROVE  /\ running
         /\ \A s \in Runs \ {r} : ~Inside(s)
BY DEF RunExclusion

\* A step of the run that is inside, which leaves it inside, preserves exclusion.
LEMMA StayInside ==
  ASSUME RunExclusion, NEW r \in Runs, Inside(r), Inside(r)',
         \A s \in Runs \ {r} : pc'[s] = pc[s],
         running' = running, runID' = r, iteration' \in {it'[r] - 1, it'[r]}
  PROVE  RunExclusion'
<1>1. running /\ \A s \in Runs \ {r} : ~Inside(s)
  BY OthersOutside
<1>2. \A s \in Runs \ {r} : ~Inside(s)'
  BY <1>1 DEF Inside
<1>3. \A s \in Runs : Inside(s)' => s = r
  BY <1>2
<1>4. running'
  BY <1>1
<1> QED
  BY <1>3, <1>4 DEF RunExclusion

\* So does a step that moves no run from one side to the other.
LEMMA NobodyMoves ==
  ASSUME RunExclusion, \A s \in Runs : Inside(s)' <=> Inside(s),
         running' = running,
         \A s \in Runs : Inside(s) /\ pc'[s] # "marked" =>
           pc[s] # "marked" /\ <<runID, iteration, it[s]>>' = <<runID, iteration, it[s]>>
  PROVE  RunExclusion'
BY DEF RunExclusion

\* No step lets a second run in, or publishes another run's identity.
LEMMA ExclusionStep ==
  ASSUME TypeOK, RunExclusion, RunState, [Next]_vars
  PROVE  RunExclusion'
<1> USE AgentAssumption DEF AgentAssumption, agentVars, recordVars, localVars,
      steerVars, resetVars, Goto, Leave, Yield, AtBoundary
<1>1. ASSUME NEW r \in Runs, MarkRunning(r) PROVE RunExclusion'
  <2>1. /\ \A s \in Runs : ~Inside(s)
        /\ pc'[r] = "marked"
        /\ \A s \in Runs \ {r} : pc'[s] = pc[s]
        /\ running'
    BY <1>1 DEF MarkRunning, TypeOK, RunExclusion
  <2>2. Inside(r)' /\ \A s \in Runs \ {r} : ~Inside(s)'
    BY <2>1 DEF Inside
  <2> QED
    BY <2>1, <2>2 DEF RunExclusion
<1>2. ASSUME NEW r \in Runs, MarkIdle(r) PROVE RunExclusion'
  <2>1. /\ Inside(r) /\ ~Inside(r)'
        /\ \A s \in Runs \ {r} : pc'[s] = pc[s]
        /\ running' = FALSE
    BY <1>2 DEF MarkIdle, TypeOK, Inside
  <2>2. \A s \in Runs : ~Inside(s)'
    BY <2>1, OthersOutside DEF Inside
  <2> QED
    BY <2>1, <2>2 DEF RunExclusion
<1>3. ASSUME NEW r \in Runs, Begin(r) PROVE RunExclusion'
  <2>1. /\ Inside(r) /\ Inside(r)'
        /\ \A s \in Runs \ {r} : pc'[s] = pc[s]
        /\ running' = running
    BY <1>3 DEF Begin, TypeOK, Inside
  <2>2. runID' = r /\ iteration' \in {it'[r] - 1, it'[r]}
    BY <1>3 DEF Begin, TypeOK, RunExclusion, Inside
  <2> QED
    BY <2>1, <2>2, StayInside
<1>4. ASSUME NEW r \in Runs, TakeSteering(r) PROVE RunExclusion'
  <2>1. /\ Inside(r) /\ Inside(r)'
        /\ \A s \in Runs \ {r} : pc'[s] = pc[s]
        /\ running' = running
    BY <1>4 DEF TakeSteering, TypeOK, Inside
  <2>2. runID' = r /\ iteration' \in {it'[r] - 1, it'[r]}
    BY <1>4 DEF TakeSteering, TypeOK, RunExclusion, RunState, Inside
  <2> QED
    BY <2>1, <2>2, StayInside
<1>5. ASSUME NEW r \in Runs, KeepSteering(r) PROVE RunExclusion'
  <2>1. /\ Inside(r) /\ Inside(r)'
        /\ \A s \in Runs \ {r} : pc'[s] = pc[s]
        /\ running' = running
    BY <1>5 DEF KeepSteering, TypeOK, Inside
  <2>2. runID' = r /\ iteration' \in {it'[r] - 1, it'[r]}
    BY <1>5 DEF KeepSteering, TypeOK, RunExclusion, RunState, Inside
  <2> QED
    BY <2>1, <2>2, StayInside
<1>6. ASSUME NEW r \in Runs, DiscardSteering(r) PROVE RunExclusion'
  <2>1. /\ Inside(r) /\ Inside(r)'
        /\ \A s \in Runs \ {r} : pc'[s] = pc[s]
        /\ running' = running
    BY <1>6 DEF DiscardSteering, TypeOK, Inside
  <2>2. runID' = r /\ iteration' \in {it'[r] - 1, it'[r]}
    BY <1>6 DEF DiscardSteering, TypeOK, RunExclusion, RunState, Inside
  <2> QED
    BY <2>1, <2>2, StayInside
<1>7. ASSUME NEW r \in Runs, DrainEnds(r) PROVE RunExclusion'
  <2>1. /\ Inside(r) /\ Inside(r)'
        /\ \A s \in Runs \ {r} : pc'[s] = pc[s]
        /\ running' = running
    BY <1>7 DEF DrainEnds, TypeOK, Inside
  <2>2. runID' = r /\ iteration' \in {it'[r] - 1, it'[r]}
    BY <1>7 DEF DrainEnds, TypeOK, RunExclusion, RunState, Inside
  <2> QED
    BY <2>1, <2>2, StayInside
<1>8. ASSUME NEW r \in Runs, IterationStart(r) PROVE RunExclusion'
  <2>1. /\ Inside(r) /\ Inside(r)'
        /\ \A s \in Runs \ {r} : pc'[s] = pc[s]
        /\ running' = running
    BY <1>8 DEF IterationStart, TypeOK, Inside
  <2>2. runID' = r /\ iteration' \in {it'[r] - 1, it'[r]}
    BY <1>8 DEF IterationStart, TypeOK, RunExclusion, RunState, Inside
  <2> QED
    BY <2>1, <2>2, StayInside
<1>9. ASSUME NEW r \in Runs, BuildRequest(r) PROVE RunExclusion'
  <2>1. /\ Inside(r) /\ Inside(r)'
        /\ \A s \in Runs \ {r} : pc'[s] = pc[s]
        /\ running' = running
    BY <1>9 DEF BuildRequest, TypeOK, Inside
  <2>2. runID' = r /\ iteration' \in {it'[r] - 1, it'[r]}
    BY <1>9 DEF BuildRequest, TypeOK, RunExclusion, RunState, Inside
  <2> QED
    BY <2>1, <2>2, StayInside
<1>10. ASSUME NEW r \in Runs, StreamFails(r) PROVE RunExclusion'
  <2>1. /\ Inside(r) /\ Inside(r)'
        /\ \A s \in Runs \ {r} : pc'[s] = pc[s]
        /\ running' = running
    BY <1>10 DEF StreamFails, TypeOK, Inside
  <2>2. runID' = r /\ iteration' \in {it'[r] - 1, it'[r]}
    BY <1>10 DEF StreamFails, TypeOK, RunExclusion, RunState, Inside
  <2> QED
    BY <2>1, <2>2, StayInside
<1>11. ASSUME NEW r \in Runs, NEW n \in 0..MaxCalls, StreamEnds(r, n) PROVE RunExclusion'
  <2>1. /\ Inside(r) /\ Inside(r)'
        /\ \A s \in Runs \ {r} : pc'[s] = pc[s]
        /\ running' = running
    BY <1>11 DEF StreamEnds, TypeOK, Inside
  <2>2. runID' = r /\ iteration' \in {it'[r] - 1, it'[r]}
    BY <1>11 DEF StreamEnds, TypeOK, RunExclusion, RunState, Inside
  <2> QED
    BY <2>1, <2>2, StayInside
<1>12. ASSUME NEW r \in Runs, LogCall(r) PROVE RunExclusion'
  <2>1. /\ Inside(r) /\ Inside(r)'
        /\ \A s \in Runs \ {r} : pc'[s] = pc[s]
        /\ running' = running
    BY <1>12 DEF LogCall, TypeOK, Inside
  <2>2. runID' = r /\ iteration' \in {it'[r] - 1, it'[r]}
    BY <1>12 DEF LogCall, TypeOK, RunExclusion, RunState, Inside
  <2> QED
    BY <2>1, <2>2, StayInside
<1>13. ASSUME NEW r \in Runs, LogBatch(r) PROVE RunExclusion'
  <2>1. /\ Inside(r) /\ Inside(r)'
        /\ \A s \in Runs \ {r} : pc'[s] = pc[s]
        /\ running' = running
    BY <1>13 DEF LogBatch, TypeOK, Inside
  <2>2. runID' = r /\ iteration' \in {it'[r] - 1, it'[r]}
    BY <1>13 DEF LogBatch, TypeOK, RunExclusion, RunState, Inside
  <2> QED
    BY <2>1, <2>2, StayInside
<1>14. ASSUME NEW r \in Runs, BatchAborts(r) PROVE RunExclusion'
  <2>1. /\ Inside(r) /\ Inside(r)'
        /\ \A s \in Runs \ {r} : pc'[s] = pc[s]
        /\ running' = running
    BY <1>14 DEF BatchAborts, TypeOK, Inside
  <2>2. runID' = r /\ iteration' \in {it'[r] - 1, it'[r]}
    BY <1>14 DEF BatchAborts, TypeOK, RunExclusion, RunState, Inside
  <2> QED
    BY <2>1, <2>2, StayInside
<1>15. ASSUME NEW r \in Runs, AppendResults(r) PROVE RunExclusion'
  <2>1. /\ Inside(r) /\ Inside(r)'
        /\ \A s \in Runs \ {r} : pc'[s] = pc[s]
        /\ running' = running
    BY <1>15 DEF AppendResults, NotLast, TypeOK, Inside
  <2>2. runID' = r
    BY <1>15 DEF AppendResults, RunExclusion, Inside
  <2>3. iteration' = it[r] /\ it[r] \in Nat
    BY <1>15 DEF AppendResults, TypeOK, RunState, Inside
  <2>4. it'[r] = it[r] \/ it'[r] = it[r] + 1
    BY <1>15 DEF AppendResults, TypeOK
  <2>5. iteration' \in {it'[r] - 1, it'[r]}
    BY <2>3, <2>4
  <2> QED
    BY <2>1, <2>2, <2>5, StayInside
<1>16. ASSUME NEW r \in Runs, Refuse(r) PROVE RunExclusion'
  BY <1>16, NobodyMoves DEF Refuse, RefusedKeeps, TypeOK, Inside
<1>17. ASSUME NEW m \in Steers, Steer(m) PROVE RunExclusion'
  BY <1>17, NobodyMoves DEF Steer, TypeOK, Inside
<1>18. ASSUME NEW m \in Steers, SteerGivesUp(m) PROVE RunExclusion'
  BY <1>18, NobodyMoves DEF SteerGivesUp, TypeOK, Inside
<1>19. ASSUME Reset PROVE RunExclusion'
  <2>1. \A s \in Runs : ~Inside(s)
    BY <1>19 DEF Reset, MayReset, RunExclusion
  <2> QED
    BY <1>19, <2>1, NobodyMoves DEF Reset, Inside
<1>20. CASE UNCHANGED vars
  BY <1>20, NobodyMoves DEF vars, Inside
<1>21. ASSUME ResetDrains PROVE RunExclusion'
  BY <1>21, NobodyMoves DEF ResetDrains, Inside
<1>22. ASSUME ResetEnds PROVE RunExclusion'
  BY <1>22, NobodyMoves DEF ResetEnds, Inside
<1> QED
  BY <1>1, <1>2, <1>3, <1>4, <1>5, <1>6, <1>7, <1>8, <1>9, <1>10, <1>11, <1>12,
     <1>13, <1>14, <1>15, <1>16, <1>17, <1>18, <1>19, <1>20,
     <1>21, <1>22
  DEF Next, Step, Finished

\* Nothing is claimed of a run that is outside, so after a step of the run
\* inside only its own facts are left to show.
LEMMA OwnFactsSuffice ==
  ASSUME RunExclusion', NEW r \in Runs, Inside(r)', RunFacts(r)'
  PROVE  RunState'
<1>1. \A s \in Runs \ {r} : ~Inside(s)'
  BY DEF RunExclusion
<1>2. \A s \in Runs \ {r} : RunFacts(s)'
  BY <1>1 DEF RunFacts, Inside
<1> QED
  BY <1>2 DEF RunState, RunFacts

\* A step that changes none of what RunState speaks of.
LEMMA RunStateStutter ==
  ASSUME RunState, UNCHANGED <<pc, it, iteration, inHand, messages, logged>>
  PROVE  RunState'
BY DEF RunState, Inside, OpenBatch, Batch

\* No step of anybody else changes what a run inside relies on.
LEMMA RunStateStep ==
  ASSUME TypeOK, RunExclusion, RunState, RunExclusion', [Next]_vars
  PROVE  RunState'
<1> USE AgentAssumption DEF AgentAssumption, agentVars, recordVars, localVars,
      steerVars, resetVars, Goto, Leave, Yield, AtBoundary
<1>1. ASSUME NEW r \in Runs, MarkRunning(r) PROVE RunState'
  <2>1. Inside(r)'
    BY <1>1 DEF MarkRunning, TypeOK, Inside
  <2>2. RunFacts(r)'
    BY <1>1 DEF MarkRunning, TypeOK, RunState, RunFacts, Inside, OpenBatch, Batch
  <2> QED
    BY <2>1, <2>2, OwnFactsSuffice
<1>2. ASSUME NEW r \in Runs, Begin(r) PROVE RunState'
  <2>1. Inside(r)'
    BY <1>2 DEF Begin, TypeOK, Inside
  <2>2. RunFacts(r)'
    BY <1>2 DEF Begin, TypeOK, RunState, RunFacts, Inside, OpenBatch, Batch
  <2> QED
    BY <2>1, <2>2, OwnFactsSuffice
<1>3. ASSUME NEW r \in Runs, TakeSteering(r) PROVE RunState'
  <2>1. Inside(r)'
    BY <1>3 DEF TakeSteering, TypeOK, Inside
  <2>2. RunFacts(r)'
    BY <1>3 DEF TakeSteering, TypeOK, RunState, RunFacts, Inside, OpenBatch, Batch
  <2> QED
    BY <2>1, <2>2, OwnFactsSuffice
<1>4. ASSUME NEW r \in Runs, KeepSteering(r) PROVE RunState'
  <2>1. Inside(r)'
    BY <1>4 DEF KeepSteering, TypeOK, Inside
  <2>2. RunFacts(r)
    BY <1>4 DEF KeepSteering, RunState, RunFacts
  <2>3. UNCHANGED <<it, iteration>> /\ pc[r] = "inHand" /\ pc'[r] \in {"boundary", "leaving"}
    BY <1>4 DEF KeepSteering, TypeOK
  <2>4. RunFacts(r)'
    BY <2>2, <2>3 DEF RunFacts, Inside
  <2> QED
    BY <2>1, <2>4, OwnFactsSuffice
<1>5. ASSUME NEW r \in Runs, DiscardSteering(r) PROVE RunState'
  <2>1. Inside(r)'
    BY <1>5 DEF DiscardSteering, TypeOK, Inside
  <2>2. RunFacts(r)'
    BY <1>5, SMTT(30) DEF DiscardSteering, TypeOK, RunState, RunFacts, Inside, OpenBatch, Batch
  <2> QED
    BY <2>1, <2>2, OwnFactsSuffice
<1>6. ASSUME NEW r \in Runs, DrainEnds(r) PROVE RunState'
  <2>1. Inside(r)'
    BY <1>6 DEF DrainEnds, TypeOK, Inside
  <2>2. RunFacts(r)'
    BY <1>6 DEF DrainEnds, TypeOK, RunState, RunFacts, Inside, OpenBatch, Batch
  <2> QED
    BY <2>1, <2>2, OwnFactsSuffice
<1>7. ASSUME NEW r \in Runs, IterationStart(r) PROVE RunState'
  <2>1. Inside(r)'
    BY <1>7 DEF IterationStart, TypeOK, Inside
  <2>2. RunFacts(r)'
    BY <1>7, SMTT(30) DEF IterationStart, TypeOK, RunState, RunFacts, Inside, OpenBatch, Batch
  <2> QED
    BY <2>1, <2>2, OwnFactsSuffice
<1>8. ASSUME NEW r \in Runs, BuildRequest(r) PROVE RunState'
  <2>1. Inside(r)'
    BY <1>8 DEF BuildRequest, TypeOK, Inside
  <2>2. RunFacts(r)
    BY <1>8 DEF BuildRequest, RunState, RunFacts
  <2>3. UNCHANGED <<it, iteration>> /\ pc[r] = "request" /\ pc'[r] \in {"stream", "leaving"}
    BY <1>8 DEF BuildRequest, TypeOK
  <2>4. RunFacts(r)'
    BY <2>2, <2>3 DEF RunFacts, Inside
  <2> QED
    BY <2>1, <2>4, OwnFactsSuffice
<1>9. ASSUME NEW r \in Runs, StreamFails(r) PROVE RunState'
  <2>1. Inside(r)'
    BY <1>9 DEF StreamFails, TypeOK, Inside
  <2>2. RunFacts(r)'
    BY <1>9 DEF StreamFails, TypeOK, RunState, RunFacts, Inside, OpenBatch, Batch
  <2> QED
    BY <2>1, <2>2, OwnFactsSuffice
<1>10. ASSUME NEW r \in Runs, NEW n \in 0..MaxCalls, StreamEnds(r, n) PROVE RunState'
  <2>1. Inside(r)'
    BY <1>10 DEF StreamEnds, TypeOK, Inside
  <2>2. it'[r] \in 1..MaxIterations /\ iteration' = it'[r] /\ it' = it
    BY <1>10 DEF StreamEnds, RunState, Inside
  <2>3. /\ pc'[r] \in {"leaving", "tools"} /\ (pc'[r] = "tools" => n > 0)
        /\ logged'[r] = 0
    BY <1>10 DEF StreamEnds, TypeOK
  <2>4. /\ Len(messages') > 0
        /\ messages'[Len(messages')] =
             [kind |-> "assistant", of |-> r, it |-> it[r], n |-> n]
    <3> DEFINE e == [kind |-> "assistant", of |-> r, it |-> it[r], n |-> n]
    <3>1. messages \in Seq(Message) /\ messages' = Append(messages, e)
      BY <1>10 DEF StreamEnds, Say, TypeOK
    <3>2. Len(messages') = Len(messages) + 1 /\ messages'[Len(messages) + 1] = e
      BY <3>1, AppendShape
    <3>3. Len(messages) \in Nat
      BY <3>1
    <3> QED
      BY <3>2, <3>3
  <2>5. pc'[r] = "tools" => OpenBatch(r)' /\ logged'[r] <= Batch'
    BY <2>2, <2>3, <2>4 DEF OpenBatch, Batch
  <2>6. RunFacts(r)'
    BY <2>2, <2>3, <2>5 DEF RunFacts
  <2> QED
    BY <2>1, <2>6, OwnFactsSuffice
<1>11. ASSUME NEW r \in Runs, LogCall(r) PROVE RunState'
  <2>1. Inside(r)'
    BY <1>11 DEF LogCall, TypeOK, Inside
  <2>2. RunFacts(r) /\ OpenBatch(r)
    BY <1>11 DEF LogCall, RunState, RunFacts
  <2>3. UNCHANGED <<pc, it, iteration, messages>>
    BY <1>11 DEF LogCall
  <2>4. OpenBatch(r)' /\ Batch' = Batch
    BY <2>2, <2>3 DEF OpenBatch, Batch
  <2>5. logged'[r] <= Batch
    <3>1. logged[r] \in Nat /\ logged[r] < Batch /\ logged'[r] = logged[r] + 1
      BY <1>11 DEF LogCall, TypeOK
    <3> QED
      BY <1>11, <3>1, BatchType DEF LogCall
  <2>6. RunFacts(r)'
    BY <1>11, <2>2, <2>3, <2>4, <2>5 DEF LogCall, RunFacts, Inside
  <2> QED
    BY <2>1, <2>6, OwnFactsSuffice
<1>12. ASSUME NEW r \in Runs, LogBatch(r) PROVE RunState'
  <2>1. Inside(r)'
    BY <1>12 DEF LogBatch, TypeOK, Inside
  <2>2. RunFacts(r) /\ OpenBatch(r)
    BY <1>12 DEF LogBatch, RunState, RunFacts
  <2>3. UNCHANGED <<it, iteration, messages>> /\ pc'[r] = "results"
    BY <1>12 DEF LogBatch, TypeOK
  <2>4. OpenBatch(r)' /\ Batch' = Batch
    BY <2>2, <2>3 DEF OpenBatch, Batch
  <2>5. logged'[r] <= Batch
    <3>1. logged'[r] = Batch
      BY <1>12 DEF LogBatch, TypeOK
    <3> QED
      BY <1>12, <3>1, BatchType DEF LogBatch
  <2>6. RunFacts(r)'
    BY <1>12, <2>2, <2>3, <2>4, <2>5 DEF LogBatch, RunFacts, Inside
  <2> QED
    BY <2>1, <2>6, OwnFactsSuffice
<1>13. ASSUME NEW r \in Runs, BatchAborts(r) PROVE RunState'
  <2>1. Inside(r)'
    BY <1>13 DEF BatchAborts, TypeOK, Inside
  <2>2. RunFacts(r)'
    BY <1>13 DEF BatchAborts, TypeOK, RunState, RunFacts, Inside, OpenBatch, Batch
  <2> QED
    BY <2>1, <2>2, OwnFactsSuffice
<1>14. ASSUME NEW r \in Runs, AppendResults(r) PROVE RunState'
  <2>1. Inside(r)'
    BY <1>14 DEF AppendResults, NotLast, TypeOK, Inside
  <2>2. it[r] \in 1..MaxIterations /\ iteration' = it[r]
    BY <1>14 DEF AppendResults, RunState, Inside
  <2>3. \/ pc'[r] = "leaving" /\ it'[r] = it[r]
        \/ pc'[r] = "boundary" /\ it[r] < MaxIterations /\ it'[r] = it[r] + 1
    BY <1>14 DEF AppendResults, NotLast, TypeOK
  <2>4. /\ it'[r] \in 1..MaxIterations
        /\ pc'[r] = "boundary" => iteration' = it'[r] - 1
    BY <2>2, <2>3
  <2>5. RunFacts(r)'
    BY <2>3, <2>4 DEF RunFacts
  <2> QED
    BY <2>1, <2>5, OwnFactsSuffice
<1>15. ASSUME NEW r \in Runs, MarkIdle(r) PROVE RunState'
  <2>1. \A s \in Runs : ~Inside(s)'
    BY <1>15 DEF MarkIdle, RunExclusion
  <2> QED
    BY <2>1 DEF RunState, Inside
<1>16. ASSUME NEW r \in Runs, Refuse(r) PROVE RunState'
  BY <1>16 DEF Refuse, TypeOK, RunState, Inside, OpenBatch, Batch
<1>17. ASSUME NEW m \in Steers, Steer(m) PROVE RunState'
  BY <1>17, RunStateStutter DEF Steer
<1>18. ASSUME NEW m \in Steers, SteerGivesUp(m) PROVE RunState'
  BY <1>18, RunStateStutter DEF SteerGivesUp
<1>19. ASSUME Reset PROVE RunState'
  <2>1. \A s \in Runs : ~Inside(s)'
    BY <1>19 DEF Reset, MayReset, RunExclusion, Inside
  <2> QED
    BY <2>1 DEF RunState, Inside
<1>20. CASE UNCHANGED vars
  BY <1>20, RunStateStutter DEF vars
<1>21. ASSUME ResetDrains PROVE RunState'
  BY <1>21, RunStateStutter DEF ResetDrains
<1>22. ASSUME ResetEnds PROVE RunState'
  BY <1>22, RunStateStutter DEF ResetEnds
<1> QED
  BY <1>1, <1>2, <1>3, <1>4, <1>5, <1>6, <1>7, <1>8, <1>9, <1>10, <1>11, <1>12,
     <1>13, <1>14, <1>15, <1>16, <1>17, <1>18, <1>19, <1>20,
     <1>21, <1>22
  DEF Next, Step, Finished

\* A run inside that is not streaming leaves nothing to show: nobody streams.
LEMMA NotStreaming ==
  ASSUME RunExclusion', NEW r \in Runs, Inside(r)', pc'[r] # "stream"
  PROVE  ReplyFollowsItsRequest'
<1>1. \A s \in Runs \ {r} : ~Inside(s)'
  BY DEF RunExclusion
<1>2. \A s \in Runs : pc'[s] # "stream"
  BY <1>1 DEF Inside
<1> QED
  BY <1>2 DEF ReplyFollowsItsRequest

\* Nobody writes to the transcript while a model answers.
LEMMA ReplyStep ==
  ASSUME TypeOK, RunExclusion, ReplyFollowsItsRequest, RunExclusion', [Next]_vars
  PROVE  ReplyFollowsItsRequest'
<1> USE DEF agentVars, recordVars, localVars, steerVars, resetVars, Goto, Leave,
      Yield, AtBoundary
<1>1. ASSUME NEW r \in Runs, MarkRunning(r) PROVE ReplyFollowsItsRequest'
  <2>1. Inside(r)' /\ pc'[r] # "stream"
    BY <1>1 DEF MarkRunning, TypeOK, Inside
  <2> QED
    BY <2>1, NotStreaming
<1>2. ASSUME NEW r \in Runs, Begin(r) PROVE ReplyFollowsItsRequest'
  <2>1. Inside(r)' /\ pc'[r] # "stream"
    BY <1>2 DEF Begin, TypeOK, Inside
  <2> QED
    BY <2>1, NotStreaming
<1>3. ASSUME NEW r \in Runs, TakeSteering(r) PROVE ReplyFollowsItsRequest'
  <2>1. Inside(r)' /\ pc'[r] # "stream"
    BY <1>3 DEF TakeSteering, TypeOK, Inside
  <2> QED
    BY <2>1, NotStreaming
<1>4. ASSUME NEW r \in Runs, KeepSteering(r) PROVE ReplyFollowsItsRequest'
  <2>1. Inside(r)' /\ pc'[r] # "stream"
    BY <1>4 DEF KeepSteering, TypeOK, Inside
  <2> QED
    BY <2>1, NotStreaming
<1>5. ASSUME NEW r \in Runs, DiscardSteering(r) PROVE ReplyFollowsItsRequest'
  <2>1. Inside(r)' /\ pc'[r] # "stream"
    BY <1>5 DEF DiscardSteering, TypeOK, Inside
  <2> QED
    BY <2>1, NotStreaming
<1>6. ASSUME NEW r \in Runs, DrainEnds(r) PROVE ReplyFollowsItsRequest'
  <2>1. Inside(r)' /\ pc'[r] # "stream"
    BY <1>6 DEF DrainEnds, TypeOK, Inside
  <2> QED
    BY <2>1, NotStreaming
<1>7. ASSUME NEW r \in Runs, IterationStart(r) PROVE ReplyFollowsItsRequest'
  <2>1. Inside(r)' /\ pc'[r] # "stream"
    BY <1>7 DEF IterationStart, TypeOK, Inside
  <2> QED
    BY <2>1, NotStreaming
<1>8. ASSUME NEW r \in Runs, StreamFails(r) PROVE ReplyFollowsItsRequest'
  <2>1. Inside(r)' /\ pc'[r] # "stream"
    BY <1>8 DEF StreamFails, TypeOK, Inside
  <2> QED
    BY <2>1, NotStreaming
<1>9. ASSUME NEW r \in Runs, NEW n \in 0..MaxCalls, StreamEnds(r, n)
      PROVE  ReplyFollowsItsRequest'
  <2>1. Inside(r)' /\ pc'[r] # "stream"
    BY <1>9 DEF StreamEnds, TypeOK, Inside
  <2> QED
    BY <2>1, NotStreaming
<1>10. ASSUME NEW r \in Runs, LogCall(r) PROVE ReplyFollowsItsRequest'
  <2>1. Inside(r)' /\ pc'[r] # "stream"
    BY <1>10 DEF LogCall, TypeOK, Inside
  <2> QED
    BY <2>1, NotStreaming
<1>11. ASSUME NEW r \in Runs, LogBatch(r) PROVE ReplyFollowsItsRequest'
  <2>1. Inside(r)' /\ pc'[r] # "stream"
    BY <1>11 DEF LogBatch, TypeOK, Inside
  <2> QED
    BY <2>1, NotStreaming
<1>12. ASSUME NEW r \in Runs, BatchAborts(r) PROVE ReplyFollowsItsRequest'
  <2>1. Inside(r)' /\ pc'[r] # "stream"
    BY <1>12 DEF BatchAborts, TypeOK, Inside
  <2> QED
    BY <2>1, NotStreaming
<1>13. ASSUME NEW r \in Runs, AppendResults(r) PROVE ReplyFollowsItsRequest'
  <2>1. Inside(r)' /\ pc'[r] # "stream"
    BY <1>13 DEF AppendResults, NotLast, TypeOK, Inside
  <2> QED
    BY <2>1, NotStreaming
<1>14. ASSUME NEW r \in Runs, BuildRequest(r) PROVE ReplyFollowsItsRequest'
  <2>1. Inside(r)' /\ Len(messages') = asked'[r]
    BY <1>14 DEF BuildRequest, TypeOK, Inside
  <2>2. \A s \in Runs \ {r} : pc'[s] # "stream"
    BY <2>1 DEF RunExclusion, Inside
  <2> QED
    BY <2>1, <2>2 DEF ReplyFollowsItsRequest
<1>15. ASSUME NEW r \in Runs, MarkIdle(r) PROVE ReplyFollowsItsRequest'
  BY <1>15 DEF MarkIdle, TypeOK, ReplyFollowsItsRequest
<1>16. ASSUME NEW r \in Runs, Refuse(r) PROVE ReplyFollowsItsRequest'
  BY <1>16 DEF Refuse, TypeOK, ReplyFollowsItsRequest
<1>17. ASSUME NEW m \in Steers, Steer(m) PROVE ReplyFollowsItsRequest'
  BY <1>17 DEF Steer, ReplyFollowsItsRequest
<1>18. ASSUME NEW m \in Steers, SteerGivesUp(m) PROVE ReplyFollowsItsRequest'
  BY <1>18 DEF SteerGivesUp, ReplyFollowsItsRequest
<1>19. ASSUME Reset PROVE ReplyFollowsItsRequest'
  <2>1. \A s \in Runs : pc'[s] # "stream"
    BY <1>19 DEF Reset, MayReset, RunExclusion, Inside
  <2> QED
    BY <2>1 DEF ReplyFollowsItsRequest
<1>20. CASE UNCHANGED vars
  BY <1>20 DEF vars, ReplyFollowsItsRequest
<1>21. ASSUME ResetDrains PROVE ReplyFollowsItsRequest'
  BY <1>21 DEF ResetDrains, ReplyFollowsItsRequest
<1>22. ASSUME ResetEnds PROVE ReplyFollowsItsRequest'
  BY <1>22 DEF ResetEnds, ReplyFollowsItsRequest
<1> QED
  BY <1>1, <1>2, <1>3, <1>4, <1>5, <1>6, <1>7, <1>8, <1>9, <1>10, <1>11, <1>12,
     <1>13, <1>14, <1>15, <1>16, <1>17, <1>18, <1>19, <1>20,
     <1>21, <1>22
  DEF Next, Step, Finished

\* Each way the transcript changes leaves results behind their calls.
LEMMA SameTranscript ==
  ASSUME ResultsFollowCalls, UNCHANGED messages
  PROVE  ResultsFollowCalls'
BY DEF ResultsFollowCalls, Entries

\* An entry that is not a tool message may stand anywhere.
LEMMA OtherEntry ==
  ASSUME TypeOK, ResultsFollowCalls, NEW e, e.kind # "tool",
         messages' = Append(messages, e)
  PROVE  ResultsFollowCalls'
<1>1. /\ messages \in Seq(Message) /\ Len(messages) \in Nat
      /\ Len(messages') = Len(messages) + 1
      /\ messages'[Len(messages) + 1] = e
      /\ \A i \in 1..Len(messages) : messages'[i] = messages[i]
  BY AppendShape DEF TypeOK
<1>2. ASSUME NEW i \in Entries("tool")'
      PROVE  /\ i \in Entries("tool") /\ messages'[i] = messages[i]
             /\ messages'[i - 1] = messages[i - 1]
  <2>1. i \in 1..Len(messages) + 1 /\ messages'[i].kind = "tool"
    BY <1>1 DEF Entries
  <2>2. i \in 1..Len(messages)
    BY <1>1, <2>1
  <2>3. messages'[i] = messages[i] /\ i \in Entries("tool")
    BY <1>1, <2>1, <2>2 DEF Entries
  <2>4. i > 1
    BY <2>3 DEF ResultsFollowCalls
  <2>5. i - 1 \in 1..Len(messages)
    BY <1>1, <2>2, <2>4
  <2> QED
    BY <1>1, <2>3, <2>5
<1> QED
  BY <1>2, ZenonT(30) DEF ResultsFollowCalls

\* AppendResults answers the assistant's message it stands behind.
LEMMA NewResults ==
  ASSUME TypeOK, RunState, ResultsFollowCalls, NEW r \in Runs, AppendResults(r)
  PROVE  ResultsFollowCalls'
<1> DEFINE e == [kind |-> "tool", of |-> r, it |-> it[r], n |-> logged[r]]
<1>1. /\ OpenBatch(r) /\ logged[r] = messages[Len(messages)].n
      /\ messages' = Append(messages, e)
  BY DEF AppendResults, SayResults, Say, RunState, Batch
<1>2. /\ messages \in Seq(Message) /\ Len(messages) \in Nat /\ Len(messages) > 0
      /\ Len(messages') = Len(messages) + 1
      /\ messages'[Len(messages) + 1] = e
      /\ \A i \in 1..Len(messages) : messages'[i] = messages[i]
  BY <1>1, AppendShape, SMTT(30) DEF TypeOK, OpenBatch
<1>3. ASSUME NEW i \in Entries("tool")', i \in 1..Len(messages)
      PROVE  /\ i \in Entries("tool") /\ messages'[i] = messages[i]
             /\ messages'[i - 1] = messages[i - 1]
  <2>1. messages'[i] = messages[i] /\ i \in Entries("tool")
    BY <1>2, <1>3 DEF Entries
  <2>2. i > 1
    BY <2>1 DEF ResultsFollowCalls
  <2>3. i - 1 \in 1..Len(messages)
    BY <1>2, <1>3, <2>2
  <2> QED
    BY <1>2, <2>1, <2>3
<1>4. \A i \in Entries("tool")' : i \in 1..Len(messages) \/ i = Len(messages) + 1
  BY <1>2 DEF Entries
<1>5. LET i == Len(messages) + 1
          a == messages'[i - 1]
      IN  /\ i > 1 /\ messages'[i] = e
          /\ a.kind = "assistant" /\ a.of = e.of
          /\ a.it = e.it /\ a.n = e.n /\ a.n > 0
  <2>1. Len(messages) + 1 - 1 = Len(messages) /\ Len(messages) \in 1..Len(messages)
    BY <1>2
  <2>2. messages'[Len(messages)] = messages[Len(messages)]
    BY <1>2, <2>1
  <2> QED
    BY <1>1, <1>2, <2>1, <2>2 DEF OpenBatch
<1> QED
  BY <1>3, <1>4, <1>5 DEF ResultsFollowCalls

\* No step parts results from the calls they answer.
LEMMA ResultsStep ==
  ASSUME TypeOK, RunState, ResultsFollowCalls, [Next]_vars
  PROVE  ResultsFollowCalls'
<1> USE DEF recordVars
<1>1. ASSUME NEW r \in Runs, MarkRunning(r) PROVE ResultsFollowCalls'
  BY <1>1, SameTranscript DEF MarkRunning
<1>2. ASSUME NEW r \in Runs, Refuse(r) PROVE ResultsFollowCalls'
  BY <1>2, SameTranscript DEF Refuse
<1>3. ASSUME NEW r \in Runs, MarkIdle(r) PROVE ResultsFollowCalls'
  BY <1>3, SameTranscript DEF MarkIdle
<1>4. ASSUME NEW r \in Runs, TakeSteering(r) PROVE ResultsFollowCalls'
  BY <1>4, SameTranscript DEF TakeSteering
<1>5. ASSUME NEW r \in Runs, DiscardSteering(r) PROVE ResultsFollowCalls'
  BY <1>5, SameTranscript DEF DiscardSteering
<1>6. ASSUME NEW r \in Runs, DrainEnds(r) PROVE ResultsFollowCalls'
  BY <1>6, SameTranscript DEF DrainEnds
<1>7. ASSUME NEW r \in Runs, IterationStart(r) PROVE ResultsFollowCalls'
  BY <1>7, SameTranscript DEF IterationStart
<1>8. ASSUME NEW r \in Runs, BuildRequest(r) PROVE ResultsFollowCalls'
  BY <1>8, SameTranscript DEF BuildRequest
<1>9. ASSUME NEW r \in Runs, StreamFails(r) PROVE ResultsFollowCalls'
  BY <1>9, SameTranscript DEF StreamFails
<1>10. ASSUME NEW r \in Runs, LogCall(r) PROVE ResultsFollowCalls'
  BY <1>10, SameTranscript DEF LogCall
<1>11. ASSUME NEW r \in Runs, LogBatch(r) PROVE ResultsFollowCalls'
  BY <1>11, SameTranscript DEF LogBatch
<1>12. ASSUME NEW r \in Runs, BatchAborts(r) PROVE ResultsFollowCalls'
  BY <1>12, SameTranscript DEF BatchAborts
<1>13. ASSUME NEW m \in Steers, Steer(m) PROVE ResultsFollowCalls'
  BY <1>13, SameTranscript DEF Steer
<1>14. ASSUME NEW m \in Steers, SteerGivesUp(m) PROVE ResultsFollowCalls'
  BY <1>14, SameTranscript DEF SteerGivesUp
<1>15. ASSUME NEW r \in Runs, Begin(r) PROVE ResultsFollowCalls'
  BY <1>15, OtherEntry DEF Begin, Say
<1>16. ASSUME NEW r \in Runs, KeepSteering(r) PROVE ResultsFollowCalls'
  BY <1>16, OtherEntry DEF KeepSteering
<1>17. ASSUME NEW r \in Runs, NEW n \in 0..MaxCalls, StreamEnds(r, n) PROVE ResultsFollowCalls'
  BY <1>17, OtherEntry DEF StreamEnds, Say
<1>18. ASSUME NEW r \in Runs, AppendResults(r) PROVE ResultsFollowCalls'
  BY <1>18, NewResults
<1>19. ASSUME Reset PROVE ResultsFollowCalls'
  <2>1. Len(messages') = 0 /\ messages' = <<>>
    BY <1>19 DEF Reset
  <2> QED
    BY <2>1 DEF ResultsFollowCalls, Entries
<1>20. CASE UNCHANGED vars
  BY <1>20, SameTranscript DEF vars
<1>21. ASSUME ResetDrains PROVE ResultsFollowCalls'
  BY <1>21, SameTranscript DEF ResetDrains
<1>22. ASSUME ResetEnds PROVE ResultsFollowCalls'
  BY <1>22, SameTranscript DEF ResetEnds
<1> QED
  BY <1>1, <1>2, <1>3, <1>4, <1>5, <1>6, <1>7, <1>8, <1>9, <1>10, <1>11, <1>12,
     <1>13, <1>14, <1>15, <1>16, <1>17, <1>18, <1>19, <1>20,
     <1>21, <1>22
  DEF Next, Step, Finished

\* The invariant is inductive.
LEMMA NextIInv == IInv /\ [Next]_vars => IInv'
<1> SUFFICES ASSUME IInv, [Next]_vars PROVE IInv'
  OBVIOUS
<1>1. TypeOK'
  BY TypeOKStep DEF IInv
<1>2. RunExclusion'
  BY ExclusionStep DEF IInv
<1>3. RunState'
  BY <1>2, RunStateStep DEF IInv
<1>4. ReplyFollowsItsRequest'
  BY <1>2, ReplyStep DEF IInv
<1>5. ResultsFollowCalls'
  BY ResultsStep DEF IInv
<1> QED
  BY <1>1, <1>2, <1>3, <1>4, <1>5 DEF IInv

\* The invariant holds in every state.
LEMMA Inductive == Spec => []IInv
BY InitIInv, NextIInv, PTL DEF Spec

-----------------------------------------------------------------------------
\* The agent's state stays well typed: no iteration counter passes
\* MaxIterations, and the steering channel never holds more than BufSize.
THEOREM AgentTypeCorrect == Spec => []TypeOK
<1>1. IInv => TypeOK
  BY DEF IInv
<1> QED
  BY Inductive, <1>1, PTL

\* However many Run calls overlap, at most one is inside, and the agent's
\* published state is that run's.
THEOREM OneRunAtATime == Spec => []RunExclusion
<1>1. IInv => RunExclusion
  BY DEF IInv
<1> QED
  BY Inductive, <1>1, PTL

\* Nothing enters the transcript between a request and its reply.
THEOREM ReplyAnswersRequest == Spec => []ReplyFollowsItsRequest
<1>1. IInv => ReplyFollowsItsRequest
  BY DEF IInv
<1> QED
  BY Inductive, <1>1, PTL

\* Tool results always stand directly after the calls they answer.
THEOREM ResultsAnswerCalls == Spec => []ResultsFollowCalls
<1>1. IInv => ResultsFollowCalls
  BY DEF IInv
<1> QED
  BY Inductive, <1>1, PTL

-----------------------------------------------------------------------------
(* Part 2: the records.                                                    *)

\* The stages of a run, as its records see them.
Before == {"new", "refused", "marked"}
Asking == {"boundary", "inHand", "iterate", "request", "stream"}
Working == {"tools", "results"}
Over == {"leaving", "left"}

\* The entries the log has of iteration t of run r.
LogOf(r, t) == {k \in DOMAIN toolLog : toolLog[k].of = r /\ toolLog[k].it = t}

\* How many LLM calls a run has made, by where it is.
CountedOf(r) ==
  /\ pc[r] \in Before => Mine(r) = {}
  /\ pc[r] \in Asking => Cardinality(Mine(r)) = it[r] - 1
  /\ pc[r] \in Working => Cardinality(Mine(r)) = it[r]
  /\ Cardinality(Mine(r)) <= MaxIterations
  /\ how[r] = "maxIterations" /\ Mine(r) # {} => Cardinality(Mine(r)) = MaxIterations
  /\ \A i \in Mine(r) : messages[i].it = Rank(Mine(r), i)

\* Which of its calls are answered, by where it is.
AnswersOf(r) ==
  /\ how[r] # "none" => pc[r] \in Over
  /\ pc[r] \in Asking =>
       /\ Len(messages) > 0 /\ messages[Len(messages)].kind # "assistant"
       /\ \A i \in Mine(r) : Answered(i)
  /\ pc[r] \in Working => \A i \in Mine(r) : i = Len(messages) \/ Answered(i)
  /\ how[r] = "maxIterations" => \A i \in Mine(r) : Answered(i)

Counted == \A r \in Runs : CountedOf(r)
Answers == \A r \in Runs : AnswersOf(r)

\* What the log holds of the batch that entry i issued.
LogOfEntry(i) == LogOf(messages[i].of, messages[i].it)

Booked(i) ==
  /\ \A k \in LogOfEntry(i) : toolLog[k].call = Rank(LogOfEntry(i), k)
  /\ Cardinality(LogOfEntry(i)) <= messages[i].n
  /\ Answered(i) => Cardinality(LogOfEntry(i)) = messages[i].n

\* What the log holds of all batches, and of the one that is running.
LogFollows ==
  /\ \A k \in DOMAIN toolLog : \E i \in Entries("assistant") : Issued(i, k)
  /\ \A i \in Entries("assistant") : Booked(i)
  /\ \A r \in Runs : pc[r] \in Working => Cardinality(LogOf(r, it[r])) = logged[r]

Records == Counted /\ Answers /\ UnansweredOnlyByAbort /\ LogFollows

-----------------------------------------------------------------------------
(* Ranks: the number of an element among the elements of a set of numbers. *)

\* Each element of a finite set of numbers has a rank in it.
LEMMA RankBounds ==
  ASSUME NEW S \in SUBSET Nat, IsFiniteSet(S), NEW i \in S
  PROVE  Cardinality(S) \in Nat /\ Rank(S, i) \in 1..Cardinality(S)
<1> DEFINE R == {j \in S : j <= i}
<1>1. R \in SUBSET S /\ i \in R
  OBVIOUS
<1>2. IsFiniteSet(R) /\ Cardinality(R) <= Cardinality(S) /\ Cardinality(S) \in Nat
  BY <1>1, FS_Subset, FS_CardinalityType
<1>3. Cardinality(R) \in Nat /\ Cardinality(R) # 0
  <2> HIDE DEF R
  <2> QED
    BY <1>1, <1>2, FS_CardinalityType, FS_EmptySet
<1> QED
  BY <1>2, <1>3 DEF Rank

\* A number beyond all of a set is the last of it, and moves no other.
LEMMA RankGrows ==
  ASSUME NEW S \in SUBSET Nat, IsFiniteSet(S), NEW n \in Nat, \A s \in S : s < n
  PROVE  /\ IsFiniteSet(S \cup {n}) /\ Cardinality(S) \in Nat
         /\ Cardinality(S \cup {n}) = Cardinality(S) + 1
         /\ \A i \in S : Rank(S \cup {n}, i) = Rank(S, i)
         /\ Rank(S \cup {n}, n) = Cardinality(S) + 1
<1>1. n \notin S
  <2>1. ASSUME n \in S PROVE FALSE
    <3>1. n < n
      BY <2>1
    <3>2. ~(n < n)
      OBVIOUS
    <3> QED
      BY <3>1, <3>2
  <2> QED
    BY <2>1
<1>2. /\ IsFiniteSet(S \cup {n}) /\ Cardinality(S) \in Nat
      /\ Cardinality(S \cup {n}) = Cardinality(S) + 1
  BY <1>1, FS_AddElement, FS_CardinalityType
<1>3. ASSUME NEW i \in S PROVE Rank(S \cup {n}, i) = Rank(S, i)
  <2>1. i \in Nat /\ i < n
    OBVIOUS
  <2>3. ~(n <= i)
    BY <2>1
  <2>2. {j \in S \cup {n} : j <= i} = {j \in S : j <= i}
    BY <2>3
  <2> QED
    BY <2>2 DEF Rank
<1>4. {j \in S \cup {n} : j <= n} = S \cup {n}
  <2>1. \A j \in S \cup {n} : j \in Nat /\ (j < n \/ j = n)
    OBVIOUS
  <2>2. \A j \in S \cup {n} : j <= n
    BY <2>1
  <2> QED
    BY <2>2
<1> QED
  BY <1>2, <1>3, <1>4 DEF Rank

\* An interval beyond all of a set extends it, and its ranks.
LEMMA RankExtends ==
  ASSUME NEW S \in SUBSET Nat, IsFiniteSet(S), NEW b \in Nat, \A s \in S : s <= b,
         NEW m \in Nat
  PROVE  LET T == S \cup ((b + 1)..(b + m))
         IN  /\ Cardinality(T) = Cardinality(S) + m
             /\ \A i \in S : Rank(T, i) = Rank(S, i)
             /\ \A j \in 1..m : Rank(T, b + j) = Cardinality(S) + j
<1> DEFINE T == S \cup ((b + 1)..(b + m))
<1>1. ASSUME NEW j \in 0..m
      PROVE  Cardinality(S \cup ((b + 1)..(b + j))) = Cardinality(S) + j
  <2> DEFINE I == (b + 1)..(b + j)
  <2>1. IsFiniteSet(I) /\ Cardinality(I) = j
    <3>1. b + 1 \in Int /\ b + j \in Int /\ (b + 1 > b + j <=> j = 0)
          /\ (b + j) - (b + 1) + 1 = j
      OBVIOUS
    <3> QED
      BY <3>1, FS_Interval
  <2>2. S \cap I = {}
    <3>1. \A x \in S : x \in Nat /\ x <= b
      OBVIOUS
    <3>2. \A x \in I : x \in Int /\ ~(x <= b)
      OBVIOUS
    <3> QED
      BY <3>1, <3>2
  <2>3. Cardinality(S \cap I) = 0 /\ Cardinality(S) \in Nat
    BY <2>2, FS_EmptySet, FS_CardinalityType
  <2> HIDE DEF I
  <2>4. Cardinality(S \cup I) = Cardinality(S) + Cardinality(I) - Cardinality(S \cap I)
    BY <2>1, FS_Union
  <2>5. Cardinality(S \cup I) = Cardinality(S) + j
    BY <2>1, <2>3, <2>4
  <2> QED
    BY <2>5 DEF I
<1>2. ASSUME NEW i \in S PROVE {x \in T : x <= i} = {x \in S : x <= i}
  <2>1. i \in Nat /\ i <= b
    OBVIOUS
  <2>2. \A x \in (b + 1)..(b + m) : ~(x <= i)
    BY <2>1
  <2> QED
    BY <2>2
<1>3. ASSUME NEW j \in 1..m PROVE {x \in T : x <= b + j} = S \cup ((b + 1)..(b + j))
  <2>1. \A x \in S : x \in Nat /\ x <= b
    OBVIOUS
  <2>2. \A x \in S : x <= b + j
    BY <2>1
  <2>3. \A x : x \in (b + 1)..(b + j) <=> x \in (b + 1)..(b + m) /\ x <= b + j
    OBVIOUS
  <2> QED
    BY <2>2, <2>3
<1>4. m \in 0..m /\ \A j \in 1..m : j \in 0..m
  OBVIOUS
<1> QED
  BY <1>1, <1>2, <1>3, <1>4 DEF Rank

\* No two elements have the same rank.
LEMMA RankInjective ==
  ASSUME NEW S \in SUBSET Nat, IsFiniteSet(S), NEW i \in S, NEW j \in S,
         Rank(S, i) = Rank(S, j)
  PROVE  i = j
<1>1. ASSUME NEW a \in S, NEW b \in S, a < b, Rank(S, a) = Rank(S, b) PROVE FALSE
  <2> DEFINE A == {x \in S : x <= a}
             B == {x \in S : x <= b}
  <2>1. \A x \in S : x \in Nat
    OBVIOUS
  <2>6. a \in Nat /\ b \in Nat /\ a < b
    BY <1>1, <2>1
  <2>7. \A x \in Nat : x <= a => x <= b
    BY <2>6
  <2>2. A \in SUBSET B /\ B \in SUBSET S
    BY <2>1, <2>7
  <2>3. b \in B /\ b \notin A
    BY <2>6
  <2>4. Cardinality(A) = Cardinality(B)
    BY <1>1 DEF Rank
  <2> HIDE DEF A, B
  <2>5. A = B
    BY <2>2, <2>4, FS_Subset
  <2> QED
    BY <2>3, <2>5
<1>2. i < j \/ j < i \/ i = j
  <2>1. i \in Nat /\ j \in Nat
    OBVIOUS
  <2> QED
    BY <2>1
<1> QED
  BY <1>1, <1>2

\* A run's entries, and a batch's, are finitely many.
LEMMA MineFinite ==
  ASSUME messages \in Seq(Message), NEW r
  PROVE  Mine(r) \in SUBSET (1..Len(messages)) /\ Mine(r) \in SUBSET Nat
         /\ IsFiniteSet(Mine(r)) /\ Cardinality(Mine(r)) \in Nat
<1>1. Mine(r) \in SUBSET (1..Len(messages)) /\ Len(messages) \in Nat
  BY DEF Mine, Entries
<1>2. IsFiniteSet(1..Len(messages))
  BY <1>1, FS_Interval
<1>3. IsFiniteSet(Mine(r))
  BY <1>1, <1>2, FS_Subset
<1> QED
  BY <1>1, <1>3, FS_CardinalityType

\* The log entries of one reply are finitely many positions.
LEMMA LogFinite ==
  ASSUME toolLog \in Seq(LogEntry), NEW r, NEW t
  PROVE  LogOf(r, t) \in SUBSET (1..Len(toolLog)) /\ LogOf(r, t) \in SUBSET Nat
         /\ IsFiniteSet(LogOf(r, t)) /\ Cardinality(LogOf(r, t)) \in Nat
<1>1. LogOf(r, t) \in SUBSET (1..Len(toolLog)) /\ Len(toolLog) \in Nat
  BY DEF LogOf
<1>2. IsFiniteSet(1..Len(toolLog))
  BY <1>1, FS_Interval
<1>3. IsFiniteSet(LogOf(r, t))
  BY <1>1, <1>2, FS_Subset
<1> QED
  BY <1>1, <1>3, FS_CardinalityType

-----------------------------------------------------------------------------
(* The steps, as the records see them.                                     *)

\* A run stays in its stage, or gives up.
Still(s) ==
  \/ /\ how'[s] = how[s]
     /\ pc'[s] \in Before <=> pc[s] \in Before
     /\ pc'[s] \in Asking <=> pc[s] \in Asking
     /\ pc'[s] \in Working <=> pc[s] \in Working
     /\ pc'[s] \in Over <=> pc[s] \in Over
  \/ pc[s] \in Asking \cup Working /\ pc'[s] = "leaving" /\ how'[s] = "aborted"

Quiet == UNCHANGED <<messages, it>> /\ \A s \in Runs : Still(s)

\* Most steps leave the records alone.
LEMMA Moves ==
  ASSUME IInv, [Next]_vars
  PROVE  \/ Quiet /\ UNCHANGED <<toolLog, logged>>
         \/ \E r \in Runs : Quiet /\ (LogCall(r) \/ LogBatch(r))
         \/ \E r \in Runs : Begin(r) \/ KeepSteering(r) \/ AppendResults(r)
         \/ \E r \in Runs, n \in 0..MaxCalls : StreamEnds(r, n)
         \/ Reset
<1> USE DEF IInv, TypeOK, recordVars, localVars, Goto, Leave, Yield, Quiet, Still,
        Before, Asking, Working, Over
<1>1. ASSUME NEW r \in Runs,
             \/ MarkRunning(r) \/ Refuse(r) \/ MarkIdle(r)
             \/ DrainEnds(r) \/ IterationStart(r) \/ StreamFails(r) \/ BatchAborts(r)
      PROVE  Quiet /\ UNCHANGED <<toolLog, logged>>
  <2>1. CASE MarkRunning(r) \/ Refuse(r) \/ MarkIdle(r)
    BY <2>1 DEF MarkRunning, Refuse, MarkIdle
  <2>2. CASE DrainEnds(r) \/ IterationStart(r)
    BY <2>2 DEF DrainEnds, IterationStart
  <2>3. CASE StreamFails(r) \/ BatchAborts(r)
    BY <2>3 DEF StreamFails, BatchAborts
  <2> QED
    BY <1>1, <2>1, <2>2, <2>3
<1>2. ASSUME NEW r \in Runs, TakeSteering(r) \/ DiscardSteering(r) \/ BuildRequest(r)
      PROVE  Quiet /\ UNCHANGED <<toolLog, logged>>
  <2>1. CASE TakeSteering(r)
    BY <2>1 DEF TakeSteering
  <2>2. CASE DiscardSteering(r)
    BY <2>2 DEF DiscardSteering
  <2>3. CASE BuildRequest(r)
    BY <2>3 DEF BuildRequest
  <2> QED
    BY <1>2, <2>1, <2>2, <2>3
<1>3. ASSUME NEW m \in Steers, Steer(m) \/ SteerGivesUp(m)
      PROVE  Quiet /\ UNCHANGED <<toolLog, logged>>
  BY <1>3 DEF Steer, SteerGivesUp
<1>4. CASE ResetDrains \/ ResetEnds \/ UNCHANGED vars
  BY <1>4 DEF ResetDrains, ResetEnds, vars
<1>5. ASSUME NEW r \in Runs, LogCall(r) \/ LogBatch(r) PROVE Quiet
  BY <1>5 DEF LogCall, LogBatch
<1> QED
  BY <1>1, <1>2, <1>3, <1>4, <1>5 DEF Next, Step, Finished

\* What one more entry makes of the transcript.
LEMMA Grown ==
  ASSUME messages \in Seq(Message), NEW e, messages' = Append(messages, e)
  PROVE  LET n == Len(messages) + 1
         IN  /\ Len(messages) \in Nat /\ n \in Nat /\ n > 0 /\ Len(messages') = n
             /\ DOMAIN messages = 1..Len(messages)
             /\ DOMAIN messages' = DOMAIN messages \cup {n}
             /\ \A i \in DOMAIN messages :
                  messages'[i] = messages[i] /\ i \in Nat /\ i < n
             /\ messages'[n] = e
             /\ \A i \in DOMAIN messages :
                  Answered(i)' <=> IF i = Len(messages) THEN e.kind = "tool" ELSE Answered(i)
             /\ \A i \in {n} : ~Answered(i)'
             /\ Entries("assistant")' =
                  Entries("assistant") \cup (IF e.kind = "assistant" THEN {n} ELSE {})
             /\ \A r \in Runs :
                  Mine(r)' = Mine(r) \cup
                             (IF e.kind = "assistant" /\ e.of = r THEN {n} ELSE {})
<1> DEFINE n == Len(messages) + 1
<1>1. /\ Len(messages) \in Nat /\ Len(messages') = n /\ DOMAIN messages = 1..Len(messages)
      /\ DOMAIN messages' = 1..n
      /\ messages'[n] = e
      /\ \A i \in 1..Len(messages) : messages'[i] = messages[i]
  <2>1. Len(messages') = n /\ messages'[n] = e
        /\ \A i \in 1..Len(messages) : messages'[i] = messages[i]
    BY AppendShape
  <2>2. DOMAIN messages' = 1..n
    OBVIOUS
  <2> QED
    BY <2>1, <2>2
<1>2. 1..n = (1..Len(messages)) \cup {n} /\ n \in Nat /\ n > 0
  BY <1>1
<1>3. \A i \in DOMAIN messages :
        i \in Nat /\ i < n /\ (i # Len(messages) => i + 1 \in DOMAIN messages)
  BY <1>1
<1>4. ASSUME NEW i \in DOMAIN messages
      PROVE  Answered(i)' <=> IF i = Len(messages) THEN e.kind = "tool" ELSE Answered(i)
  <2>1. CASE i = Len(messages)
    BY <1>1, <1>2, <2>1 DEF Answered
  <2>2. CASE i # Len(messages)
    BY <1>1, <1>3, <2>2 DEF Answered
  <2> QED
    BY <2>1, <2>2
<1>5. \A i \in {n} : ~Answered(i)'
  BY <1>1 DEF Answered
<1> HIDE DEF n
<1>6. Entries("assistant")' =
        Entries("assistant") \cup (IF e.kind = "assistant" THEN {n} ELSE {})
  BY <1>1, <1>2 DEF Entries
<1>7. ASSUME NEW r \in Runs
      PROVE  Mine(r)' = Mine(r) \cup (IF e.kind = "assistant" /\ e.of = r THEN {n} ELSE {})
  <2>1. \A i \in Entries("assistant") : messages'[i] = messages[i]
    BY <1>1 DEF Entries
  <2> QED
    BY <1>1, <1>6, <2>1 DEF Mine
<1> QED
  BY <1>1, <1>2, <1>3, <1>4, <1>5, <1>6, <1>7 DEF n

\* The run that speaks is alone inside, and only it moves.
Alone(r) ==
  \A s \in Runs \ {r} : /\ pc'[s] = pc[s] /\ how'[s] = how[s] /\ it'[s] = it[s]
                        /\ pc[s] \in {"new", "refused", "left"}

GoesOn(r, place) ==
  \/ pc'[r] = place /\ how'[r] = how[r]
  \/ pc'[r] = "leaving" /\ how'[r] = "aborted"

\* The four ways an entry e gets into the transcript.
Opens(r, e) ==
  /\ pc[r] = "marked" /\ it'[r] = 1 /\ GoesOn(r, "boundary")
  /\ e.kind = "prompt" /\ UNCHANGED <<toolLog, logged>>

Nudges(r, e) ==
  /\ pc[r] = "inHand" /\ it'[r] = it[r] /\ GoesOn(r, "boundary")
  /\ e.kind = "steering" /\ UNCHANGED <<toolLog, logged>>

Replies(r, e) ==
  /\ pc[r] = "stream" /\ it'[r] = it[r] /\ logged'[r] = 0 /\ UNCHANGED toolLog
  /\ e.kind = "assistant" /\ e.of = r /\ e.it = it[r] /\ e.n \in Nat
  /\ \/ pc'[r] = "leaving" /\ how'[r] = "aborted"
     \/ e.n = 0 /\ pc'[r] = "leaving" /\ how'[r] = "complete"
     \/ e.n > 0 /\ pc'[r] = "tools" /\ how'[r] = how[r]

Resolves(r, e) ==
  /\ pc[r] \in Working /\ logged[r] = Batch /\ UNCHANGED <<toolLog, logged>>
  /\ e.kind = "tool"
  /\ \/ pc'[r] = "leaving" /\ how'[r] = "terminated" /\ it'[r] = it[r]
     \/ /\ pc'[r] = "leaving" /\ how'[r] = "maxIterations" /\ it'[r] = it[r]
        /\ it[r] >= MaxIterations
     \/ pc'[r] = "boundary" /\ how'[r] = how[r] /\ it'[r] = it[r] + 1

Speaks(r, e) ==
  /\ messages' = Append(messages, e) /\ Alone(r)
  /\ Opens(r, e) \/ Nudges(r, e) \/ Replies(r, e) \/ Resolves(r, e)

\* A step of a run that is inside disturbs no other run.
LEMMA RunAlone ==
  ASSUME IInv, NEW r \in Runs, Inside(r),
         \A s \in Runs \ {r} : pc'[s] = pc[s] /\ how'[s] = how[s] /\ it'[s] = it[s]
  PROVE  Alone(r)
<1>1. \A s \in Runs \ {r} : ~Inside(s)
  BY OthersOutside DEF IInv
<1> QED
  BY <1>1 DEF Alone, Inside

\* Every step that writes to the transcript, but Reset, is one of the four.
LEMMA Speech ==
  ASSUME IInv, NEW r \in Runs,
         \/ Begin(r) \/ KeepSteering(r) \/ AppendResults(r)
         \/ \E n \in 0..MaxCalls : StreamEnds(r, n)
  PROVE  \E e : Speaks(r, e)
<1> USE DEF IInv, TypeOK, recordVars, localVars, Goto, Leave, Yield, GoesOn
<1>1. CASE Begin(r)
  <2> DEFINE e == [kind |-> "prompt", of |-> r, it |-> it[r], n |-> 0]
  <2>1. messages' = Append(messages, e) /\ Opens(r, e)
    BY <1>1 DEF Begin, Say, Opens
  <2>2. Alone(r)
    BY <1>1, RunAlone DEF Begin, Inside
  <2> QED
    BY <2>1, <2>2 DEF Speaks
<1>2. CASE KeepSteering(r)
  <2> DEFINE e == [kind |-> "steering", of |-> inHand[r], it |-> it[r], n |-> 0]
  <2>1. messages' = Append(messages, e) /\ Nudges(r, e)
    BY <1>2 DEF KeepSteering, Nudges
  <2>2. Alone(r)
    BY <1>2, RunAlone DEF KeepSteering, Inside
  <2> QED
    BY <2>1, <2>2 DEF Speaks
<1>3. CASE AppendResults(r)
  <2> DEFINE e == [kind |-> "tool", of |-> r, it |-> it[r], n |-> logged[r]]
  <2>1. messages' = Append(messages, e)
    BY <1>3 DEF AppendResults, SayResults, Say
  <2>2. it[r] \in Nat /\ MaxIterations \in Nat
    BY AgentAssumption DEF AgentAssumption
  <2>3. Resolves(r, e)
    BY <1>3, <2>2 DEF AppendResults, NotLast, Resolves, Working
  <2>4. Alone(r)
    BY <1>3, RunAlone DEF AppendResults, NotLast, Inside
  <2> QED
    BY <2>1, <2>3, <2>4 DEF Speaks
<1>4. ASSUME NEW n \in 0..MaxCalls, StreamEnds(r, n) PROVE \E e : Speaks(r, e)
  <2> DEFINE e == [kind |-> "assistant", of |-> r, it |-> it[r], n |-> n]
  <2>1. messages' = Append(messages, e) /\ n \in Nat
    BY <1>4, AgentAssumption DEF StreamEnds, Say, AgentAssumption
  <2>2. Replies(r, e)
    BY <1>4, <2>1 DEF StreamEnds, Replies
  <2>3. Alone(r)
    BY <1>4, RunAlone DEF StreamEnds, Inside
  <2> QED
    BY <2>1, <2>2, <2>3 DEF Speaks
<1> QED
  BY <1>1, <1>2, <1>3, <1>4

\* Reset finds nobody inside.
LEMMA ResetAlone ==
  ASSUME IInv, Reset
  PROVE  /\ \A s \in Runs : /\ pc[s] \in {"new", "refused", "left"}
                            /\ pc'[s] = pc[s] /\ how'[s] = how[s]
         /\ messages' = <<>> /\ toolLog' = <<>>
         /\ Entries("assistant")' = {} /\ \A s \in Runs : Mine(s)' = {}
<1>1. \A s \in Runs : pc[s] \in {"new", "refused", "left"}
  BY DEF IInv, RunExclusion, Reset, MayReset, Inside
<1>2. messages' = <<>> /\ toolLog' = <<>> /\ UNCHANGED <<pc, how>>
  BY DEF Reset
<1>3. Entries("assistant")' = {}
  BY <1>2 DEF Entries
<1> QED
  BY <1>1, <1>2, <1>3 DEF Mine

-----------------------------------------------------------------------------
(* How many LLM calls, and which are answered.                             *)

\* Every step keeps the count of the replies of a run.
LEMMA CountedStep ==
  ASSUME IInv, Counted, Answers, [Next]_vars
  PROVE  Counted'
<1> USE AgentAssumption DEF AgentAssumption, Before, Asking, Working, Over
<1>0. /\ messages \in Seq(Message) /\ TypeOK
      /\ \A s \in Runs : /\ it[s] \in Nat
                         /\ Mine(s) \in SUBSET DOMAIN messages /\ Mine(s) \in SUBSET Nat
                         /\ IsFiniteSet(Mine(s)) /\ Cardinality(Mine(s)) \in Nat
  <2>1. /\ messages \in Seq(Message) /\ TypeOK
        /\ \A s \in Runs : it[s] \in Nat
    BY DEF IInv, TypeOK
  <2>2. \A s \in Runs : Mine(s) \in SUBSET DOMAIN messages
    BY DEF Mine, Entries
  <2> QED
    BY <2>1, <2>2, MineFinite
<1>1. CASE Quiet
  <2>1. ASSUME NEW s \in Runs PROVE CountedOf(s)'
    <3>1. Mine(s)' = Mine(s) /\ \A i \in Mine(s) : Rank(Mine(s), i)' = Rank(Mine(s), i)
      BY <1>1 DEF Quiet, Mine, Entries, Rank
    <3>2. CountedOf(s) /\ Still(s) /\ UNCHANGED <<messages, it>>
      BY <1>1 DEF Counted, Quiet
    <3> QED
      BY <3>1, <3>2 DEF CountedOf, Still
  <2> QED
    BY <2>1 DEF Counted
<1>2. ASSUME NEW r \in Runs, NEW e, Speaks(r, e) PROVE Counted'
  <2> DEFINE n == Len(messages) + 1
  <2>1. /\ n \in Nat
        /\ \A i \in DOMAIN messages : messages'[i] = messages[i] /\ i \in Nat /\ i < n
        /\ messages'[n] = e
        /\ \A s \in Runs : Mine(s)' = Mine(s) \cup
                             (IF e.kind = "assistant" /\ e.of = s THEN {n} ELSE {})
    BY <1>0, <1>2, Grown DEF Speaks
  <2> HIDE DEF n
  <2>2. ASSUME NEW s \in Runs, Mine(s)' = Mine(s)
        PROVE  \A i \in Mine(s)' : messages'[i].it = Rank(Mine(s)', i)
    <3>1. \A i \in Mine(s) : messages[i].it = Rank(Mine(s), i)
      BY DEF Counted, CountedOf
    <3> QED
      BY <1>0, <2>1, <2>2, <3>1
  <2>3. ASSUME NEW s \in Runs \ {r} PROVE CountedOf(s)'
    <3>1. Mine(s)' = Mine(s)
      BY <1>2, <2>1 DEF Speaks, Opens, Nudges, Replies, Resolves
    <3>2. pc'[s] = pc[s] /\ how'[s] = how[s] /\ pc[s] \in {"new", "refused", "left"}
      BY <1>2 DEF Speaks, Alone
    <3> QED
      BY <2>2, <3>1, <3>2 DEF Counted, CountedOf, Rank
  <2>4. CASE Opens(r, e) \/ Nudges(r, e) \/ Resolves(r, e)
    <3>1. Mine(r)' = Mine(r)
      BY <2>1, <2>4 DEF Opens, Nudges, Resolves
    <3>2. \A i \in Mine(r)' : messages'[i].it = Rank(Mine(r), i)'
      BY <2>2, <3>1 DEF Rank
    <3>3. CountedOf(r) /\ (pc[r] \notin Over => how[r] = "none")
      BY DEF Counted, Answers, AnswersOf
    <3>4. Cardinality(Mine(r))' = Cardinality(Mine(r)) /\ how[r] = "none"
      BY <2>4, <3>1, <3>3 DEF Opens, Nudges, Resolves
    <3>5. ASSUME Opens(r, e) PROVE CountedOf(r)'
      <4>1. /\ Cardinality(Mine(r)) = 0 /\ it'[r] = 1
            /\ pc'[r] \in {"boundary", "leaving"} /\ how'[r] \in {"none", "aborted"}
        BY <3>3, <3>4, <3>5, FS_EmptySet DEF CountedOf, Opens, GoesOn
      <4> QED
        BY <3>2, <3>4, <4>1 DEF CountedOf
    <3>6. ASSUME Nudges(r, e) PROVE CountedOf(r)'
      <4>1. /\ Cardinality(Mine(r)) = it[r] - 1 /\ it'[r] = it[r]
            /\ Cardinality(Mine(r)) <= MaxIterations
            /\ pc'[r] \in {"boundary", "leaving"} /\ how'[r] \in {"none", "aborted"}
        BY <3>3, <3>4, <3>6 DEF CountedOf, Nudges, GoesOn
      <4> QED
        BY <3>2, <3>4, <4>1 DEF CountedOf
    <3>7. ASSUME Resolves(r, e) PROVE CountedOf(r)'
      <4>1. /\ Cardinality(Mine(r)) = it[r] /\ Cardinality(Mine(r)) <= MaxIterations
            /\ it[r] \in Nat
        BY <1>0, <3>3, <3>7 DEF CountedOf, Resolves
      <4>2. \/ pc'[r] = "leaving" /\ how'[r] = "terminated"
            \/ pc'[r] = "leaving" /\ Cardinality(Mine(r)) = MaxIterations
            \/ pc'[r] = "boundary" /\ how'[r] = "none" /\ it'[r] = it[r] + 1
        BY <3>4, <3>7, <4>1 DEF Resolves
      <4>3. it'[r] = it[r] + 1 => it'[r] - 1 = it[r]
        BY <4>1
      <4> QED
        BY <3>2, <3>4, <4>1, <4>2, <4>3 DEF CountedOf
    <3> QED
      BY <2>3, <2>4, <3>5, <3>6, <3>7 DEF Counted
  <2>5. CASE Replies(r, e)
    <3>1. Mine(r)' = Mine(r) \cup {n} /\ \A i \in Mine(r) : i < n
      BY <1>0, <2>1, <2>5 DEF Replies
    <3>2. /\ Cardinality(Mine(r)') = Cardinality(Mine(r)) + 1
          /\ \A i \in Mine(r) : Rank(Mine(r)', i) = Rank(Mine(r), i)
          /\ Rank(Mine(r)', n) = Cardinality(Mine(r)) + 1
      <4>1. /\ Mine(r) \in SUBSET Nat /\ IsFiniteSet(Mine(r)) /\ n \in Nat
            /\ \A i \in Mine(r) : i < n
        BY <1>0, <2>1, <3>1
      <4>2. /\ Cardinality(Mine(r) \cup {n}) = Cardinality(Mine(r)) + 1
            /\ \A i \in Mine(r) : Rank(Mine(r) \cup {n}, i) = Rank(Mine(r), i)
            /\ Rank(Mine(r) \cup {n}, n) = Cardinality(Mine(r)) + 1
        BY <4>1, RankGrows
      <4> QED
        BY <3>1, <4>2
    <3>3. /\ Cardinality(Mine(r)) = it[r] - 1 /\ it[r] \in 1..MaxIterations
          /\ \A i \in Mine(r) : messages[i].it = Rank(Mine(r), i)
      BY <2>5 DEF Counted, CountedOf, Replies, IInv, RunState, Inside
    <3>4. \A i \in Mine(r)' : messages'[i].it = Rank(Mine(r), i)'
      <4>1. \A i \in Mine(r) : messages'[i].it = Rank(Mine(r)', i)
        BY <1>0, <2>1, <3>2, <3>3
      <4>2. messages'[n].it = Rank(Mine(r)', n)
        BY <1>0, <2>1, <2>5, <3>2, <3>3 DEF Replies
      <4> QED
        BY <3>1, <4>1, <4>2 DEF Rank
    <3>5. Cardinality(Mine(r)') = it[r] /\ it'[r] = it[r]
      BY <1>0, <2>5, <3>2, <3>3 DEF Replies
    <3>6. how'[r] # "maxIterations"
      <4>1. how[r] = "none"
        BY <2>5 DEF Replies, Answers, AnswersOf
      <4> QED
        BY <2>5, <4>1 DEF Replies
    <3>7. CountedOf(r)'
      BY <2>5, <3>3, <3>4, <3>5, <3>6 DEF CountedOf, Replies
    <3> QED
      BY <2>3, <3>7 DEF Counted
  <2> QED
    BY <1>2, <2>4, <2>5 DEF Speaks
<1>3. CASE Reset
  <2>1. \A s \in Runs : pc[s] \in {"new", "refused", "left"} /\ pc'[s] = pc[s]
                        /\ Mine(s)' = {}
    BY <1>3, ResetAlone DEF IInv
  <2>2. Cardinality({}) = 0
    BY FS_EmptySet
  <2>3. ASSUME NEW s \in Runs PROVE CountedOf(s)'
    BY <2>1, <2>2, <2>3 DEF CountedOf
  <2> QED
    BY <2>3 DEF Counted
<1> QED
  BY <1>1, <1>2, <1>3, Moves, Speech

\* Once answered, an entry stays so, and a tool message answers the last one.
LEMMA StaysAnswered ==
  ASSUME messages \in Seq(Message), NEW e, messages' = Append(messages, e),
         NEW i \in DOMAIN messages
  PROVE  /\ Answered(i) => Answered(i)'
         /\ i = Len(messages) /\ e.kind = "tool" => Answered(i)'
<1>1. Answered(i) => i # Len(messages)
  <2>1. Len(messages) \in Nat
    OBVIOUS
  <2> QED
    BY <2>1 DEF Answered
<1> QED
  BY <1>1, Grown

\* Every step keeps what is known of the answers to a run's replies.
LEMMA AnswersStep ==
  ASSUME IInv, Counted, Answers, [Next]_vars
  PROVE  Answers'
<1> USE DEF Before, Asking, Working, Over
<1>0. /\ messages \in Seq(Message)
      /\ \A s \in Runs : Mine(s) \in SUBSET DOMAIN messages
  BY MineFinite DEF IInv, TypeOK
<1>1. CASE Quiet
  <2>1. ASSUME NEW s \in Runs PROVE AnswersOf(s)'
    <3>1. /\ Mine(s)' = Mine(s) /\ \A i \in Mine(s) : Answered(i)' <=> Answered(i)
          /\ UNCHANGED messages
      BY <1>1 DEF Quiet, Mine, Entries, Answered
    <3>2. AnswersOf(s) /\ Still(s)
      BY <1>1 DEF Answers, Quiet
    <3> QED
      BY <3>1, <3>2 DEF AnswersOf, Still
  <2> QED
    BY <2>1 DEF Answers
<1>2. ASSUME NEW r \in Runs, NEW e, Speaks(r, e) PROVE Answers'
  <2> DEFINE n == Len(messages) + 1
  <2>1. /\ n > 0 /\ Len(messages') = n /\ messages'[n] = e
        /\ \A s \in Runs : Mine(s)' = Mine(s) \cup
                             (IF e.kind = "assistant" /\ e.of = s THEN {n} ELSE {})
    BY <1>0, <1>2, Grown DEF Speaks
  <2>2. \A i \in DOMAIN messages :
          /\ Answered(i) => Answered(i)'
          /\ i = Len(messages) /\ e.kind = "tool" => Answered(i)'
    BY <1>0, <1>2, StaysAnswered DEF Speaks
  <2> HIDE DEF n
  <2>3. ASSUME NEW s \in Runs \ {r} PROVE AnswersOf(s)'
    <3>1. Mine(s)' = Mine(s)
      BY <1>2, <2>1 DEF Speaks, Opens, Nudges, Replies, Resolves
    <3>2. pc'[s] = pc[s] /\ how'[s] = how[s] /\ pc[s] \in {"new", "refused", "left"}
      BY <1>2 DEF Speaks, Alone
    <3>3. how[s] = "maxIterations" => \A i \in Mine(s) : Answered(i)'
      BY <1>0, <2>2 DEF Answers, AnswersOf
    <3> QED
      BY <3>1, <3>2, <3>3 DEF Answers, AnswersOf
  <2>4. AnswersOf(r) /\ CountedOf(r)
    BY DEF Answers, Counted
  <2>5. ASSUME Opens(r, e) PROVE AnswersOf(r)'
    <3>1. Mine(r)' = {}
      BY <2>1, <2>4, <2>5 DEF Opens, CountedOf
    <3> QED
      BY <2>1, <2>4, <2>5, <3>1 DEF Opens, GoesOn, AnswersOf
  <2>6. ASSUME Nudges(r, e) PROVE AnswersOf(r)'
    <3>1. Mine(r)' = Mine(r) /\ \A i \in Mine(r) : Answered(i)'
      BY <1>0, <2>1, <2>2, <2>4, <2>6 DEF Nudges, AnswersOf
    <3> QED
      BY <2>1, <2>4, <2>6, <3>1 DEF Nudges, GoesOn, AnswersOf
  <2>7. ASSUME Replies(r, e) PROVE AnswersOf(r)'
    <3>1. Mine(r)' = Mine(r) \cup {n} /\ \A i \in Mine(r) : Answered(i)'
      BY <1>0, <2>1, <2>2, <2>4, <2>7 DEF Replies, AnswersOf
    <3>2. how[r] = "none"
      BY <2>4, <2>7 DEF Replies, AnswersOf
    <3> QED
      BY <2>1, <2>7, <3>1, <3>2 DEF Replies, AnswersOf
  <2>8. ASSUME Resolves(r, e) PROVE AnswersOf(r)'
    <3>1. Mine(r)' = Mine(r) /\ \A i \in Mine(r) : Answered(i)'
      BY <1>0, <2>1, <2>2, <2>4, <2>8 DEF Resolves, AnswersOf
    <3>2. how[r] = "none" /\ messages'[n].kind = "tool"
      BY <2>1, <2>4, <2>8 DEF Resolves, AnswersOf
    <3> QED
      BY <2>1, <2>8, <3>1, <3>2 DEF Resolves, AnswersOf
  <2> QED
    BY <1>2, <2>3, <2>5, <2>6, <2>7, <2>8 DEF Speaks, Answers
<1>3. CASE Reset
  BY <1>3, ResetAlone DEF Answers, AnswersOf
<1> QED
  BY <1>1, <1>2, <1>3, Moves, Speech

\* A run that gave up says no more, so what it left unanswered stays last, or is
\* followed by another run's prompt.
LEMMA UnansweredStep ==
  ASSUME IInv, Answers, UnansweredOnlyByAbort, [Next]_vars
  PROVE  UnansweredOnlyByAbort'
<1> USE DEF Before, Asking, Working, Over
<1> DEFINE Excused(i) ==
      /\ i = Len(messages) \/ messages[i + 1].kind = "prompt"
      /\ LET r == messages[i].of
         IN  \/ how[r] = "aborted"
             \/ i = Len(messages) /\ pc[r] \in {"tools", "results"}
<1>0. /\ messages \in Seq(Message)
      /\ \A i \in Entries("assistant") : i \in DOMAIN messages /\ messages[i].of \in Runs
      /\ \A i \in Entries("assistant") : messages[i].n > 0 => Answered(i) \/ Excused(i)
      /\ \A s \in Runs : how[s] # "none" => pc[s] \in Over
  BY DEF IInv, TypeOK, Entries, Message, UnansweredOnlyByAbort, Answers, AnswersOf
<1>1. CASE Quiet
  <2>1. Entries("assistant")' = Entries("assistant") /\ UNCHANGED messages
        /\ \A i : Answered(i)' <=> Answered(i)
    BY <1>1 DEF Quiet, Entries, Answered
  <2>2. \A i \in Entries("assistant") : Excused(i) => Excused(i)'
    BY <1>0, <1>1 DEF Quiet, Still
  <2> QED
    BY <1>0, <2>1, <2>2 DEF UnansweredOnlyByAbort
<1>2. ASSUME NEW r \in Runs, NEW e, Speaks(r, e) PROVE UnansweredOnlyByAbort'
  <2> DEFINE n == Len(messages) + 1
  <2>1. /\ n > 0 /\ Len(messages') = n /\ messages'[n] = e /\ Len(messages) \in Nat
        /\ Entries("assistant")' =
             Entries("assistant") \cup (IF e.kind = "assistant" THEN {n} ELSE {})
        /\ \A i \in DOMAIN messages : /\ messages'[i] = messages[i]
                                      /\ i \in Nat /\ i < n
                                      /\ i # Len(messages) => i + 1 \in DOMAIN messages
    BY <1>0, <1>2, Grown DEF Speaks
  <2>2. \A i \in DOMAIN messages :
          /\ Answered(i) => Answered(i)'
          /\ i = Len(messages) /\ e.kind = "tool" => Answered(i)'
    BY <1>0, <1>2, StaysAnswered DEF Speaks
  <2>3. ASSUME NEW i \in Entries("assistant"), Excused(i), i # Len(messages)
        PROVE  Excused(i)'
    <3>1. messages[i + 1].kind = "prompt" /\ how[messages[i].of] = "aborted"
      BY <2>3
    <3>2. messages'[i] = messages[i] /\ messages'[i + 1].kind = "prompt"
      BY <1>0, <2>1, <2>3, <3>1
    <3>3. how'[messages[i].of] = "aborted"
      BY <1>0, <1>2, <3>1 DEF Speaks, Alone, Opens, Nudges, Replies, Resolves
    <3> QED
      BY <3>2, <3>3
  <2>4. ASSUME NEW i \in Entries("assistant"), Excused(i), i = Len(messages),
               e.kind # "tool"
        PROVE  Excused(i)'
    <3>1. Opens(r, e)
      BY <1>0, <1>2, <2>4 DEF Speaks, Nudges, Replies, Resolves, Entries, Answers, AnswersOf
    <3>2. messages'[i] = messages[i] /\ messages'[i + 1].kind = "prompt"
      BY <1>0, <2>1, <2>4, <3>1 DEF Opens
    <3>3. how'[messages[i].of] = "aborted"
      BY <1>0, <1>2, <2>4, <3>1 DEF Speaks, Alone, Opens
    <3> QED
      BY <3>2, <3>3
  <2>5. ASSUME Replies(r, e), e.n > 0, NEW i, i = n PROVE Excused(i)'
    <3>1. how'[r] = "aborted" \/ pc'[r] = "tools"
      BY <2>5 DEF Replies
    <3> QED
      BY <2>1, <2>5, <3>1 DEF Replies
  <2>6. ASSUME NEW i \in Entries("assistant"), messages[i].n > 0
        PROVE  Answered(i)' \/ Excused(i)'
    BY <1>0, <2>2, <2>3, <2>4, <2>6
  <2>7. e.kind = "assistant" => Replies(r, e)
    BY <1>2 DEF Speaks, Opens, Nudges, Replies, Resolves
  <2>8. ASSUME NEW i \in Entries("assistant")', messages'[i].n > 0
        PROVE  Answered(i)' \/ Excused(i)'
    <3>1. i \in Entries("assistant") \/ (i = n /\ e.kind = "assistant")
      BY <2>1, <2>8
    <3>2. i \in Entries("assistant") => messages[i].n > 0
      BY <1>0, <2>1, <2>8
    <3> HIDE DEF n, Excused
    <3> QED
      BY <2>1, <2>5, <2>6, <2>7, <2>8, <3>1, <3>2
  <2> QED
    BY <2>8 DEF UnansweredOnlyByAbort
<1>3. CASE Reset
  BY <1>3, ResetAlone DEF UnansweredOnlyByAbort
<1> QED
  BY <1>1, <1>2, <1>3, Moves, Speech

-----------------------------------------------------------------------------
(* The log and the transcript.                                             *)

\* Run and iteration tell the assistant's messages apart.
LEMMA OneEntry ==
  ASSUME IInv, Counted, NEW i \in Entries("assistant"), NEW j \in Entries("assistant"),
         messages[i].of = messages[j].of, messages[i].it = messages[j].it
  PROVE  i = j
<1>1. messages[i].of \in Runs
  BY DEF IInv, TypeOK, Entries, Message
<1> DEFINE r == messages[i].of
<1>2. i \in Mine(r) /\ j \in Mine(r)
  BY DEF Mine
<1>3. Mine(r) \in SUBSET Nat /\ IsFiniteSet(Mine(r))
  BY MineFinite DEF IInv, TypeOK
<1>4. Rank(Mine(r), i) = Rank(Mine(r), j)
  BY <1>1, <1>2 DEF Counted, CountedOf
<1> HIDE DEF r
<1> QED
  BY <1>2, <1>3, <1>4, RankInjective

\* A reply opens a batch of which the log holds nothing.
LEMMA FreshLog ==
  ASSUME IInv, Counted, LogFollows, NEW r \in Runs, pc[r] = "stream"
  PROVE  LogOf(r, it[r]) = {}
<1>1. /\ Mine(r) \in SUBSET Nat /\ IsFiniteSet(Mine(r)) /\ it[r] \in Nat
      /\ Cardinality(Mine(r)) = it[r] - 1
      /\ \A i \in Mine(r) : messages[i].it = Rank(Mine(r), i)
  <2>1. /\ messages \in Seq(Message) /\ it[r] \in Nat
    BY AgentAssumption DEF AgentAssumption, IInv, TypeOK
  <2>2. /\ Cardinality(Mine(r)) = it[r] - 1
        /\ \A i \in Mine(r) : messages[i].it = Rank(Mine(r), i)
    BY DEF Counted, CountedOf, Asking
  <2> QED
    BY <2>1, <2>2, MineFinite
<1>2. ASSUME NEW k \in LogOf(r, it[r]) PROVE FALSE
  <2>1. PICK i \in Entries("assistant") : Issued(i, k)
    BY <1>2 DEF LogFollows, LogOf
  <2>2. i \in Mine(r) /\ messages[i].it = it[r]
    BY <1>2, <2>1 DEF LogOf, Issued, Mine
  <2>3. Rank(Mine(r), i) \in 1..Cardinality(Mine(r))
    BY <1>1, <2>2, RankBounds
  <2> QED
    BY <1>1, <2>2, <2>3
<1> QED
  BY <1>2

\* Both ways of execution add the next m calls of the running batch to the log.
Logs(r, m) ==
  LET L == Len(toolLog)
  IN  /\ pc[r] \in Working /\ OpenBatch(r) /\ logged[r] + m <= Batch
      /\ logged' = [logged EXCEPT ![r] = logged[r] + m]
      /\ DOMAIN toolLog' = DOMAIN toolLog \cup ((L + 1)..(L + m))
      /\ \A k \in DOMAIN toolLog : toolLog'[k] = toolLog[k]
      /\ \A j \in 1..m :
           toolLog'[L + j] = [of |-> r, it |-> it[r], call |-> logged[r] + j]

\* The two actions that log extend the log by entries of the open batch.
LEMMA LogsSome ==
  ASSUME IInv, NEW r \in Runs, LogCall(r) \/ LogBatch(r)
  PROVE  \E m \in Nat : Logs(r, m)
<1> DEFINE L == Len(toolLog)
<1>1. /\ toolLog \in Seq(LogEntry) /\ L \in Nat /\ DOMAIN toolLog = 1..L
      /\ logged[r] \in Nat /\ Batch \in Nat /\ OpenBatch(r) /\ pc[r] \in Working
  <2>1. pc[r] \in Working /\ OpenBatch(r)
    BY DEF LogCall, LogBatch, Working, IInv, RunState
  <2>2. Batch \in Nat
    BY <2>1, BatchType, AgentAssumption DEF AgentAssumption, IInv, Working
  <2> QED
    BY <2>1, <2>2, AgentAssumption DEF AgentAssumption, IInv, TypeOK
<1>2. CASE LogCall(r)
  <2>1. toolLog' = Append(toolLog, Entry(r, logged[r] + 1))
    BY <1>2 DEF LogCall
  <2>2. /\ DOMAIN toolLog' = 1..(L + 1)
        /\ \A k \in 1..L : toolLog'[k] = toolLog[k]
        /\ toolLog'[L + 1] = Entry(r, logged[r] + 1)
    BY <1>1, <2>1
  <2>3. 1..(L + 1) = (1..L) \cup ((L + 1)..(L + 1)) /\ \A j \in 1..1 : j = 1
    BY <1>1
  <2>4. logged[r] + 1 <= Batch /\ logged' = [logged EXCEPT ![r] = logged[r] + 1]
    BY <1>1, <1>2 DEF LogCall
  <2>5. Logs(r, 1)
    BY <1>1, <2>2, <2>3, <2>4 DEF Logs, Entry
  <2> QED
    BY <2>5
<1>3. CASE LogBatch(r)
  <2> DEFINE m == Batch
  <2>1. toolLog' = toolLog \o SourceOrder(r) /\ logged[r] = 0
        /\ logged' = [logged EXCEPT ![r] = m]
    BY <1>3 DEF LogBatch
  <2>2. SourceOrder(r) \in Seq(LogEntry) /\ Len(SourceOrder(r)) = m
        /\ \A j \in 1..m : SourceOrder(r)[j] = Entry(r, j)
    <3>1. m \in 1..MaxCalls /\ it[r] \in 1..MaxIterations
      BY <1>1, BatchType DEF IInv, Working
    <3>2. \A c \in 1..m : Entry(r, c) \in LogEntry
      BY <3>1, AgentAssumption DEF AgentAssumption, Entry, LogEntry
    <3> HIDE DEF m
    <3>3. m = Batch /\ m \in Nat
      BY <1>1 DEF m
    <3> QED
      BY <3>2, <3>3 DEF SourceOrder
  <2> HIDE DEF m
  <2>3. m \in Nat /\ m <= Batch
    BY <1>1 DEF m
  <2>4. /\ DOMAIN toolLog' = 1..(L + m)
        /\ \A k \in 1..L : toolLog'[k] = toolLog[k]
        /\ \A j \in 1..m : toolLog'[L + j] = Entry(r, j)
    <3> DEFINE t == SourceOrder(r)
    <3>1. /\ t \in Seq(LogEntry) /\ Len(t) = m /\ toolLog' = toolLog \o t
      BY <2>1, <2>2
    <3> HIDE DEF t
    <3>2. /\ DOMAIN toolLog' = 1..(L + m)
          /\ \A k \in 1..L : toolLog'[k] = toolLog[k]
          /\ \A j \in 1..m : toolLog'[L + j] = t[j]
      BY <1>1, <3>1
    <3> QED
      BY <2>2, <3>2 DEF t
  <2>5. 1..(L + m) = (1..L) \cup ((L + 1)..(L + m))
    BY <1>1, <2>3
  <2>6. logged[r] + m = m /\ \A j \in 1..m : logged[r] + j = j
    BY <2>1, <2>3
  <2>7. Logs(r, m)
    BY <1>1, <2>1, <2>3, <2>4, <2>5, <2>6 DEF Logs, Entry
  <2> QED
    BY <2>3, <2>7
<1> QED
  BY <1>2, <1>3

\* What the log holds of a batch, after more of the running one is in it.
LEMMA LogOfGrows ==
  ASSUME toolLog \in Seq(LogEntry), NEW r \in Runs, NEW m \in Nat, Logs(r, m),
         NEW s, NEW t
  PROVE  LET L == Len(toolLog)
         IN  LogOf(s, t)' = LogOf(s, t) \cup
               (IF s = r /\ t = it[r] THEN (L + 1)..(L + m) ELSE {})
<1> DEFINE L == Len(toolLog)
<1>1. \A k \in (L + 1)..(L + m) : toolLog'[k].of = r /\ toolLog'[k].it = it[r]
  <2>1. \A k \in (L + 1)..(L + m) : \E j \in 1..m : k = L + j
    <3>1. L \in Nat
      OBVIOUS
    <3>2. ASSUME NEW k \in (L + 1)..(L + m) PROVE k - L \in 1..m /\ k = L + (k - L)
      BY <3>1
    <3> QED
      BY <3>2
  <2>2. \A j \in 1..m : toolLog'[L + j].of = r /\ toolLog'[L + j].it = it[r]
    <3>1. \A j \in 1..m :
            toolLog'[L + j] = [of |-> r, it |-> it[r], call |-> logged[r] + j]
      BY DEF Logs
    <3> HIDE DEF L
    <3>2. ASSUME NEW j \in 1..m PROVE toolLog'[L + j].of = r /\ toolLog'[L + j].it = it[r]
      <4>1. toolLog'[L + j] = [of |-> r, it |-> it[r], call |-> logged[r] + j]
        BY <3>1
      <4> QED
        BY <4>1
    <3> QED
      BY <3>2
  <2> HIDE DEF L
  <2> QED
    BY <2>1, <2>2
<1>2. /\ DOMAIN toolLog' = DOMAIN toolLog \cup ((L + 1)..(L + m))
      /\ \A k \in DOMAIN toolLog : toolLog'[k] = toolLog[k]
  BY DEF Logs
<1> HIDE DEF L
<1>3. ASSUME NEW u, u = s, NEW v, v = t
      PROVE  LogOf(u, v)' = LogOf(u, v) \cup
               (IF u = r /\ v = it[r] THEN (L + 1)..(L + m) ELSE {})
  BY <1>1, <1>2 DEF LogOf
<1> QED
  BY <1>3 DEF L

\* The log keeps following the transcript while a batch runs.
LEMMA LogsStep ==
  ASSUME IInv, Counted, LogFollows, Quiet, NEW r \in Runs, LogCall(r) \/ LogBatch(r)
  PROVE  LogFollows'
<1> USE DEF Working
<1> DEFINE L == Len(toolLog)
           last == Len(messages)
<1>1. PICK m \in Nat : Logs(r, m)
  BY LogsSome
<1>2. /\ toolLog \in Seq(LogEntry) /\ L \in Nat /\ DOMAIN toolLog = 1..L
      /\ messages \in Seq(Message) /\ last \in DOMAIN messages
      /\ logged \in [Runs -> Nat] /\ UNCHANGED <<messages, it>>
      /\ OpenBatch(r) /\ pc[r] \in Working
  BY <1>1, AgentAssumption
  DEF AgentAssumption, IInv, TypeOK, Logs, OpenBatch, Quiet
<1>3. /\ last \in Entries("assistant") /\ messages[last].of = r /\ messages[last].it = it[r]
      /\ messages[last].n = Batch /\ ~Answered(last)
  <2>1. ~(last < last)
    BY <1>2
  <2> QED
    BY <1>2, <2>1 DEF OpenBatch, Batch, Entries, Answered
<1>4. Entries("assistant")' = Entries("assistant") /\ \A i : Answered(i)' <=> Answered(i)
  BY <1>2 DEF Entries, Answered
<1> DEFINE S == LogOf(r, it[r])
           T == S \cup ((L + 1)..(L + m))
<1>5. /\ S \in SUBSET (1..L) /\ S \in SUBSET Nat /\ IsFiniteSet(S)
      /\ Cardinality(S) = logged[r]
      /\ \A k \in S : k <= L
  <2>1. S \in SUBSET (1..L) /\ S \in SUBSET Nat /\ IsFiniteSet(S)
    BY <1>2, LogFinite
  <2>2. Cardinality(S) = logged[r]
    BY <1>2 DEF LogFollows
  <2>3. \A k \in 1..L : k <= L
    BY <1>2
  <2> QED
    BY <2>1, <2>2, <2>3
<1>6. /\ Cardinality(T) = logged[r] + m
      /\ \A k \in S : Rank(T, k) = Rank(S, k)
      /\ \A j \in 1..m : Rank(T, L + j) = logged[r] + j
  <2> HIDE DEF S, L
  <2>1. /\ L \in Nat /\ m \in Nat /\ S \in SUBSET Nat /\ IsFiniteSet(S)
        /\ \A k \in S : k <= L
    BY <1>1, <1>2, <1>5
  <2>2. /\ Cardinality(T) = Cardinality(S) + m
        /\ \A k \in S : Rank(T, k) = Rank(S, k)
        /\ \A j \in 1..m : Rank(T, L + j) = Cardinality(S) + j
    BY <2>1, RankExtends
  <2> QED
    BY <1>5, <2>2
<1>7. \A s, t : LogOf(s, t)' = LogOf(s, t) \cup
                  (IF s = r /\ t = it[r] THEN (L + 1)..(L + m) ELSE {})
  BY <1>1, <1>2, LogOfGrows
<1>8. \A k \in (L + 1)..(L + m) : \E j \in 1..m : k = L + j
  <2>1. ASSUME NEW k \in (L + 1)..(L + m) PROVE k - L \in 1..m /\ k = L + (k - L)
    BY <1>2
  <2> QED
    BY <2>1
<1>9. /\ DOMAIN toolLog' = DOMAIN toolLog \cup ((L + 1)..(L + m))
      /\ \A k \in DOMAIN toolLog : toolLog'[k] = toolLog[k]
      /\ \A j \in 1..m :
           toolLog'[L + j] = [of |-> r, it |-> it[r], call |-> logged[r] + j]
      /\ logged'[r] = logged[r] + m /\ logged[r] + m <= Batch
      /\ \A s \in Runs \ {r} : logged'[s] = logged[s]
  BY <1>1, <1>2 DEF Logs
<1> HIDE DEF L, last, S, T
<1>10. ASSUME NEW k \in DOMAIN toolLog' PROVE \E i \in Entries("assistant")' : Issued(i, k)'
  <2>1. CASE k \in DOMAIN toolLog
    BY <1>2, <1>4, <1>9, <2>1 DEF LogFollows, Issued
  <2>2. CASE k \in (L + 1)..(L + m)
    <3>1. toolLog'[k].of = r /\ toolLog'[k].it = it[r]
      <4>1. PICK j \in 1..m : k = L + j
        BY <1>8, <2>2
      <4>2. toolLog'[k] = [of |-> r, it |-> it[r], call |-> logged[r] + j]
        BY <1>9, <4>1
      <4> QED
        BY <4>2
    <3>2. \A i : i = last => Issued(i, k)'
      BY <1>2, <1>3, <3>1 DEF Issued
    <3> QED
      BY <1>3, <1>4, <3>2
  <2> QED
    BY <1>9, <2>1, <2>2
<1>11. ASSUME NEW i \in Entries("assistant"), i # last PROVE Booked(i)'
  <2>1. ~(messages[i].of = r /\ messages[i].it = it[r])
    BY <1>3, <1>11, OneEntry
  <2>2. LogOfEntry(i)' = LogOfEntry(i)
    <3>1. ASSUME NEW s, s = messages[i].of, NEW t, t = messages[i].it
          PROVE  LogOf(s, t)' = LogOf(s, t)
      BY <1>7, <2>1, <3>1
    <3>2. UNCHANGED <<messages[i].of, messages[i].it>>
      BY <1>2
    <3> QED
      BY <3>1, <3>2 DEF LogOfEntry, LogOf
  <2>3. LogOfEntry(i) \in SUBSET DOMAIN toolLog
    BY DEF LogOfEntry, LogOf
  <2>4. Booked(i)
    BY DEF LogFollows
  <2> QED
    BY <1>2, <1>4, <1>9, <2>2, <2>3, <2>4 DEF Booked, Rank
<1>12. ASSUME NEW i \in Entries("assistant"), i = last PROVE Booked(i)'
  <2>1. LogOfEntry(i)' = T
    <3>1. ASSUME NEW s, s = messages[i].of, NEW t, t = messages[i].it
          PROVE  LogOf(s, t)' = T
      BY <1>3, <1>7, <1>12, <3>1 DEF T, S
    <3>2. UNCHANGED <<messages[i].of, messages[i].it>>
      BY <1>2
    <3>3. LogOfEntry(i)' = LogOf(messages[i].of, messages[i].it)'
      BY DEF LogOfEntry
    <3> QED
      BY <3>1, <3>2, <3>3 DEF LogOf
  <2>2. LogOfEntry(i) = S /\ Booked(i)
    BY <1>3, <1>12 DEF LogOfEntry, S, LogFollows
  <2>3. ASSUME NEW k \in T PROVE toolLog'[k].call = Rank(T, k)
    <3>1. CASE k \in S
      <4>1. k \in DOMAIN toolLog /\ toolLog[k].call = Rank(S, k)
        BY <2>2, <3>1 DEF Booked, S, LogOf
      <4> QED
        BY <1>6, <1>9, <3>1, <4>1
    <3>2. CASE k \in (L + 1)..(L + m)
      <4>1. PICK j \in 1..m : k = L + j
        BY <1>8, <3>2
      <4>2. toolLog'[k] = [of |-> r, it |-> it[r], call |-> logged[r] + j]
        BY <1>9, <4>1
      <4>3. Rank(T, k) = logged[r] + j
        BY <1>6, <4>1
      <4> QED
        BY <4>2, <4>3
    <3> QED
      BY <2>3, <3>1, <3>2 DEF T
  <2>4. Cardinality(T) <= messages[i].n /\ ~Answered(i)' /\ UNCHANGED messages
    BY <1>2, <1>3, <1>4, <1>6, <1>9, <1>12
  <2>5. \A U : U = LogOfEntry(i)' => /\ \A k \in U : toolLog'[k].call = Rank(U, k)
                                     /\ Cardinality(U) <= messages'[i].n
    BY <2>1, <2>3, <2>4
  <2> QED
    BY <2>4, <2>5 DEF Booked, Rank
<1>13. ASSUME NEW s \in Runs, pc'[s] \in Working
       PROVE  Cardinality(LogOf(s, it[s]))' = logged'[s]
  <2>1. s = r
    <3>1. pc[s] \in Working
      BY <1>13 DEF Quiet, Still
    <3> QED
      BY <1>2, <3>1 DEF IInv, RunExclusion, Inside
  <2>2. ASSUME NEW t, t = it[r] PROVE LogOf(s, t)' = T
    BY <1>7, <2>1, <2>2 DEF T, S
  <2>3. LogOf(s, it[s])' = T
    BY <1>2, <2>1, <2>2 DEF LogOf
  <2> QED
    BY <1>6, <1>9, <2>1, <2>3
<1> QED
  BY <1>4, <1>10, <1>11, <1>12, <1>13 DEF LogFollows

\* It keeps following it while the transcript grows.
LEMMA SpeechLogged ==
  ASSUME IInv, Counted, LogFollows, NEW r \in Runs, NEW e, Speaks(r, e)
  PROVE  LogFollows'
<1> USE DEF Working
<1> DEFINE n == Len(messages) + 1
<1>1. /\ messages \in Seq(Message) /\ messages' = Append(messages, e)
      /\ UNCHANGED toolLog
  BY DEF Speaks, Opens, Nudges, Replies, Resolves, IInv, TypeOK
<1>2. /\ messages'[n] = e /\ Len(messages) \in Nat
      /\ \A i \in DOMAIN messages : messages'[i] = messages[i]
      /\ \A i \in DOMAIN messages :
           Answered(i)' <=> IF i = Len(messages) THEN e.kind = "tool" ELSE Answered(i)
      /\ \A i \in {n} : ~Answered(i)'
      /\ Entries("assistant")' =
           Entries("assistant") \cup (IF e.kind = "assistant" THEN {n} ELSE {})
      /\ \A i \in Entries("assistant") : i \in DOMAIN messages
  <2>1. \A i \in Entries("assistant") : i \in DOMAIN messages
    BY DEF Entries
  <2> QED
    BY <1>1, <2>1, Grown
<1> HIDE DEF n
<1>3. \A s, t : LogOf(s, t)' = LogOf(s, t)
  BY <1>1 DEF LogOf
<1>4. ASSUME NEW k \in DOMAIN toolLog' PROVE \E i \in Entries("assistant")' : Issued(i, k)'
  <2>1. PICK i \in Entries("assistant") : Issued(i, k)
    BY <1>1, <1>4 DEF LogFollows
  <2>2. Issued(i, k)'
    BY <1>1, <1>2, <2>1 DEF Issued
  <2> QED
    BY <1>2, <2>2
<1>5. ASSUME NEW i \in Entries("assistant") PROVE Booked(i)'
  <2>1. LogOfEntry(i)' = LogOfEntry(i) /\ messages'[i] = messages[i]
    BY <1>1, <1>2 DEF LogOfEntry, LogOf
  <2>2. Booked(i)
    BY DEF LogFollows
  <2>3. ASSUME e.kind = "tool", i = Len(messages)
        PROVE  Cardinality(LogOfEntry(i)) = messages[i].n
    <3>1. Resolves(r, e)
      BY <2>3 DEF Speaks, Opens, Nudges, Replies
    <3>2. /\ pc[r] \in Working /\ OpenBatch(r) /\ logged[r] = Batch
      BY <3>1 DEF Resolves, IInv, RunState
    <3>3. LogOfEntry(i) = LogOf(r, it[r]) /\ messages[i].n = logged[r]
      BY <2>3, <3>2 DEF OpenBatch, Batch, LogOfEntry
    <3> QED
      BY <3>2, <3>3 DEF LogFollows
  <2>4. Answered(i)' => Cardinality(LogOfEntry(i)) = messages[i].n
    BY <1>2, <2>2, <2>3 DEF Booked
  <2>5. \A k \in LogOfEntry(i) : Rank(LogOfEntry(i), k)' = Rank(LogOfEntry(i), k)
    BY <2>1 DEF Rank
  <2> QED
    BY <1>1, <2>1, <2>2, <2>4, <2>5 DEF Booked
<1>6. ASSUME NEW i, i = n, e.kind = "assistant" PROVE Booked(i)'
  <2>1. Replies(r, e)
    BY <1>6 DEF Speaks, Opens, Nudges, Resolves
  <2>2. LogOf(r, it[r]) = {}
    BY <2>1, FreshLog DEF Replies
  <2>3. LogOfEntry(i)' = {}
    <3>1. messages'[i].of = r /\ messages'[i].it = it[r]
      BY <1>2, <1>6, <2>1 DEF Replies
    <3> QED
      BY <1>1, <2>2, <3>1 DEF LogOfEntry, LogOf
  <2>4. Cardinality({}) <= messages'[i].n /\ ~Answered(i)'
    <3>1. e.n \in Nat /\ messages'[i].n = e.n
      BY <1>2, <1>6, <2>1 DEF Replies
    <3> QED
      BY <1>2, <1>6, <3>1, FS_EmptySet
  <2> QED
    BY <2>3, <2>4 DEF Booked
<1>7. ASSUME NEW s \in Runs, pc'[s] \in Working
      PROVE  Cardinality(LogOf(s, it[s]))' = logged'[s]
  <2>1. s = r /\ Replies(r, e) /\ logged'[r] = 0 /\ it'[r] = it[r]
    BY <1>7 DEF Speaks, Alone, Opens, Nudges, Replies, Resolves, GoesOn
  <2>2. LogOf(r, it[r]) = {}
    BY <2>1, FreshLog DEF Replies
  <2>3. LogOf(s, it[s])' = {}
    BY <1>1, <2>1, <2>2 DEF LogOf
  <2> QED
    BY <2>1, <2>3, FS_EmptySet
<1> QED
  BY <1>2, <1>4, <1>5, <1>6, <1>7 DEF LogFollows

\* Every step keeps the log an account of the transcript.
LEMMA LogFollowsStep ==
  ASSUME IInv, Counted, LogFollows, [Next]_vars
  PROVE  LogFollows'
<1>1. CASE Quiet /\ UNCHANGED <<toolLog, logged>>
  <2>1. UNCHANGED <<messages, it, toolLog, logged>> /\ \A s \in Runs : Still(s)
    BY <1>1 DEF Quiet
  <2>2. \A s \in Runs : pc'[s] \in Working => pc[s] \in Working
    BY <2>1 DEF Still, Working
  <2>3. /\ Entries("assistant")' = Entries("assistant")
        /\ \A s, t : LogOf(s, t)' = LogOf(s, t)
        /\ \A i, k : Issued(i, k)' <=> Issued(i, k)
        /\ \A i : Answered(i)' <=> Answered(i)
    BY <2>1 DEF Entries, LogOf, Issued, Answered
  <2>4. \A i : Booked(i)' <=> Booked(i)
    BY <2>1 DEF Booked, LogOfEntry, LogOf, Answered, Rank
  <2>5. \A s \in Runs : pc'[s] \in Working => Cardinality(LogOf(s, it[s]))' = logged'[s]
    BY <2>1, <2>2 DEF LogFollows, LogOf
  <2> QED
    BY <2>1, <2>3, <2>4, <2>5 DEF LogFollows
<1>2. ASSUME NEW r \in Runs, Quiet, LogCall(r) \/ LogBatch(r) PROVE LogFollows'
  BY <1>2, LogsStep
<1>3. ASSUME NEW r \in Runs, NEW e, Speaks(r, e) PROVE LogFollows'
  BY <1>3, SpeechLogged
<1>4. CASE Reset
  <2>1. /\ Entries("assistant")' = {} /\ DOMAIN toolLog' = {}
        /\ \A s \in Runs : pc'[s] \in {"new", "refused", "left"}
    BY <1>4, ResetAlone
  <2> QED
    BY <2>1 DEF LogFollows, Working
<1> QED
  BY <1>1, <1>2, <1>3, <1>4, Moves, Speech

-----------------------------------------------------------------------------
\* The records of a fresh agent.
LEMMA InitRecords == Init => Records
<1> SUFFICES ASSUME Init PROVE Records
  OBVIOUS
<1>1. /\ messages = <<>> /\ toolLog = <<>> /\ DOMAIN messages = {} /\ DOMAIN toolLog = {}
      /\ \A r \in Runs : pc[r] = "new" /\ how[r] = "none"
  BY DEF Init
<1>2. Entries("assistant") = {} /\ \A r \in Runs : Mine(r) = {}
  BY <1>1 DEF Entries, Mine
<1>3. Counted
  BY <1>1, <1>2, FS_EmptySet, AgentAssumption
  DEF AgentAssumption, Counted, CountedOf, Asking, Working
<1>4. Answers
  BY <1>1, <1>2 DEF Answers, AnswersOf, Asking, Working
<1>5. UnansweredOnlyByAbort /\ LogFollows
  BY <1>1, <1>2 DEF UnansweredOnlyByAbort, LogFollows, Working
<1> QED
  BY <1>3, <1>4, <1>5 DEF Records

\* Together they are inductive.
LEMMA NextRecords == IInv /\ Records /\ [Next]_vars => Records'
BY CountedStep, AnswersStep, UnansweredStep, LogFollowsStep DEF Records

\* They hold throughout.
LEMMA RecordsHold == Spec => []Records
BY NextRecords, Inductive, InitRecords, PTL DEF Spec

\* What they say of the transcript and the log.
LEMMA RecordsSay ==
  ASSUME Records
  PROVE  IterationsBounded /\ UnansweredOnlyByAbort /\ LogMatchesTranscript
<1>1. IterationsBounded /\ UnansweredOnlyByAbort
  BY DEF Records, Counted, CountedOf, Answers, AnswersOf, IterationsBounded
<1>2. \A i : {k \in DOMAIN toolLog : Issued(i, k)} = LogOfEntry(i)
  BY DEF Issued, LogOfEntry, LogOf
<1>3. LogMatchesTranscript
  BY <1>2 DEF Records, LogMatchesTranscript, LogFollows, Booked
<1> QED
  BY <1>1, <1>3

\* A run makes at most MaxIterations LLM calls, numbered one by one, and one that
\* stopped for having used them up made them all and answered every call.
THEOREM AtMostMaxIterations == Spec => []IterationsBounded
BY RecordsSay, RecordsHold, PTL

\* Only a run that aborted leaves tool calls unanswered, and then it says no more.
THEOREM OnlyAbortsLeaveUnanswered == Spec => []UnansweredOnlyByAbort
BY RecordsSay, RecordsHold, PTL

\* The audit log holds, in order and each once, the calls of every answered batch,
\* and only first calls of the others.
THEOREM LogTellsTheTranscript == Spec => []LogMatchesTranscript
BY RecordsSay, RecordsHold, PTL

-----------------------------------------------------------------------------
(* Part 3: steering.                                                       *)

\* How many messages have left the channel: what is in it is what was accepted
\* last, and the message in hand is accepted[Taken].
Taken == Len(accepted) - Len(steering)

\* The channel, Steer and Reset.
Channel ==
  /\ Len(steering) <= Len(accepted)
  /\ \A j \in DOMAIN steering : steering[j] = accepted[Taken + j]
  /\ \A i, j \in DOMAIN accepted : accepted[i] = accepted[j] => i = j
  /\ \A m \in Steers : steer[m] = "sent" <=> \E k \in DOMAIN accepted : accepted[k] = m
  /\ resetAt <= Len(accepted)
  /\ ~resetting => resetAt <= Taken

\* While Reset drains, nobody is inside and the transcript is empty.
Clearing == resetting => ~running /\ messages = <<>>

\* What a run has in hand is the last message that left the channel.
Hand ==
  \A r \in Runs :
    IF pc[r] = "inHand"
    THEN resetAt < Taken /\ inHand[r] = accepted[Taken] /\ inHand[r] \notin discarded
    ELSE inHand[r] = NoSteer

InHand == \E r \in Runs : pc[r] = "inHand"
Applied(k) == \E i \in Entries("steering") : messages[i].of = accepted[k]

\* What has become of each message that left the channel.
Fates ==
  /\ \A m \in discarded : \E k \in 1..Taken : accepted[k] = m
  /\ \A k \in resetAt + 1 .. Taken :
       accepted[k] \in discarded \/ Applied(k) \/ (InHand /\ k = Taken)

\* Where each steering entry of the transcript comes from.
Sources ==
  \A i \in Entries("steering") :
    /\ i > 1 /\ messages[i - 1].kind \in {"prompt", "steering", "tool"}
    /\ messages[i].of \notin discarded
    /\ \E k \in resetAt + 1 .. Taken : messages[i].of = accepted[k] /\ (InHand => k < Taken)

\* The entries follow each other in the order of the channel.
Ordered ==
  \A i, j \in Entries("steering") : \A k, l \in DOMAIN accepted :
    messages[i].of = accepted[k] /\ messages[j].of = accepted[l] /\ i < j => k < l

\* What was due at a run's boundary has left the channel when the drain is over.
Due ==
  \A r \in Runs : /\ owed[r] <= Len(accepted)
                  /\ pc[r] \in {"iterate", "request", "stream"} => owed[r] <= Taken

SInv == Channel /\ Clearing /\ Hand /\ Fates /\ Sources /\ Ordered /\ Due

-----------------------------------------------------------------------------
(* The steps, as steering sees them.                                       *)

\* A step that leaves steering as it was.
Aside ==
  /\ UNCHANGED <<accepted, steering, discarded, resetting, resetAt, inHand>>
  /\ \A s \in Runs : pc'[s] = "inHand" <=> pc[s] = "inHand"
  /\ \A m \in Steers : steer'[m] = "sent" <=> steer[m] = "sent"
  /\ Entries("steering")' = Entries("steering")
  /\ \A i \in Entries("steering") :
       messages'[i] = messages[i] /\ (i > 1 => messages'[i - 1] = messages[i - 1])

\* An entry of another kind does.
LEMMA OthersAside ==
  ASSUME messages \in Seq(Message), NEW e, e.kind # "steering",
         messages' = Append(messages, e)
  PROVE  /\ Entries("steering")' = Entries("steering")
         /\ \A i \in Entries("steering") :
              messages'[i] = messages[i] /\ (i > 1 => messages'[i - 1] = messages[i - 1])
<1>1. /\ DOMAIN messages' = DOMAIN messages \cup {Len(messages) + 1}
      /\ \A i \in DOMAIN messages : messages'[i] = messages[i]
      /\ messages'[Len(messages) + 1] = e
      /\ \A i \in DOMAIN messages : i > 1 => i - 1 \in DOMAIN messages
  BY Grown
<1> QED
  BY <1>1 DEF Entries

\* Every step leaves the steering records aside, or is one of these actions.
LEMMA SteeringMoves ==
  ASSUME IInv, [Next]_vars
  PROVE  \/ Aside
         \/ \E r \in Runs : TakeSteering(r) \/ KeepSteering(r) \/ DiscardSteering(r)
         \/ \E m \in Steers : Steer(m)
         \/ Reset \/ ResetDrains \/ ResetEnds
<1> USE DEF IInv, TypeOK, recordVars, localVars, steerVars, resetVars, Goto, Leave, Yield
<1>1. ASSUME NEW r \in Runs,
             \/ MarkRunning(r) \/ Refuse(r) \/ MarkIdle(r)
             \/ DrainEnds(r) \/ IterationStart(r) \/ BuildRequest(r)
      PROVE  Aside
  <2>1. CASE MarkRunning(r) \/ Refuse(r)
    BY <2>1 DEF MarkRunning, Refuse, Aside, Entries
  <2>2. CASE MarkIdle(r) \/ DrainEnds(r)
    BY <2>2 DEF MarkIdle, DrainEnds, Aside, Entries
  <2>3. CASE IterationStart(r) \/ BuildRequest(r)
    BY <2>3 DEF IterationStart, BuildRequest, Aside, Entries
  <2> QED
    BY <1>1, <2>1, <2>2, <2>3
<1>2. ASSUME NEW r \in Runs, StreamFails(r) \/ BatchAborts(r) \/ LogCall(r) \/ LogBatch(r)
      PROVE  Aside
  BY <1>2 DEF StreamFails, BatchAborts, LogCall, LogBatch, Aside, Entries
<1>3. ASSUME NEW m \in Steers, SteerGivesUp(m) PROVE Aside
  BY <1>3 DEF SteerGivesUp, Aside, Entries
<1>4. ASSUME UNCHANGED vars PROVE Aside
  BY <1>4 DEF vars, Aside, Entries
<1>5. ASSUME NEW r \in Runs, Begin(r) PROVE Aside
  <2>1. \E e : e.kind # "steering" /\ messages' = Append(messages, e)
    <3> DEFINE e == [kind |-> "prompt", of |-> r, it |-> it[r], n |-> 0]
    <3>1. e.kind # "steering" /\ messages' = Append(messages, e)
      BY <1>5 DEF Begin, Say
    <3> QED
      BY <3>1
  <2> QED
    BY <1>5, <2>1, OthersAside DEF Begin, Aside
<1>6. ASSUME NEW r \in Runs, NEW n \in 0..MaxCalls, StreamEnds(r, n) PROVE Aside
  <2>1. \E e : e.kind # "steering" /\ messages' = Append(messages, e)
    <3> DEFINE e == [kind |-> "assistant", of |-> r, it |-> it[r], n |-> n]
    <3>1. e.kind # "steering" /\ messages' = Append(messages, e)
      BY <1>6 DEF StreamEnds, Say
    <3> QED
      BY <3>1
  <2> QED
    BY <1>6, <2>1, OthersAside DEF StreamEnds, Aside
<1>7. ASSUME NEW r \in Runs, AppendResults(r) PROVE Aside
  <2>1. \E e : e.kind # "steering" /\ messages' = Append(messages, e)
    <3> DEFINE e == [kind |-> "tool", of |-> r, it |-> it[r], n |-> logged[r]]
    <3>1. e.kind # "steering" /\ messages' = Append(messages, e)
      BY <1>7 DEF AppendResults, SayResults, Say
    <3> QED
      BY <3>1
  <2> QED
    BY <1>7, <2>1, OthersAside DEF AppendResults, Aside
<1> QED
  BY <1>1, <1>2, <1>3, <1>4, <1>5, <1>6, <1>7 DEF Next, Step, Finished

\* The oldest message leaves the channel.
LEMMA Departs ==
  ASSUME TypeOK, Channel, steering # <<>>, steering' = Tail(steering), accepted' = accepted
  PROVE  /\ Taken \in Nat /\ Taken' = Taken + 1 /\ Taken + 1 \in DOMAIN accepted
         /\ Head(steering) = accepted[Taken + 1]
         /\ Len(steering') <= Len(accepted)
         /\ \A j \in DOMAIN steering' : steering'[j] = accepted[Taken' + j]
<1>1. /\ steering \in Seq(Steers) /\ accepted \in Seq(Steers)
      /\ Len(steering) \in Nat /\ Len(accepted) \in Nat /\ Len(steering) > 0
      /\ Len(steering) <= Len(accepted)
      /\ DOMAIN accepted = 1..Len(accepted) /\ DOMAIN steering = 1..Len(steering)
      /\ \A j \in 1..Len(steering) : steering[j] = accepted[Taken + j]
  BY DEF TypeOK, Channel
<1>2. /\ Len(steering') = Len(steering) - 1 /\ Head(steering) = steering[1]
      /\ DOMAIN steering' = 1..(Len(steering) - 1)
      /\ \A j \in 1..(Len(steering) - 1) : steering'[j] = steering[j + 1]
  BY <1>1
<1>3. Taken \in Nat /\ Taken' = Taken + 1 /\ Taken + 1 \in 1..Len(accepted)
  BY <1>1, <1>2 DEF Taken
<1>4. \A j \in 1..(Len(steering) - 1) :
        j + 1 \in 1..Len(steering) /\ Taken + (j + 1) = Taken' + j
  BY <1>1, <1>3
<1>5. 1 \in 1..Len(steering)
  BY <1>1
<1> HIDE DEF Taken
<1> QED
  BY <1>1, <1>2, <1>3, <1>4, <1>5

\* A message enters it.
LEMMA Arrives ==
  ASSUME TypeOK, Channel, NEW m \in Steers, Steer(m)
  PROVE  LET n == Len(accepted) + 1
         IN  /\ Len(accepted) \in Nat /\ Len(accepted') = n
             /\ DOMAIN accepted = 1..Len(accepted)
             /\ DOMAIN accepted' = DOMAIN accepted \cup {n}
             /\ \A k \in DOMAIN accepted : accepted'[k] = accepted[k] /\ accepted[k] # m
             /\ accepted'[n] = m
             /\ Taken \in Nat /\ Taken' = Taken /\ Taken <= Len(accepted)
             /\ Len(steering') <= Len(accepted')
             /\ \A j \in DOMAIN steering' : steering'[j] = accepted'[Taken + j]
<1> DEFINE n == Len(accepted) + 1
<1>1. /\ steering \in Seq(Steers) /\ accepted \in Seq(Steers)
      /\ Len(steering) \in Nat /\ Len(accepted) \in Nat
      /\ Len(steering) <= Len(accepted)
      /\ DOMAIN accepted = 1..Len(accepted) /\ DOMAIN steering = 1..Len(steering)
      /\ \A j \in 1..Len(steering) : steering[j] = accepted[Taken + j]
      /\ accepted' = Append(accepted, m) /\ steering' = Append(steering, m)
      /\ steer[m] # "sent"
  <2>1. steering \in Seq(Steers) /\ accepted \in Seq(Steers)
    BY DEF TypeOK
  <2>2. accepted' = Append(accepted, m) /\ steering' = Append(steering, m) /\ steer[m] # "sent"
    BY DEF Steer, Push
  <2>3. /\ Len(steering) <= Len(accepted)
        /\ \A j \in DOMAIN steering : steering[j] = accepted[Taken + j]
    BY DEF Channel
  <2> HIDE DEF Taken
  <2> QED
    BY <2>1, <2>2, <2>3
<1>2. /\ Len(accepted') = n /\ DOMAIN accepted' = 1..n /\ accepted'[n] = m
      /\ \A k \in 1..Len(accepted) : accepted'[k] = accepted[k]
  BY <1>1
<1>3. /\ Len(steering') = Len(steering) + 1 /\ DOMAIN steering' = 1..(Len(steering) + 1)
      /\ steering'[Len(steering) + 1] = m
      /\ \A k \in 1..Len(steering) : steering'[k] = steering[k]
  BY <1>1
<1>4. 1..n = (1..Len(accepted)) \cup {n} /\ n \in Nat
  BY <1>1
<1>5. Taken \in Nat /\ Taken' = Taken /\ Taken <= Len(accepted) /\ Len(steering') <= n
  BY <1>1, <1>2, <1>3 DEF Taken
<1>6. \A k \in DOMAIN accepted : accepted[k] # m
  BY <1>1 DEF Channel
<1>7. ASSUME NEW j \in DOMAIN steering' PROVE steering'[j] = accepted'[Taken + j]
  <2>1. CASE j = Len(steering) + 1
    <3>1. Taken + j = n
      BY <1>1, <2>1 DEF Taken
    <3> QED
      BY <1>2, <1>3, <2>1, <3>1
  <2>2. CASE j # Len(steering) + 1
    <3>1. j \in 1..Len(steering) /\ Taken + j \in 1..Len(accepted)
      BY <1>1, <1>3, <2>2 DEF Taken
    <3> QED
      BY <1>1, <1>2, <1>3, <3>1
  <2> QED
    BY <2>1, <2>2
<1> HIDE DEF n
<1> QED
  BY <1>1, <1>2, <1>4, <1>5, <1>6, <1>7 DEF n

\* A run takes no step while Reset drains.
LEMMA StepNotClearing ==
  ASSUME IInv, Clearing, NEW r \in Runs, Step(r)
  PROVE  ~resetting /\ resetting' = resetting
<1>1. resetting' = resetting
  BY DEF Step, MarkRunning, Refuse, Begin, MarkIdle, TakeSteering, KeepSteering,
     DiscardSteering, DrainEnds, IterationStart, BuildRequest, StreamFails, StreamEnds,
     LogCall, LogBatch, BatchAborts, AppendResults, resetVars
<1>2. Inside(r) \/ ~resetting
  BY DEF Step, MarkRunning, Refuse, Begin, MarkIdle, TakeSteering, KeepSteering,
     DiscardSteering, DrainEnds, IterationStart, BuildRequest, StreamFails, StreamEnds,
     LogCall, LogBatch, BatchAborts, AppendResults, Inside
<1>3. Inside(r) => running
  BY DEF IInv, RunExclusion
<1> QED
  BY <1>1, <1>2, <1>3 DEF Clearing

\* While Reset empties the channel, no run is inside and the transcript stays empty.
LEMMA ClearingStep ==
  ASSUME IInv, Clearing, [Next]_vars
  PROVE  Clearing'
<1>1. ASSUME NEW r \in Runs, Step(r) PROVE Clearing'
  BY <1>1, StepNotClearing DEF Clearing
<1>2. ASSUME NEW m \in Steers, Steer(m) \/ SteerGivesUp(m) PROVE Clearing'
  BY <1>2 DEF Steer, SteerGivesUp, Clearing, agentVars, recordVars, resetVars
<1>3. ASSUME Reset PROVE Clearing'
  BY <1>3 DEF Reset, MayReset, Clearing
<1>4. ASSUME ResetDrains \/ ResetEnds \/ UNCHANGED vars PROVE Clearing'
  BY <1>4 DEF ResetDrains, ResetEnds, vars, Clearing, agentVars, recordVars, resetVars
<1> QED
  BY <1>1, <1>2, <1>3, <1>4 DEF Next, Finished

\* Taken is where the channel begins.
LEMMA TakenType ==
  ASSUME TypeOK, Channel
  PROVE  /\ Taken \in Nat /\ Len(accepted) \in Nat /\ Len(steering) \in Nat
         /\ Taken + Len(steering) = Len(accepted)
         /\ DOMAIN accepted = 1..Len(accepted) /\ DOMAIN steering = 1..Len(steering)
         /\ resetAt \in Nat
<1>1. /\ steering \in Seq(Steers) /\ accepted \in Seq(Steers)
      /\ Len(steering) <= Len(accepted) /\ resetAt \in Nat
  BY DEF TypeOK, Channel
<1>2. Len(accepted) \in Nat /\ Len(steering) \in Nat
  BY <1>1
<1> QED
  BY <1>1, <1>2 DEF Taken

\* Only the run inside has a message in hand.
LEMMA OneHand ==
  ASSUME IInv, NEW r \in Runs, pc[r] = "inHand"
  PROVE  \A s \in Runs \ {r} : pc[s] # "inHand"
<1>1. \A s \in Runs \ {r} : ~Inside(s)
  BY OthersOutside DEF IInv, Inside
<1> QED
  BY <1>1 DEF Inside

\* A step aside keeps the five parts.
LEMMA AsideKeeps ==
  ASSUME SInv, Aside
  PROVE  Channel' /\ Hand' /\ Fates' /\ Sources' /\ Ordered'
<1>1. Taken' = Taken /\ (InHand' <=> InHand) /\ \A k : Applied(k)' <=> Applied(k)
  BY DEF Aside, Taken, InHand, Applied
<1>2. Channel'
  BY <1>1 DEF SInv, Channel, Aside
<1>3. Hand'
  BY <1>1 DEF SInv, Hand, Aside
<1>4. Fates'
  BY <1>1 DEF SInv, Fates, Aside
<1>5. Sources'
  BY <1>1 DEF SInv, Sources, Aside
<1>6. Ordered'
  BY <1>1 DEF SInv, Ordered, Aside
<1> QED
  BY <1>2, <1>3, <1>4, <1>5, <1>6

\* TakeSteering moves the head of the channel into the run's hand.
LEMMA TakeKeeps ==
  ASSUME IInv, SInv, NEW r \in Runs, TakeSteering(r)
  PROVE  Channel' /\ Hand' /\ Fates' /\ Sources' /\ Ordered'
<1>1. /\ TypeOK /\ Channel /\ Hand /\ Fates /\ Sources /\ Ordered
      /\ UNCHANGED <<accepted, discarded, messages, steer, resetting, resetAt>>
      /\ steering # <<>> /\ steering' = Tail(steering)
      /\ pc' = [pc EXCEPT ![r] = "inHand"]
      /\ inHand' = [inHand EXCEPT ![r] = Head(steering)]
  BY DEF IInv, SInv, TakeSteering, Goto, recordVars, steerVars, resetVars
<1>2. /\ Taken \in Nat /\ Taken' = Taken + 1 /\ Taken + 1 \in DOMAIN accepted
      /\ Head(steering) = accepted[Taken + 1]
      /\ Len(steering') <= Len(accepted)
      /\ \A j \in DOMAIN steering' : steering'[j] = accepted[Taken' + j]
  BY <1>1, Departs
<1>3. /\ ~resetting /\ \A s \in Runs : pc[s] # "inHand"
      /\ resetAt <= Taken /\ resetAt \in Nat
  <2>1. pc[r] = "boundary" /\ Inside(r) /\ running
    BY OthersOutside DEF TakeSteering, Inside, IInv
  <2>2. \A s \in Runs \ {r} : ~Inside(s)
    BY <2>1, OthersOutside DEF IInv
  <2> QED
    BY <1>1, <2>1, <2>2 DEF SInv, Clearing, Inside, Channel, TypeOK
<1>4. pc \in [Runs -> {pc[s] : s \in Runs}] /\ inHand \in [Runs -> Steers \cup {NoSteer}]
  BY <1>1 DEF TypeOK
<1>5. Entries("steering")' = Entries("steering") /\ \A k : Applied(k)' <=> Applied(k)
  BY <1>1 DEF Entries, Applied
<1>6. InHand' /\ ~InHand
  BY <1>1, <1>3, <1>4 DEF InHand
<1> HIDE DEF Taken
<1>7. Channel'
  <2>1. resetAt' <= Taken'
    BY <1>1, <1>2, <1>3
  <2> QED
    BY <1>1, <1>2, <2>1 DEF Channel
<1>8. accepted[Taken + 1] \notin discarded
  <2>1. ASSUME NEW k \in 1..Taken, accepted[k] = accepted[Taken + 1] PROVE FALSE
    <3>1. k \in DOMAIN accepted /\ k # Taken + 1
      BY <1>1, <1>2, TakenType
    <3> QED
      BY <1>1, <1>2, <2>1, <3>1 DEF Channel
  <2> QED
    BY <1>1, <1>2, <2>1 DEF Fates, TypeOK
<1>9. Hand'
  <2>1. resetAt < Taken + 1
    BY <1>2, <1>3
  <2>2. ASSUME NEW s \in Runs \ {r} PROVE pc'[s] # "inHand" /\ inHand'[s] = NoSteer
    BY <1>1, <1>3, <1>4 DEF Hand
  <2>3. pc'[r] = "inHand" /\ inHand'[r] = accepted[Taken + 1]
    BY <1>1, <1>2, <1>4
  <2> QED
    BY <1>1, <1>2, <1>8, <2>1, <2>2, <2>3 DEF Hand
<1>10. Fates'
  <2>1. \A k \in 1..Taken : k \in 1..(Taken + 1)
    BY <1>2
  <2>2. \A k \in resetAt + 1 .. Taken + 1 : k \in resetAt + 1 .. Taken \/ k = Taken + 1
    BY <1>2, <1>3
  <2> QED
    BY <1>1, <1>2, <1>5, <1>6, <2>1, <2>2 DEF Fates
<1>11. Sources'
  <2>1. \A k \in resetAt + 1 .. Taken : k \in resetAt + 1 .. Taken + 1 /\ k < Taken + 1
    BY <1>2, <1>3
  <2> QED
    BY <1>1, <1>2, <1>5, <2>1 DEF Sources
<1>12. Ordered'
  BY <1>1, <1>5 DEF Ordered
<1> QED
  BY <1>7, <1>9, <1>10, <1>11, <1>12

\* KeepSteering puts the message in hand, the next accepted one, in the transcript.
LEMMA KeepKeeps ==
  ASSUME IInv, Answers, SInv, NEW r \in Runs, KeepSteering(r)
  PROVE  Channel' /\ Hand' /\ Fates' /\ Sources' /\ Ordered'
<1> DEFINE n == Len(messages) + 1
           e == [kind |-> "steering", of |-> inHand[r], it |-> it[r], n |-> 0]
<1>1. /\ TypeOK /\ Channel /\ Hand /\ Fates /\ Sources /\ Ordered
      /\ UNCHANGED <<accepted, steering, discarded, steer, resetting, resetAt>>
      /\ messages' = Append(messages, e)
      /\ \A s \in Runs : pc'[s] = IF s = r THEN pc'[r] ELSE pc[s]
      /\ pc'[r] # "inHand" /\ pc[r] = "inHand"
      /\ inHand' = [inHand EXCEPT ![r] = NoSteer] /\ inHand \in [Runs -> Steers \cup {NoSteer}]
  BY DEF IInv, TypeOK, SInv, KeepSteering, Goto, Leave, Yield, steerVars, resetVars
<1>2. /\ Taken \in Nat /\ Taken' = Taken /\ resetAt \in Nat
      /\ DOMAIN accepted = 1..Len(accepted) /\ Taken <= Len(accepted)
      /\ resetAt < Taken /\ inHand[r] = accepted[Taken] /\ accepted[Taken] \notin discarded
  <2>1. Taken' = Taken
    BY <1>1 DEF Taken
  <2>2. Taken <= Len(accepted)
    BY <1>1, TakenType
  <2> QED
    BY <1>1, <2>1, <2>2, TakenType DEF Hand
<1>3. \A s \in Runs : pc'[s] # "inHand" /\ inHand'[s] = NoSteer
  BY <1>1, OneHand DEF Hand
<1>4. ~InHand' /\ InHand
  BY <1>1, <1>3 DEF InHand
<1>5. /\ n \in Nat /\ messages'[n] = e
      /\ DOMAIN messages' = DOMAIN messages \cup {n}
      /\ \A i \in DOMAIN messages : messages'[i] = messages[i] /\ i \in Nat /\ i < n
      /\ \A i \in DOMAIN messages : i > 1 => i - 1 \in DOMAIN messages
      /\ n > 1 /\ messages'[n - 1].kind \in {"prompt", "steering", "tool"}
  <2>1. /\ messages \in Seq(Message) /\ Len(messages) > 0
        /\ messages[Len(messages)].kind # "assistant"
    BY <1>1 DEF Answers, AnswersOf, Asking, TypeOK
  <2>2. Len(messages) \in DOMAIN messages /\ n - 1 = Len(messages) /\ n > 1
    BY <2>1
  <2>3. messages[Len(messages)].kind \in {"prompt", "steering", "tool"}
    BY <2>1, <2>2 DEF Message
  <2>4. \A i \in DOMAIN messages : i > 1 => i - 1 \in DOMAIN messages
    BY <2>1
  <2>5. /\ n \in Nat /\ messages'[n] = e
        /\ DOMAIN messages' = DOMAIN messages \cup {n}
        /\ \A i \in DOMAIN messages : messages'[i] = messages[i] /\ i \in Nat /\ i < n
    BY <1>1, <2>1, Grown
  <2> QED
    BY <2>2, <2>3, <2>4, <2>5
<1>6. Entries("steering")' = Entries("steering") \cup {n}
  BY <1>5 DEF Entries
<1>7. \A i \in Entries("steering") : i \in DOMAIN messages
  BY DEF Entries
<1> HIDE DEF Taken, n
<1>8. Channel'
  BY <1>1, <1>2 DEF Channel
<1>9. Hand'
  BY <1>3 DEF Hand
<1>10. Fates'
  <2>1. \A k : Applied(k) => Applied(k)'
    BY <1>1, <1>5, <1>6, <1>7 DEF Applied
  <2>2. \A k : k = Taken => Applied(k)'
    <3>1. n \in Entries("steering")' /\ messages'[n].of = accepted'[Taken']
      BY <1>1, <1>2, <1>5, <1>6
    <3> QED
      BY <1>2, <3>1 DEF Applied
  <2> HIDE DEF e
  <2> QED
    BY <1>1, <1>2, <2>1, <2>2 DEF Fates
<1>11. Sources'
  <2>1. ASSUME NEW i \in Entries("steering")
        PROVE  /\ messages'[i] = messages[i]
               /\ i > 1 /\ messages'[i - 1].kind \in {"prompt", "steering", "tool"}
               /\ messages[i].of \notin discarded
               /\ \E k \in resetAt + 1 .. Taken : messages[i].of = accepted[k]
    BY <1>1, <1>5, <1>7 DEF Sources
  <2>2. Taken \in resetAt + 1 .. Taken
    BY <1>2
  <2>3. /\ messages'[n].of \notin discarded
        /\ \E k \in resetAt + 1 .. Taken : messages'[n].of = accepted[k]
    BY <1>2, <1>5, <2>2
  <2>4. ASSUME NEW i \in Entries("steering")'
        PROVE  /\ i > 1 /\ messages'[i - 1].kind \in {"prompt", "steering", "tool"}
               /\ messages'[i].of \notin discarded
               /\ \E k \in resetAt + 1 .. Taken : messages'[i].of = accepted[k]
    <3>1. CASE i = n
      BY <1>5, <2>3, <3>1
    <3>2. CASE i \in Entries("steering")
      BY <2>1, <3>2
    <3> QED
      BY <1>6, <3>1, <3>2
  <2> QED
    BY <1>1, <1>2, <1>4, <2>4 DEF Sources
<1>12. Ordered'
  <2>1. ASSUME NEW i \in Entries("steering"), NEW k \in DOMAIN accepted,
               messages[i].of = accepted[k]
        PROVE  k < Taken
    <3>1. PICK l \in resetAt + 1 .. Taken : messages[i].of = accepted[l] /\ l < Taken
      BY <1>1, <1>4 DEF Sources
    <3>2. l \in DOMAIN accepted
      BY <1>2, <3>1
    <3>3. k = l
      BY <1>1, <2>1, <3>1, <3>2 DEF Channel
    <3> QED
      BY <3>1, <3>3
  <2>2. ASSUME NEW i \in Entries("steering")', NEW j \in Entries("steering")',
               NEW k \in DOMAIN accepted, NEW l \in DOMAIN accepted,
               messages'[i].of = accepted[k], messages'[j].of = accepted[l], i < j
        PROVE  k < l
    <3>1. CASE i \in Entries("steering") /\ j \in Entries("steering")
      BY <1>1, <1>5, <1>7, <2>2, <3>1 DEF Ordered
    <3>2. CASE i \in Entries("steering") /\ j = n
      <4>1. k < Taken
        BY <1>5, <1>7, <2>1, <2>2, <3>2
      <4>2. accepted[l] = accepted[Taken] /\ Taken \in DOMAIN accepted
        BY <1>2, <1>5, <2>2, <3>2
      <4>3. l = Taken
        BY <1>1, <4>2 DEF Channel
      <4> QED
        BY <4>1, <4>3
    <3>3. i # n
      <4>1. j \in Nat /\ (j < n \/ j = n)
        BY <1>5, <1>6, <1>7
      <4> QED
        BY <1>5, <2>2, <4>1
    <3> QED
      BY <1>6, <3>1, <3>2, <3>3
  <2> QED
    BY <1>1, <2>2 DEF Ordered
<1> QED
  BY <1>8, <1>9, <1>10, <1>11, <1>12

\* DiscardSteering drops the message in hand, after a consumer stopped.
LEMMA DiscardKeeps ==
  ASSUME IInv, SInv, NEW r \in Runs, DiscardSteering(r)
  PROVE  Channel' /\ Hand' /\ Fates' /\ Sources' /\ Ordered'
<1>1. /\ TypeOK /\ Channel /\ Hand /\ Fates /\ Sources /\ Ordered
      /\ UNCHANGED <<accepted, steering, steer, resetting, resetAt, messages>>
      /\ \A s \in Runs : pc'[s] = IF s = r THEN pc'[r] ELSE pc[s]
      /\ pc'[r] # "inHand" /\ pc[r] = "inHand"
      /\ inHand' = [inHand EXCEPT ![r] = NoSteer] /\ inHand \in [Runs -> Steers \cup {NoSteer}]
      /\ discarded' = discarded \cup {inHand[r]}
  BY DEF IInv, TypeOK, SInv, DiscardSteering, Forget, Goto, Leave, Yield, recordVars,
     steerVars, resetVars
<1>2. /\ Taken \in Nat /\ Taken' = Taken /\ resetAt \in Nat
      /\ DOMAIN accepted = 1..Len(accepted) /\ Taken <= Len(accepted)
      /\ resetAt < Taken /\ inHand[r] = accepted[Taken]
  <2>1. Taken' = Taken
    BY <1>1 DEF Taken
  <2>2. Taken <= Len(accepted)
    BY <1>1, TakenType
  <2> QED
    BY <1>1, <2>1, <2>2, TakenType DEF Hand
<1>3. \A s \in Runs : pc'[s] # "inHand" /\ inHand'[s] = NoSteer
  BY <1>1, OneHand DEF Hand
<1>4. ~InHand' /\ InHand
  BY <1>1, <1>3 DEF InHand
<1>5. Entries("steering")' = Entries("steering") /\ \A k : Applied(k)' <=> Applied(k)
  BY <1>1 DEF Entries, Applied
<1>6. Taken \in 1..Taken
  BY <1>2
<1> HIDE DEF Taken
<1>7. Channel'
  BY <1>1, <1>2 DEF Channel
<1>8. Hand'
  BY <1>3 DEF Hand
<1>9. Fates'
  BY <1>1, <1>2, <1>5, <1>6 DEF Fates
<1>10. Sources'
  <2>1. ASSUME NEW i \in Entries("steering")
        PROVE  /\ messages[i].of # inHand[r]
               /\ \E k \in resetAt + 1 .. Taken : messages[i].of = accepted[k]
    <3>1. PICK k \in resetAt + 1 .. Taken : messages[i].of = accepted[k] /\ k < Taken
      BY <1>1, <1>4 DEF Sources
    <3>2. k \in DOMAIN accepted /\ Taken \in DOMAIN accepted /\ k # Taken
      BY <1>2, <3>1
    <3>3. accepted[k] # accepted[Taken]
      BY <1>1, <3>2 DEF Channel
    <3> QED
      BY <1>2, <3>1, <3>3
  <2> QED
    BY <1>1, <1>2, <1>4, <1>5, <2>1 DEF Sources
<1>11. Ordered'
  BY <1>1, <1>5 DEF Ordered
<1> QED
  BY <1>7, <1>8, <1>9, <1>10, <1>11

\* Steer appends a message that was never sent before.
LEMMA SteerKeeps ==
  ASSUME IInv, SInv, NEW m \in Steers, Steer(m)
  PROVE  Channel' /\ Hand' /\ Fates' /\ Sources' /\ Ordered'
<1> DEFINE n == Len(accepted) + 1
<1>1. /\ TypeOK /\ Channel /\ Hand /\ Fates /\ Sources /\ Ordered
      /\ UNCHANGED <<pc, inHand, discarded, resetting, resetAt, messages>>
      /\ steer' = [steer EXCEPT ![m] = "sent"] /\ DOMAIN steer = Steers
  BY DEF IInv, TypeOK, SInv, Steer, recordVars, localVars, resetVars
<1>2. /\ Len(accepted) \in Nat /\ Len(accepted') = n
      /\ DOMAIN accepted = 1..Len(accepted)
      /\ DOMAIN accepted' = DOMAIN accepted \cup {n}
      /\ \A k \in DOMAIN accepted : accepted'[k] = accepted[k] /\ accepted[k] # m
      /\ accepted'[n] = m
      /\ Taken \in Nat /\ Taken' = Taken /\ Taken <= Len(accepted)
      /\ Len(steering') <= Len(accepted')
      /\ \A j \in DOMAIN steering' : steering'[j] = accepted'[Taken + j]
  BY <1>1, Arrives
<1>3. /\ Entries("steering")' = Entries("steering") /\ (InHand' <=> InHand)
      /\ resetAt \in Nat /\ resetAt <= Len(accepted)
  BY <1>1, TakenType DEF Entries, InHand, Channel
<1>4. /\ \A k \in 1..Taken : k \in DOMAIN accepted
      /\ \A k \in resetAt + 1 .. Taken : k \in DOMAIN accepted
      /\ n \in Nat /\ n \notin DOMAIN accepted
  BY <1>2, <1>3
<1> HIDE DEF Taken
<1>5. Channel'
  <2>1. resetAt' <= Len(accepted')
    BY <1>1, <1>2, <1>3
  <2>2. ASSUME NEW i \in DOMAIN accepted', NEW j \in DOMAIN accepted',
               accepted'[i] = accepted'[j]
        PROVE  i = j
    <3> HIDE DEF n
    <3> QED
      BY <1>1, <1>2, <2>2 DEF Channel
  <2>3. ASSUME NEW p \in Steers
        PROVE  steer'[p] = "sent" <=> \E k \in DOMAIN accepted' : accepted'[k] = p
    <3> HIDE DEF n
    <3> QED
      BY <1>1, <1>2 DEF Channel
  <2> QED
    BY <1>1, <1>2, <2>1, <2>2, <2>3 DEF Channel
<1>6. Hand'
  <2>1. resetAt < Taken => Taken \in DOMAIN accepted
    BY <1>2, <1>3
  <2> QED
    BY <1>1, <1>2, <2>1 DEF Hand
<1>7. Fates'
  <2>1. \A k \in DOMAIN accepted : Applied(k)' <=> Applied(k)
    BY <1>1, <1>2, <1>3 DEF Applied
  <2> QED
    <3>1. /\ \A p \in discarded : \E k \in 1..Taken : accepted[k] = p
          /\ \A k \in resetAt + 1 .. Taken :
               accepted[k] \in discarded \/ Applied(k) \/ (InHand /\ k = Taken)
      BY <1>1 DEF Fates
    <3>2. \A p \in discarded : \E k \in 1..Taken : accepted'[k] = p
      BY <1>2, <1>4, <3>1
    <3>3. \A k \in resetAt + 1 .. Taken :
            accepted'[k] \in discarded \/ Applied(k)' \/ (InHand /\ k = Taken)
      BY <1>2, <1>4, <2>1, <3>1
    <3> QED
      BY <1>1, <1>2, <1>3, <3>2, <3>3 DEF Fates
<1>8. Sources'
  BY <1>1, <1>2, <1>3, <1>4 DEF Sources
<1>9. Ordered'
  <2>1. ASSUME NEW i \in Entries("steering"), NEW k \in DOMAIN accepted',
               messages[i].of = accepted'[k]
        PROVE  k \in DOMAIN accepted /\ messages[i].of = accepted[k]
    <3>1. \E l \in DOMAIN accepted : messages[i].of = accepted[l]
      BY <1>1, <1>4 DEF Sources
    <3> HIDE DEF n
    <3> QED
      BY <1>2, <2>1, <3>1
  <2> QED
    BY <1>1, <1>3, <2>1 DEF Ordered
<1> QED
  BY <1>5, <1>6, <1>7, <1>8, <1>9

\* Reset empties the channel and the transcript when no message is in a hand.
LEMMA ResetKeeps ==
  ASSUME IInv, SInv, Reset \/ ResetDrains \/ ResetEnds
  PROVE  Channel' /\ Hand' /\ Fates' /\ Sources' /\ Ordered'
<1>1. /\ TypeOK /\ Channel /\ Hand /\ Fates
      /\ UNCHANGED <<accepted, steer, inHand, pc>>
  BY DEF IInv, SInv, Reset, ResetDrains, ResetEnds, localVars, steerVars
<1>2. messages' = <<>> /\ Entries("steering")' = {}
  <2>1. messages' = <<>>
    BY DEF Reset, ResetDrains, ResetEnds, SInv, Clearing, recordVars
  <2> QED
    BY <2>1 DEF Entries
<1>3. \A s \in Runs : pc[s] # "inHand"
  <2>1. ~running
    BY DEF Reset, MayReset, ResetDrains, ResetEnds, SInv, Clearing
  <2> QED
    BY <2>1 DEF IInv, RunExclusion, Inside
<1>4. Sources' /\ Ordered'
  BY <1>2 DEF Sources, Ordered
<1>5. Hand'
  BY <1>1, <1>3 DEF Hand
<1>6. /\ Taken \in Nat /\ Len(accepted) \in Nat /\ Len(steering) \in Nat
      /\ Taken + Len(steering) = Len(accepted) /\ resetAt \in Nat
  BY <1>1, TakenType
<1>7. CASE Reset
  <2>1. /\ UNCHANGED <<steering, discarded>> /\ resetAt' = Len(accepted) /\ resetting'
        /\ Taken' = Taken
    BY <1>1, <1>7 DEF Reset, Taken
  <2>2. Channel'
    <3>1. resetAt' <= Len(accepted)
      BY <1>6, <2>1
    <3> QED
      BY <1>1, <2>1, <3>1 DEF Channel
  <2>3. Fates'
    <3>1. resetAt' + 1 .. Taken = {}
      BY <1>6, <2>1
    <3> QED
      BY <1>1, <2>1, <3>1 DEF Fates
  <2> QED
    BY <1>4, <1>5, <2>2, <2>3
<1>8. CASE ResetDrains
  <2>1. /\ steering # <<>> /\ steering' = Tail(steering) /\ resetting /\ resetting' = resetting
        /\ discarded' = discarded \cup {Head(steering)} /\ resetAt' = resetAt
    BY <1>8 DEF ResetDrains, resetVars
  <2>2. /\ Taken' = Taken + 1 /\ Taken + 1 \in DOMAIN accepted
        /\ Head(steering) = accepted[Taken + 1]
        /\ Len(steering') <= Len(accepted)
        /\ \A j \in DOMAIN steering' : steering'[j] = accepted[Taken' + j]
    BY <1>1, <2>1, Departs
  <2> HIDE DEF Taken
  <2>3. Channel'
    BY <1>1, <2>1, <2>2 DEF Channel
  <2>4. Fates'
    <3>1. \A k \in 1..Taken : k \in 1..(Taken + 1)
      BY <1>6
    <3>2. Taken + 1 \in 1..(Taken + 1)
      BY <1>6
    <3>3. \A k \in resetAt + 1 .. Taken + 1 : k \in resetAt + 1 .. Taken \/ k = Taken + 1
      BY <1>6
    <3>4. \A k \in resetAt + 1 .. Taken : accepted[k] \in discarded
      <4>1. ~InHand /\ messages = <<>>
        BY <1>3, <2>1 DEF InHand, SInv, Clearing
      <4>2. \A k : ~Applied(k)
        BY <4>1 DEF Applied, Entries
      <4> QED
        BY <1>1, <4>1, <4>2 DEF Fates
    <3> QED
      BY <1>1, <2>1, <2>2, <3>1, <3>2, <3>3, <3>4 DEF Fates
  <2> QED
    BY <1>4, <1>5, <2>3, <2>4
<1>9. CASE ResetEnds
  <2>1. /\ steering = <<>> /\ UNCHANGED <<steering, discarded>> /\ resetAt' = Len(accepted)
        /\ Taken' = Taken
    BY <1>1, <1>9 DEF ResetEnds, NothingLeft, Taken
  <2>2. Taken = Len(accepted) /\ resetAt' <= Len(accepted) /\ resetAt' <= Taken
    BY <1>6, <2>1
  <2> HIDE DEF Taken
  <2>3. Channel'
    BY <1>1, <2>1, <2>2 DEF Channel
  <2>4. Fates'
    <3>1. resetAt' + 1 .. Taken = {}
      BY <1>6, <2>1, <2>2
    <3> QED
      BY <1>1, <2>1, <3>1 DEF Fates
  <2> QED
    BY <1>4, <1>5, <2>3, <2>4
<1> QED
  BY <1>7, <1>8, <1>9

\* What is due at a boundary stays due until the drain is over.
LEMMA DueStep ==
  ASSUME IInv, Channel, Due, [Next]_vars
  PROVE  Due'
<1> USE DEF IInv, TypeOK, recordVars, localVars, steerVars, resetVars, Goto, Leave, Yield
<1> DEFINE Later == {"iterate", "request", "stream"}
<1>0. /\ Taken \in Nat /\ Len(accepted) \in Nat /\ Len(steering) \in Nat
      /\ Taken + Len(steering) = Len(accepted)
      /\ \A s \in Runs : owed[s] \in Nat
  BY TakenType
<1>1. CASE \/ UNCHANGED <<accepted, steering>>
           \/ steering # <<>> /\ steering' = Tail(steering) /\ accepted' = accepted
           \/ \E m \in Steers : Steer(m)
  <2>1. Len(accepted') \in Nat /\ Taken' \in Nat
        /\ Taken <= Taken' /\ Len(accepted) <= Len(accepted')
    <3>1. ASSUME UNCHANGED <<accepted, steering>>
          PROVE  Taken' = Taken /\ Len(accepted') = Len(accepted)
      BY <3>1 DEF Taken
    <3>2. ASSUME steering # <<>>, steering' = Tail(steering), accepted' = accepted
          PROVE  Taken' = Taken + 1 /\ Len(accepted') = Len(accepted)
      BY <3>2, Departs
    <3>3. ASSUME NEW m \in Steers, Steer(m)
          PROVE  Taken' = Taken /\ Len(accepted') = Len(accepted) + 1
      BY <3>3, Arrives
    <3> HIDE DEF IInv, TypeOK, Taken
    <3>4. \/ Taken' = Taken /\ Len(accepted') = Len(accepted)
          \/ Taken' = Taken + 1 /\ Len(accepted') = Len(accepted)
          \/ Taken' = Taken /\ Len(accepted') = Len(accepted) + 1
      BY <1>1, <3>1, <3>2, <3>3
    <3> QED
      BY <1>0, <3>4
  <2> HIDE DEF Taken
  <2>2. ASSUME \A s \in Runs : owed'[s] = owed[s] /\ (pc'[s] \in Later => pc[s] \in Later)
        PROVE  Due'
    <3> HIDE DEF IInv, TypeOK
    <3>1. ASSUME NEW s \in Runs
          PROVE  owed[s] <= Len(accepted') /\ (pc[s] \in Later => owed[s] <= Taken')
      <4>1. /\ owed[s] \in Nat /\ owed[s] <= Len(accepted)
            /\ pc[s] \in Later => owed[s] <= Taken
        BY <1>0 DEF Due
      <4> QED
        BY <1>0, <2>1, <4>1
    <3> QED
      BY <2>2, <3>1 DEF Due
  <2>3. ASSUME NEW r \in Runs, accepted' = accepted, owed'[r] = Len(accepted),
               pc'[r] \notin Later,
               \A s \in Runs \ {r} : owed'[s] = owed[s] /\ pc'[s] = pc[s]
        PROVE  Due'
    <3>1. owed'[r] <= Len(accepted')
      BY <1>0, <2>3
    <3>2. ASSUME NEW s \in Runs \ {r}
          PROVE  owed'[s] <= Len(accepted') /\ (pc'[s] \in Later => owed'[s] <= Taken')
      <4> HIDE DEF IInv, TypeOK
      <4>1. /\ owed'[s] = owed[s] /\ pc'[s] = pc[s] /\ owed[s] \in Nat
            /\ owed[s] <= Len(accepted) /\ (pc[s] \in Later => owed[s] <= Taken)
        BY <1>0, <2>3 DEF Due
      <4> QED
        BY <1>0, <2>1, <4>1
    <3> QED
      BY <2>3, <3>1, <3>2 DEF Due
  <2>4. ASSUME NEW r \in Runs, DrainEnds(r) PROVE Due'
    <3>1. Taken = Len(accepted) /\ UNCHANGED <<accepted, steering, owed>>
          /\ \A s \in Runs \ {r} : pc'[s] = pc[s]
      BY <1>0, <2>4 DEF DrainEnds, Drained
    <3>2. Taken' = Taken
      BY <3>1 DEF Taken
    <3> QED
      BY <1>0, <3>1, <3>2 DEF Due
  <2>5. ASSUME NEW r \in Runs, Begin(r) \/ AppendResults(r) PROVE Due'
    <3>1. \/ /\ owed'[r] = Len(accepted) /\ pc'[r] \notin Later
          \/ /\ owed' = owed /\ pc'[r] \notin Later
      BY <2>5 DEF Begin, AppendResults, AtBoundary
    <3>2. accepted' = accepted /\ \A s \in Runs \ {r} : owed'[s] = owed[s] /\ pc'[s] = pc[s]
      BY <2>5 DEF Begin, AppendResults, AtBoundary
    <3> QED
      BY <2>2, <2>3, <3>1, <3>2
  <2>6. ASSUME NEW r \in Runs,
               \/ MarkRunning(r) \/ Refuse(r) \/ MarkIdle(r) \/ TakeSteering(r)
               \/ KeepSteering(r) \/ DiscardSteering(r)
        PROVE  Due'
    BY <2>2, <2>6 DEF MarkRunning, Refuse, MarkIdle, TakeSteering, KeepSteering,
                      DiscardSteering
  <2>7. ASSUME NEW r \in Runs,
               \/ IterationStart(r) \/ BuildRequest(r) \/ StreamFails(r)
               \/ \E n \in 0..MaxCalls : StreamEnds(r, n)
        PROVE  Due'
    BY <2>2, <2>7 DEF IterationStart, BuildRequest, StreamFails, StreamEnds
  <2>8. ASSUME NEW r \in Runs, LogCall(r) \/ LogBatch(r) \/ BatchAborts(r)
        PROVE  Due'
    BY <2>2, <2>8 DEF LogCall, LogBatch, BatchAborts
  <2>9. ASSUME \/ \E m \in Steers : Steer(m) \/ SteerGivesUp(m)
               \/ Reset \/ ResetDrains \/ ResetEnds \/ UNCHANGED vars
        PROVE  Due'
    BY <2>2, <2>9 DEF Steer, SteerGivesUp, Reset, ResetDrains, ResetEnds, vars
  <2> QED
    BY <2>4, <2>5, <2>6, <2>7, <2>8, <2>9 DEF Next, Step, Finished
<1>2. \/ UNCHANGED <<accepted, steering>>
      \/ steering # <<>> /\ steering' = Tail(steering) /\ accepted' = accepted
      \/ \E m \in Steers : Steer(m)
  <2>1. \/ Aside
        \/ \E r \in Runs : TakeSteering(r) \/ KeepSteering(r) \/ DiscardSteering(r)
        \/ \E m \in Steers : Steer(m)
        \/ Reset \/ ResetDrains \/ ResetEnds
    BY SteeringMoves
  <2> QED
    BY <2>1 DEF Aside, TakeSteering, KeepSteering, DiscardSteering, Forget, Reset,
                ResetDrains, ResetEnds
<1> QED
  BY <1>1, <1>2

-----------------------------------------------------------------------------
\* A fresh agent, with an empty channel.
LEMMA InitSteering == Init => SInv
<1> SUFFICES ASSUME Init PROVE SInv
  OBVIOUS
<1>1. /\ accepted = <<>> /\ steering = <<>> /\ discarded = {} /\ messages = <<>>
      /\ resetAt = 0 /\ ~resetting
      /\ \A m \in Steers : steer[m] = "calling"
      /\ \A r \in Runs : pc[r] = "new" /\ owed[r] = 0 /\ inHand[r] = NoSteer
  BY DEF Init
<1>2. /\ Len(accepted) = 0 /\ Len(steering) = 0 /\ Taken = 0
      /\ DOMAIN accepted = {} /\ DOMAIN steering = {} /\ Entries("steering") = {}
      /\ resetAt + 1 .. Taken = {}
  BY <1>1 DEF Taken, Entries
<1> HIDE DEF Taken
<1>3. Channel /\ Clearing
  BY <1>1, <1>2 DEF Channel, Clearing
<1>4. Hand /\ Fates /\ Due
  BY <1>1, <1>2 DEF Hand, Fates, Due
<1>5. Sources /\ Ordered
  BY <1>2 DEF Sources, Ordered
<1> QED
  BY <1>3, <1>4, <1>5 DEF SInv

\* The steering invariant is inductive, given the loop's and the transcript's.
LEMMA NextSteering == IInv /\ Answers /\ SInv /\ [Next]_vars => SInv'
<1> SUFFICES ASSUME IInv, Answers, SInv, [Next]_vars PROVE SInv'
  OBVIOUS
<1>1. Clearing' /\ Due'
  BY ClearingStep, DueStep DEF SInv
<1>2. Channel' /\ Hand' /\ Fates' /\ Sources' /\ Ordered'
  BY SteeringMoves, AsideKeeps, TakeKeeps, KeepKeeps, DiscardKeeps, SteerKeeps, ResetKeeps
<1> QED
  BY <1>1, <1>2 DEF SInv

\* The invariant holds throughout.
LEMMA SteeringHolds == Spec => [](IInv /\ SInv)
<1>1. Records => Answers
  BY DEF Records
<1> QED
  BY <1>1, Inductive, RecordsHold, InitSteering, NextSteering, PTL DEF Spec

\* A message's position is the one place it has among the accepted.
LEMMA PositionOf ==
  ASSUME Channel, NEW k \in DOMAIN accepted
  PROVE  Position(accepted[k]) = k
BY DEF Channel, Position

\* What Steer delivered before a run's boundary is in the transcript when the next
\* request is built, unless OnSteering or Reset disposed of it.
THEOREM DeliveredOnTime == Spec => []SteeringOnTime
<1>1. ASSUME IInv, SInv PROVE SteeringOnTime
  <2>1. ASSUME NEW r \in Runs, pc[r] \in {"iterate", "request", "stream"},
               NEW k \in resetAt + 1 .. owed[r]
        PROVE  accepted[k] \in discarded \/ Applied(k)
    <3>1. owed[r] <= Taken /\ owed[r] \in Nat /\ Taken \in Nat /\ resetAt \in Nat
      BY <1>1, <2>1, TakenType DEF SInv, Due, IInv, TypeOK
    <3>2. k \in resetAt + 1 .. Taken
      <4> HIDE DEF Taken
      <4> QED
        BY <3>1
    <3>3. ~InHand
      <4>1. \A s \in Runs \ {r} : ~Inside(s)
        BY <1>1, <2>1, OthersOutside DEF IInv, Inside
      <4> QED
        BY <2>1, <4>1 DEF InHand, Inside
    <3> QED
      BY <1>1, <3>2, <3>3 DEF SInv, Fates
  <2> QED
    BY <2>1 DEF SteeringOnTime, Applied
<1> QED
  BY <1>1, SteeringHolds, PTL

\* Steering is applied in the order the channel took it, at most once, never inside
\* a batch, and never across a Reset.
THEOREM AppliedInOrder == Spec => []SteeringInOrder
<1>1. ASSUME IInv, SInv PROVE SteeringInOrder
  <2>1. ASSUME NEW i \in Entries("steering")
        PROVE  \E k \in DOMAIN accepted :
                 messages[i].of = accepted[k] /\ Position(messages[i].of) = k /\ k > resetAt
    <3>1. PICK k \in resetAt + 1 .. Taken : messages[i].of = accepted[k]
      BY <1>1 DEF SInv, Sources
    <3>2. k \in DOMAIN accepted /\ k > resetAt
      <4>1. /\ Taken \in Nat /\ Taken <= Len(accepted) /\ Len(accepted) \in Nat
            /\ DOMAIN accepted = 1..Len(accepted) /\ resetAt \in Nat
        BY <1>1, TakenType DEF SInv, IInv
      <4> HIDE DEF Taken
      <4> QED
        BY <3>1, <4>1
    <3> QED
      BY <1>1, <3>1, <3>2, PositionOf DEF SInv
  <2>2. ASSUME NEW i \in Entries("steering"), NEW j \in Entries("steering"), i < j
        PROVE  Position(messages[i].of) < Position(messages[j].of)
    <3>1. PICK k \in DOMAIN accepted :
            messages[i].of = accepted[k] /\ Position(messages[i].of) = k
      BY <2>1
    <3>2. PICK l \in DOMAIN accepted :
            messages[j].of = accepted[l] /\ Position(messages[j].of) = l
      BY <2>1
    <3> QED
      BY <1>1, <2>2, <3>1, <3>2 DEF SInv, Ordered
  <2> QED
    BY <1>1, <2>1, <2>2 DEF SInv, Sources, SteeringInOrder
<1> QED
  BY <1>1, SteeringHolds, PTL

\* A set that holds nothing but x, or nothing at all.
LEMMA SizeOfOne == Cardinality({}) = 0 /\ \A x : Cardinality({x}) = 1
BY FS_Singleton, FS_EmptySet

\* A message that Steer delivered, and no Reset cleared, is in exactly one place: in
\* the channel, in hand, in the transcript, or discarded; one it gave up is in none.
THEOREM NeverLostOrTwice == Spec => []SteeringConserved
<1>1. ASSUME IInv, SInv PROVE SteeringConserved
  <2>1. /\ Channel /\ Hand /\ Fates /\ Sources /\ Ordered
        /\ Taken \in Nat /\ Len(accepted) \in Nat /\ Len(steering) \in Nat
        /\ Taken + Len(steering) = Len(accepted) /\ resetAt \in Nat
        /\ DOMAIN accepted = 1..Len(accepted) /\ DOMAIN steering = 1..Len(steering)
        /\ discarded \subseteq Steers /\ NoSteer \notin Steers
    BY <1>1, TakenType, AgentAssumption DEF AgentAssumption, SInv, IInv, TypeOK
  <2>2. /\ \A j \in DOMAIN steering : Taken + j \in DOMAIN accepted
        /\ \A k \in 1..Taken : k \in DOMAIN accepted
        /\ \A k \in resetAt + 1 .. Taken : k \in 1..Taken
    <3> HIDE DEF Taken
    <3> QED
      BY <2>1
  <2>3. ASSUME NEW m \in Steers
        PROVE  LET waits == {j \in DOMAIN steering : steering[j] = m}
                   held  == {r \in Runs : inHand[r] = m}
                   done  == {i \in Entries("steering") : messages[i].of = m}
                   total == Cardinality(waits) + Cardinality(held) + Cardinality(done)
                            + (IF m \in discarded THEN 1 ELSE 0)
               IN  /\ steer[m] # "sent" => total = 0
                   /\ steer[m] = "sent" /\ Position(m) > resetAt => total = 1
    <3> DEFINE waits == {j \in DOMAIN steering : steering[j] = m}
               held  == {r \in Runs : inHand[r] = m}
               done  == {i \in Entries("steering") : messages[i].of = m}
               total == Cardinality(waits) + Cardinality(held) + Cardinality(done)
                        + (IF m \in discarded THEN 1 ELSE 0)
    <3> HIDE DEF Taken
    \* Where m is, it was accepted.
    <3>1. /\ \A j \in waits : accepted[Taken + j] = m
          /\ \A r \in held : pc[r] = "inHand" /\ accepted[Taken] = m /\ resetAt < Taken
                             /\ m \notin discarded
          /\ \A i \in done : m \notin discarded /\ \E k \in resetAt + 1 .. Taken :
                               accepted[k] = m /\ (InHand => k < Taken)
          /\ m \in discarded => \E k \in 1..Taken : accepted[k] = m
      <4>1. \A j \in waits : accepted[Taken + j] = m
        BY <2>1 DEF Channel
      <4>2. \A r \in held : pc[r] = "inHand" /\ accepted[Taken] = m /\ resetAt < Taken
                            /\ m \notin discarded
        BY <2>1 DEF Hand
      <4>3. \A i \in done : m \notin discarded /\ \E k \in resetAt + 1 .. Taken :
                              accepted[k] = m /\ (InHand => k < Taken)
        BY <2>1 DEF Sources
      <4>4. m \in discarded => \E k \in 1..Taken : accepted[k] = m
        BY <2>1 DEF Fates
      <4> QED
        BY <4>1, <4>2, <4>3, <4>4
    <3> HIDE DEF total
    <3>2. ASSUME steer[m] # "sent" PROVE total = 0
      <4>1. \A k \in DOMAIN accepted : accepted[k] # m
        BY <2>1, <3>2 DEF Channel
      <4>2. waits = {} /\ m \notin discarded /\ done = {}
        BY <2>2, <3>1, <4>1
      <4>3. held = {}
        <5>1. resetAt < Taken => Taken \in DOMAIN accepted
          BY <2>1
        <5> QED
          BY <3>1, <4>1, <5>1
      <4> HIDE DEF waits, held, done
      <4> QED
        BY <4>2, <4>3, SizeOfOne DEF total
    <3>3. ASSUME steer[m] = "sent", Position(m) > resetAt PROVE total = 1
      <4>1. PICK p \in DOMAIN accepted : accepted[p] = m
        BY <2>1, <3>3 DEF Channel
      <4>2. /\ p \in Nat /\ p > resetAt
            /\ \A k \in DOMAIN accepted : accepted[k] = m => k = p
        BY <2>1, <3>3, <4>1, PositionOf DEF Channel
      <4> HIDE DEF waits, held, done
      <4>3. /\ \A j \in waits : j \in 1..Len(steering) /\ Taken + j = p
            /\ held # {} => Taken = p
            /\ \A i \in done : p <= Taken /\ (InHand => p < Taken)
            /\ m \in discarded => p <= Taken
        <5>1. \A j \in waits : j \in DOMAIN steering /\ Taken + j = p
          BY <2>2, <3>1, <4>2 DEF waits
        <5>2. held # {} => Taken = p
          <6>1. resetAt < Taken => Taken \in DOMAIN accepted
            BY <2>1
          <6> QED
            BY <3>1, <4>2, <6>1
        <5>3. \A i \in done : p <= Taken /\ (InHand => p < Taken)
          <6>1. ASSUME NEW i \in done PROVE p <= Taken /\ (InHand => p < Taken)
            <7>1. PICK k \in resetAt + 1 .. Taken : accepted[k] = m /\ (InHand => k < Taken)
              BY <3>1
            <7>2. k = p /\ k <= Taken
              BY <2>1, <2>2, <4>2, <7>1
            <7> QED
              BY <7>1, <7>2
          <6> QED
            BY <6>1
        <5>4. m \in discarded => p <= Taken
          <6>1. ASSUME NEW k \in 1..Taken, accepted[k] = m PROVE p <= Taken
            <7>1. k = p /\ k <= Taken
              BY <2>1, <2>2, <4>2, <6>1
            <7> QED
              BY <7>1
          <6> QED
            BY <3>1, <6>1
        <5> QED
          BY <2>1, <5>1, <5>2, <5>3, <5>4
      <4>4. CASE p > Taken
        <5>1. p - Taken \in DOMAIN steering /\ Taken + (p - Taken) = p
          BY <2>1, <4>1, <4>2, <4>4
        <5>2. p - Taken \in waits
          BY <2>1, <4>1, <5>1 DEF Channel, waits
        <5>3. \A j \in waits : j = p - Taken
          BY <2>1, <4>2, <4>3
        <5>4. waits = {p - Taken}
          BY <5>2, <5>3
        <5>5. held = {} /\ done = {} /\ m \notin discarded
          BY <2>1, <4>2, <4>3, <4>4
        <5>6. Cardinality(waits) = 1
          BY <5>4, SizeOfOne, Zenon
        <5> QED
          BY <5>5, <5>6, SizeOfOne DEF total
      <4>5. CASE p <= Taken
        <5>1. waits = {}
          <6>1. ASSUME NEW j \in waits PROVE FALSE
            BY <2>1, <4>2, <4>3, <4>5
          <6> QED
            BY <6>1
        <5>2. p \in resetAt + 1 .. Taken
          BY <2>1, <4>2, <4>5
        <5>3. m \in discarded \/ Applied(p) \/ (InHand /\ p = Taken)
          BY <2>1, <4>1, <5>2 DEF Fates
        <5>4. CASE m \in discarded
          <6>1. held = {} /\ done = {}
            BY <3>1, <5>4 DEF held, done
          <6> QED
            BY <5>1, <5>4, <6>1, SizeOfOne DEF total
        <5>5. CASE InHand /\ p = Taken
          <6>1. PICK r \in Runs : pc[r] = "inHand"
            BY <5>5 DEF InHand
          <6>2. inHand[r] = m /\ m \notin discarded
            BY <2>1, <4>1, <5>5, <6>1 DEF Hand
          <6>3. \A s \in Runs \ {r} : inHand[s] = NoSteer
            BY <1>1, <2>1, <6>1, OneHand DEF Hand
          <6>4. held = {r}
            BY <2>1, <6>2, <6>3 DEF held
          <6>5. done = {}
            BY <2>1, <4>2, <4>3, <5>5
          <6>6. Cardinality(held) = 1
            BY <6>4, SizeOfOne, Zenon
          <6> QED
            BY <5>1, <6>2, <6>5, <6>6, SizeOfOne DEF total
        <5>6. CASE Applied(p)
          <6>1. PICK i \in Entries("steering") : messages[i].of = m
            BY <4>1, <5>6 DEF Applied
          <6>2. i \in done
            BY <6>1 DEF done
          <6>3. ASSUME NEW j \in done PROVE j = i
            <7>1. j \in Entries("steering") /\ messages[j].of = m
              BY DEF done
            <7>2. ~(i < j) /\ ~(j < i)
              <8>1. ~(p < p)
                BY <4>2
              <8> QED
                BY <2>1, <4>1, <6>1, <7>1, <8>1 DEF Ordered
            <7>3. i \in Nat /\ j \in Nat
              BY <1>1, <6>1, <7>1 DEF Entries, IInv, TypeOK
            <7> QED
              BY <7>2, <7>3
          <6>4. done = {i}
            BY <6>2, <6>3
          <6>5. m \notin discarded
            BY <3>1, <6>2 DEF done
          <6>6. held = {}
            <7>1. held # {} => InHand
              BY <3>1 DEF InHand, held
            <7> QED
              BY <2>1, <4>2, <4>3, <6>2, <7>1
          <6> QED
            BY <5>1, <6>4, <6>5, <6>6, SizeOfOne DEF total
        <5> QED
          BY <5>3, <5>4, <5>5, <5>6
      <4> QED
        BY <2>1, <4>2, <4>4, <4>5
    <3> QED
      BY <3>2, <3>3 DEF total, waits, held, done
  <2> QED
    BY <2>3 DEF SteeringConserved
<1> QED
  BY <1>1, SteeringHolds, PTL

-----------------------------------------------------------------------------
(* Part 4: every run runs out of steps.                                    *)

\* How much a run has still to do, in three parts: the iterations it has left, the
\* stage of the one it is in, and, where it repeats a step, how often it still can.
IterationsLeft(r) ==
  IF pc[r] \in Before THEN MaxIterations + 1 ELSE MaxIterations - it[r]

StageNumber(place) ==
  CASE place = "new"      -> 10
    [] place = "marked"   -> 9
    [] place = "boundary" -> 8
    [] place = "inHand"   -> 8
    [] place = "iterate"  -> 7
    [] place = "request"  -> 6
    [] place = "stream"   -> 5
    [] place = "tools"    -> 4
    [] place = "results"  -> 3
    [] place = "leaving"  -> 2
    [] OTHER              -> 1

RepeatsLeft(r) ==
  IF pc[r] = "boundary" THEN 2 * Len(steering)
  ELSE IF pc[r] = "inHand" THEN 2 * Len(steering) + 1
  ELSE IF pc[r] = "tools" THEN Batch - logged[r]
  ELSE 0

\* The run has less to do than before, in this order of importance.
Closer(r) ==
  \/ IterationsLeft(r)' < IterationsLeft(r)
  \/ /\ IterationsLeft(r)' = IterationsLeft(r)
     /\ \/ StageNumber(pc'[r]) < StageNumber(pc[r])
        \/ /\ StageNumber(pc'[r]) = StageNumber(pc[r])
           /\ RepeatsLeft(r)' < RepeatsLeft(r)

AsFar(r) ==
  /\ IterationsLeft(r)' = IterationsLeft(r)
  /\ pc'[r] = pc[r]
  /\ RepeatsLeft(r)' = RepeatsLeft(r)

\* A run that goes on to a later stage of its iteration comes closer.
LEMMA LaterStage ==
  ASSUME NEW r \in Runs, it'[r] = it[r],
         pc[r] \in Before <=> pc'[r] \in Before,
         StageNumber(pc'[r]) < StageNumber(pc[r])
  PROVE  Closer(r)
BY DEF Closer, IterationsLeft

\* So does one that begins its first iteration, or its next.
LEMMA NextIteration ==
  ASSUME TypeOK, NEW r \in Runs, pc'[r] \notin Before, it'[r] \in Nat,
         \/ pc[r] \in Before
         \/ it'[r] = it[r] + 1
  PROVE  Closer(r)
<1>1. MaxIterations \in Nat /\ it[r] \in Nat
  BY AgentAssumption DEF AgentAssumption, TypeOK
<1>2. CASE pc[r] \in Before
  BY <1>1, <1>2 DEF Closer, IterationsLeft
<1>3. CASE pc[r] \notin Before
  BY <1>1, <1>3 DEF Closer, IterationsLeft
<1> QED
  BY <1>2, <1>3

\* And one that takes a message from the channel, places it, or logs a call.
LEMMA OneRepeatLess ==
  ASSUME NEW r \in Runs, it'[r] = it[r],
         pc[r] \notin Before, pc'[r] \notin Before,
         StageNumber(pc'[r]) = StageNumber(pc[r]),
         RepeatsLeft(r)' < RepeatsLeft(r)
  PROVE  Closer(r)
BY DEF Closer, IterationsLeft

\* Each step of a run brings it closer to its end.
LEMMA StepsComeCloser ==
  ASSUME IInv, NEW r \in Runs, Step(r)
  PROVE  Closer(r)
<1>0. /\ pc \in [Runs -> {"new", "refused", "marked", "boundary", "inHand", "iterate",
                          "request", "stream", "tools", "results", "leaving", "left"}]
      /\ it \in [Runs -> 0..MaxIterations] /\ MaxIterations \in Nat
      /\ steering \in Seq(Steers) /\ Len(steering) \in Nat
      /\ TypeOK /\ RunState
  <2>1. TypeOK /\ RunState
    BY DEF IInv
  <2>2. MaxIterations \in Nat
    BY AgentAssumption DEF AgentAssumption
  <2>3. steering \in Seq(Steers) /\ Len(steering) \in Nat
    BY <2>1 DEF TypeOK
  <2> QED
    BY <2>1, <2>2, <2>3 DEF TypeOK
<1> DEFINE Onward(from, to) == pc[r] = from /\ pc'[r] = to /\ it'[r] = it[r]
<1>1. CASE MarkRunning(r) \/ Refuse(r)
  <2>1. Onward("new", "marked") \/ Onward("new", "refused")
    BY <1>0, <1>1 DEF MarkRunning, Refuse, Goto, localVars
  <2> QED
    BY <2>1, LaterStage DEF StageNumber, Before
<1>2. CASE Begin(r)
  <2>1. pc[r] = "marked" /\ pc'[r] \in {"boundary", "leaving"} /\ it'[r] = 1
    BY <1>0, <1>2 DEF Begin, Yield, Goto, Leave
  <2> QED
    BY <1>0, <2>1, NextIteration DEF Before
<1>3. CASE MarkIdle(r)
  <2>1. Onward("leaving", "left")
    BY <1>0, <1>3 DEF MarkIdle, Goto, localVars
  <2> QED
    BY <2>1, LaterStage DEF StageNumber, Before
<1>4. CASE TakeSteering(r)
  <2>1. Onward("boundary", "inHand") /\ steering' = Tail(steering) /\ steering # <<>>
    BY <1>0, <1>4 DEF TakeSteering, Goto
  <2>2. Len(steering') = Len(steering) - 1 /\ Len(steering') \in Nat
    BY <1>0, <2>1
  <2>3. RepeatsLeft(r) = 2 * Len(steering) /\ RepeatsLeft(r)' = 2 * Len(steering') + 1
    BY <2>1 DEF RepeatsLeft
  <2>4. RepeatsLeft(r)' < RepeatsLeft(r)
    BY <1>0, <2>2, <2>3
  <2> QED
    BY <2>1, <2>4, OneRepeatLess DEF StageNumber, Before
<1>5. CASE KeepSteering(r) \/ DiscardSteering(r)
  <2>1. \/ Onward("inHand", "leaving")
        \/ Onward("inHand", "boundary") /\ steering' = steering
    <3>1. CASE KeepSteering(r)
      BY <1>0, <3>1 DEF KeepSteering, Yield, Goto, Leave
    <3>2. CASE DiscardSteering(r)
      BY <1>0, <3>2 DEF DiscardSteering, Forget, Yield, Goto, Leave
    <3> QED
      BY <1>5, <3>1, <3>2
  <2>2. CASE Onward("inHand", "leaving")
    BY <2>2, LaterStage DEF StageNumber, Before
  <2>3. CASE Onward("inHand", "boundary") /\ steering' = steering
    <3>1. RepeatsLeft(r) = 2 * Len(steering) + 1 /\ RepeatsLeft(r)' = 2 * Len(steering)
      BY <2>3 DEF RepeatsLeft
    <3> QED
      BY <1>0, <2>3, <3>1, OneRepeatLess DEF StageNumber, Before
  <2> QED
    BY <2>1, <2>2, <2>3
<1>6. CASE DrainEnds(r) \/ IterationStart(r) \/ BuildRequest(r) \/ StreamFails(r)
  <2>1. \/ Onward("boundary", "iterate") \/ Onward("iterate", "request")
        \/ Onward("iterate", "leaving") \/ Onward("request", "stream")
        \/ Onward("request", "leaving") \/ Onward("stream", "leaving")
    <3>1. CASE DrainEnds(r)
      BY <1>0, <3>1 DEF DrainEnds, Goto, localVars
    <3>2. CASE IterationStart(r)
      BY <1>0, <3>2 DEF IterationStart, Yield, Goto, Leave, localVars
    <3>3. CASE BuildRequest(r)
      BY <1>0, <3>3 DEF BuildRequest, Yield, Goto, Leave
    <3>4. CASE StreamFails(r)
      BY <1>0, <3>4 DEF StreamFails, Leave, localVars
    <3> QED
      BY <1>6, <3>1, <3>2, <3>3, <3>4
  <2> QED
    BY <2>1, LaterStage DEF StageNumber, Before
<1>7. ASSUME NEW n \in 0..MaxCalls, StreamEnds(r, n) PROVE Closer(r)
  <2>1. Onward("stream", "leaving") \/ Onward("stream", "tools")
    BY <1>0, <1>7 DEF StreamEnds, Goto, Leave
  <2> QED
    BY <2>1, LaterStage DEF StageNumber, Before
<1>8. CASE LogCall(r)
  <2>1. /\ Onward("tools", "tools") /\ messages' = messages
        /\ logged[r] < Batch /\ logged'[r] = logged[r] + 1
    BY <1>0, <1>8 DEF LogCall, TypeOK
  <2>2. Batch \in Nat /\ logged[r] \in Nat /\ Batch' = Batch
    <3>1. Batch \in 1..MaxCalls /\ MaxCalls \in Nat
      BY <1>0, <2>1, BatchType, AgentAssumption DEF AgentAssumption
    <3>2. logged[r] \in 0..MaxCalls
      BY <1>0 DEF TypeOK
    <3>3. Batch' = Batch
      BY <2>1 DEF Batch
    <3> QED
      BY <3>1, <3>2, <3>3
  <2>3. RepeatsLeft(r) = Batch - logged[r] /\ RepeatsLeft(r)' = Batch - logged'[r]
    BY <2>1, <2>2 DEF RepeatsLeft
  <2> QED
    BY <2>1, <2>2, <2>3, OneRepeatLess DEF Before
<1>9. CASE LogBatch(r) \/ BatchAborts(r)
  <2>1. Onward("tools", "results") \/ Onward("tools", "leaving")
    <3>1. CASE LogBatch(r)
      BY <1>0, <3>1 DEF LogBatch, Goto
    <3>2. CASE BatchAborts(r)
      BY <1>0, <3>2 DEF BatchAborts, Leave, localVars
    <3> QED
      BY <1>9, <3>1, <3>2
  <2> QED
    BY <2>1, LaterStage DEF StageNumber, Before
<1>10. CASE AppendResults(r)
  <2>1. pc[r] \in {"tools", "results"}
    BY <1>10 DEF AppendResults
  <2>2. \/ pc'[r] = "leaving" /\ it'[r] = it[r]
        \/ pc'[r] = "boundary" /\ it'[r] = it[r] + 1
    BY <1>0, <1>10 DEF AppendResults, Goto, Leave
  <2>3. CASE pc'[r] = "leaving" /\ it'[r] = it[r]
    BY <2>1, <2>3, LaterStage DEF StageNumber, Before
  <2>4. CASE pc'[r] = "boundary" /\ it'[r] = it[r] + 1
    BY <1>0, <2>1, <2>4, NextIteration DEF Before
  <2> QED
    BY <2>2, <2>3, <2>4
<1> QED
  BY <1>1, <1>2, <1>3, <1>4, <1>5, <1>6, <1>7, <1>8, <1>9, <1>10 DEF Step

\* A Steer gets into the channel a run is draining.
OneMoreToTake(r) == pc[r] \in {"boundary", "inHand"} /\ \E m \in Steers : Steer(m)

\* What is left is counted in natural numbers, so a run cannot come closer for ever.
LeftCounted(r) == IterationsLeft(r) \in 0..MaxIterations + 1 /\ RepeatsLeft(r) \in Nat

LEMMA LeftIsNatural ==
  ASSUME IInv, NEW r \in Runs
  PROVE  LeftCounted(r)
<1>0. /\ MaxIterations \in Nat /\ it[r] \in 0..MaxIterations
      /\ Len(steering) \in Nat /\ logged[r] \in Nat
  BY AgentAssumption DEF AgentAssumption, IInv, TypeOK
<1>1. IterationsLeft(r) \in 0..MaxIterations + 1
  BY <1>0 DEF IterationsLeft
<1>2. CASE pc[r] = "tools"
  <2>1. Batch \in 1..MaxCalls /\ MaxCalls \in Nat
    BY <1>2, BatchType, AgentAssumption DEF AgentAssumption, IInv
  <2>2. logged[r] <= Batch
    BY <1>2 DEF IInv, RunState
  <2>3. Batch - logged[r] \in Nat
    BY <1>0, <2>1, <2>2
  <2> QED
    BY <1>1, <1>2, <2>3 DEF LeftCounted, RepeatsLeft
<1>3. CASE pc[r] # "tools"
  <2>1. 2 * Len(steering) \in Nat /\ 2 * Len(steering) + 1 \in Nat
    BY <1>0
  <2> QED
    BY <1>1, <1>3, <2>1 DEF LeftCounted, RepeatsLeft
<1> QED
  BY <1>2, <1>3

\* What others change of the channel and the transcript is no matter to a run that
\* is not draining or executing calls.
LEMMA NotConcerned ==
  ASSUME NEW r \in Runs, pc'[r] = pc[r], it'[r] = it[r], logged'[r] = logged[r],
         pc[r] \in {"boundary", "inHand"} => steering' = steering,
         pc[r] = "tools" => messages' = messages
  PROVE  AsFar(r)
BY DEF AsFar, IterationsLeft, RepeatsLeft, Batch

\* A run's step leaves every other run as far as it was.
LEMMA OthersStayAsFar ==
  ASSUME IInv, NEW r \in Runs, NEW s \in Runs \ {r}, Step(s)
  PROVE  AsFar(r)
<1>1. pc'[r] = pc[r] /\ it'[r] = it[r] /\ logged'[r] = logged[r]
  <2> USE DEF IInv, TypeOK, Goto, Leave, Yield, localVars
  <2>1. CASE MarkRunning(s) \/ Refuse(s) \/ Begin(s) \/ MarkIdle(s)
    BY <2>1 DEF MarkRunning, Refuse, Begin, MarkIdle
  <2>2. CASE TakeSteering(s) \/ KeepSteering(s) \/ DiscardSteering(s) \/ DrainEnds(s)
    BY <2>2 DEF TakeSteering, KeepSteering, DiscardSteering, DrainEnds
  <2>3. CASE IterationStart(s) \/ BuildRequest(s) \/ StreamFails(s)
    BY <2>3 DEF IterationStart, BuildRequest, StreamFails
  <2>4. ASSUME NEW n \in 0..MaxCalls, StreamEnds(s, n)
        PROVE  pc'[r] = pc[r] /\ it'[r] = it[r] /\ logged'[r] = logged[r]
    BY <2>4 DEF StreamEnds
  <2>5. CASE LogCall(s) \/ LogBatch(s) \/ BatchAborts(s)
    BY <2>5 DEF LogCall, LogBatch, BatchAborts
  <2>6. CASE AppendResults(s)
    BY <2>6 DEF AppendResults
  <2> QED
    BY <2>1, <2>2, <2>3, <2>4, <2>5, <2>6 DEF Step
<1>2. CASE Inside(s)
  <2>1. ~Inside(r)
    BY <1>2, OthersOutside DEF IInv
  <2> QED
    BY <1>1, <2>1, NotConcerned DEF Inside
<1>3. CASE ~Inside(s)
  <2>1. MarkRunning(s) \/ Refuse(s)
    BY <1>3 DEF Step, Inside, MarkRunning, Refuse, Begin, MarkIdle, TakeSteering,
       KeepSteering, DiscardSteering, DrainEnds, IterationStart, BuildRequest,
       StreamFails, StreamEnds, LogCall, LogBatch, BatchAborts, AppendResults
  <2>2. steering' = steering /\ messages' = messages
    BY <2>1 DEF MarkRunning, Refuse, recordVars
  <2> QED
    BY <1>1, <2>2, NotConcerned
<1> QED
  BY <1>2, <1>3

\* Reset and its drain find nobody inside.
LEMMA ResetsStayAsFar ==
  ASSUME IInv, Clearing, NEW r \in Runs, Reset \/ ResetDrains \/ ResetEnds
  PROVE  AsFar(r)
<1>1. ~running
  BY DEF Reset, MayReset, ResetDrains, ResetEnds, Clearing
<1>2. pc[r] \in {"new", "refused", "left"}
  BY <1>1 DEF IInv, RunExclusion, Inside
<1>3. pc' = pc /\ it' = it /\ logged' = logged
  BY DEF Reset, ResetDrains, ResetEnds, localVars
<1> QED
  BY <1>2, <1>3, NotConcerned

\* So no step of anybody keeps a run from coming to its end, but a Steer that gives
\* it one more message to take.
LEMMA NobodyHoldsBack ==
  ASSUME IInv, Clearing, NEW r \in Runs, [Next]_vars
  PROVE  Closer(r) \/ AsFar(r) \/ OneMoreToTake(r)
<1>1. ASSUME NEW s \in Runs, Step(s) PROVE Closer(r) \/ AsFar(r)
  BY <1>1, StepsComeCloser, OthersStayAsFar
<1>2. ASSUME NEW m \in Steers, SteerGivesUp(m) PROVE AsFar(r)
  BY <1>2, NotConcerned DEF SteerGivesUp, recordVars, localVars
<1>3. ASSUME UNCHANGED vars PROVE AsFar(r)
  BY <1>3, NotConcerned DEF vars, recordVars, localVars
<1>4. ASSUME NEW m \in Steers, Steer(m) PROVE AsFar(r) \/ OneMoreToTake(r)
  <2>1. CASE pc[r] \in {"boundary", "inHand"}
    BY <1>4, <2>1 DEF OneMoreToTake
  <2>2. CASE pc[r] \notin {"boundary", "inHand"}
    BY <1>4, <2>2, NotConcerned DEF Steer, recordVars, localVars
  <2> QED
    BY <2>1, <2>2
<1> QED
  BY <1>1, <1>2, <1>3, <1>4, ResetsStayAsFar DEF Next, Finished

-----------------------------------------------------------------------------
\* Every step of a run takes it closer to its end, of which it is never more than
\* MaxIterations iterations away; and nobody else takes it further away, except a Steer
\* that gets into the channel it drains, of which there are as many as callers make: a
\* run cannot go on for ever.
THEOREM RunsRunOut ==
  Spec => /\ [](\A r \in Runs : LeftCounted(r))
          /\ [][\A r \in Runs :
                  /\ Step(r) => Closer(r)
                  /\ Closer(r) \/ AsFar(r) \/ OneMoreToTake(r)]_vars
<1>1. IInv => \A r \in Runs : LeftCounted(r)
  BY LeftIsNatural
<1>2. IInv /\ SInv /\ [Next]_vars =>
        [\A r \in Runs :
            /\ Step(r) => Closer(r)
            /\ Closer(r) \/ AsFar(r) \/ OneMoreToTake(r)]_vars
  BY StepsComeCloser, NobodyHoldsBack DEF SInv
<1> QED
  BY <1>1, <1>2, SteeringHolds, PTL DEF Spec
=============================================================================

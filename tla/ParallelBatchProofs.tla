------------------------ MODULE ParallelBatchProofs ------------------------
(***************************************************************************)
(* Proofs about ParallelBatch, for any number of calls, any delta buffer   *)
(* and any number of deltas.  IInv is inductive: Stages says what each     *)
(* stage hands to the next, and OneOutcomePerCall that no outcome is lost  *)
(* or doubled on its way from a goroutine to the results.  The last part   *)
(* counts what is left to do: the batch cannot go on for ever.             *)
(***************************************************************************)
EXTENDS ParallelBatch, FiniteSetTheorems, TLAPS

\* The inductive invariant.  Stages is what makes the others inductive: it says
\* what each stage of the batch leaves to the next.
IInv == TypeOK /\ OneOutcomePerCall /\ Stages

-----------------------------------------------------------------------------
\* What a send and a receive do to the calls found in a channel of outcomes.
LEMMA SendCalls ==
  ASSUME NEW s \in Seq(Outcome), NEW o \in Outcome
  PROVE  /\ Append(s, o) \in Seq(Outcome)
         /\ CallsIn(Append(s, o)) = CallsIn(s) \cup {o.call}
         /\ Distinct(s) /\ o.call \notin CallsIn(s) => Distinct(Append(s, o))
<1>1. /\ Append(s, o) \in Seq(Outcome)
      /\ Len(s) \in Nat /\ DOMAIN s = 1..Len(s)
      /\ DOMAIN Append(s, o) = 1..Len(s) + 1
      /\ \A i \in 1..Len(s) : Append(s, o)[i] = s[i]
      /\ Append(s, o)[Len(s) + 1] = o
  OBVIOUS
<1>2. 1..Len(s) + 1 = (1..Len(s)) \cup {Len(s) + 1}
  BY <1>1
<1>3. CallsIn(Append(s, o)) = CallsIn(s) \cup {o.call}
  BY <1>1, <1>2 DEF CallsIn
<1>4. Distinct(s) /\ o.call \notin CallsIn(s) => Distinct(Append(s, o))
  BY <1>1, <1>2 DEF Distinct, CallsIn
<1> QED
  BY <1>1, <1>3, <1>4

\* Taking the first outcome off a channel takes exactly that call out of it.
LEMMA ReceiveCalls ==
  ASSUME NEW s \in Seq(Outcome), s # <<>>, Distinct(s)
  PROVE  /\ Head(s) \in Outcome /\ Head(s).call \in CallsIn(s)
         /\ Tail(s) \in Seq(Outcome)
         /\ CallsIn(Tail(s)) = CallsIn(s) \ {Head(s).call}
         /\ Distinct(Tail(s))
<1>1. /\ Tail(s) \in Seq(Outcome) /\ Head(s) = s[1] /\ Head(s) \in Outcome
      /\ Len(s) \in Nat \ {0} /\ DOMAIN s = 1..Len(s)
      /\ DOMAIN Tail(s) = 1..Len(s) - 1
      /\ \A i \in 1..Len(s) - 1 : Tail(s)[i] = s[i + 1]
  OBVIOUS
<1>2. Head(s).call \in CallsIn(s)
  BY <1>1 DEF CallsIn
<1>3. ASSUME NEW i \in 2..Len(s)
      PROVE  i - 1 \in 1..Len(s) - 1 /\ Tail(s)[i - 1] = s[i] /\ s[i].call # s[1].call
  <2>1. i - 1 \in 1..Len(s) - 1 /\ i \in 1..Len(s) /\ 1 \in 1..Len(s) /\ i # 1
    BY <1>1
  <2>2. Tail(s)[i - 1] = s[i]
    BY <1>1, <2>1
  <2> QED
    BY <1>1, <2>1, <2>2 DEF Distinct
<1>4. ASSUME NEW i \in 1..Len(s) - 1
      PROVE  i + 1 \in 2..Len(s) /\ i + 1 \in 1..Len(s) /\ Tail(s)[i] = s[i + 1]
  BY <1>1
<1>5. CallsIn(Tail(s)) \subseteq CallsIn(s) \ {Head(s).call}
  BY <1>1, <1>3, <1>4 DEF CallsIn
<1>6. CallsIn(s) \ {Head(s).call} \subseteq CallsIn(Tail(s))
  <2>1. ASSUME NEW i \in 1..Len(s), s[i].call # s[1].call
        PROVE  s[i].call \in CallsIn(Tail(s))
    <3>1. i \in 2..Len(s)
      BY <1>1, <2>1
    <3> QED
      BY <1>1, <1>3, <3>1 DEF CallsIn
  <2> QED
    BY <1>1, <2>1 DEF CallsIn
<1>7. Distinct(Tail(s))
  <2>1. ASSUME NEW i \in 1..Len(s) - 1, NEW j \in 1..Len(s) - 1,
               Tail(s)[i].call = Tail(s)[j].call
        PROVE  i = j
    <3>1. i + 1 = j + 1
      BY <1>1, <1>4, <2>1 DEF Distinct
    <3> QED
      BY <3>1
  <2> QED
    BY <1>1, <2>1 DEF Distinct
<1> QED
  BY <1>1, <1>2, <1>5, <1>6, <1>7

\* The calls of the message are NumCalls many.
LEMMA CallsFinite == IsFiniteSet(Call) /\ Cardinality(Call) = NumCalls /\ NumCalls \in Nat
BY FS_Interval, ParallelAssumption DEF Call, ParallelAssumption

\* A channel that lacks the outcome of some call has room for it.
LEMMA RoomForOne ==
  ASSUME NEW s \in Seq(Outcome), Distinct(s), NEW c \in Call, c \notin CallsIn(s)
  PROVE  Len(s) < DoneCap
<1> DEFINE f == [i \in 1..Len(s) |-> s[i].call]
<1>1. Len(s) \in Nat /\ DOMAIN s = 1..Len(s) /\ NumCalls \in Nat
  BY ParallelAssumption DEF ParallelAssumption
<1>2. f \in [1..Len(s) -> Call \ {c}]
  <2>1. \A i \in 1..Len(s) : s[i] \in Outcome /\ s[i].call \in CallsIn(s)
    BY <1>1 DEF CallsIn
  <2> QED
    BY <2>1 DEF Outcome
<1>3. /\ IsFiniteSet(1..Len(s)) /\ Cardinality(1..Len(s)) = Len(s)
      /\ IsFiniteSet(Call) /\ Cardinality(Call) = NumCalls
  <2>1. /\ IsFiniteSet(1..Len(s))
        /\ Cardinality(1..Len(s)) = IF 1 > Len(s) THEN 0 ELSE Len(s) - 1 + 1
    BY <1>1, FS_Interval, SMTT(30)
  <2> QED
    BY <1>1, <2>1, CallsFinite
<1>4. IsFiniteSet(Call \ {c}) /\ Cardinality(Call \ {c}) = NumCalls - 1
  BY <1>3, FS_RemoveElement
<1>5. ~ \E i, j \in 1..Len(s) : i # j /\ f[i] = f[j]
  BY <1>1 DEF Distinct
<1>6. ~ (Cardinality(Call \ {c}) < Cardinality(1..Len(s)))
  <2> HIDE DEF f
  <2> QED
    BY <1>2, <1>3, <1>4, <1>5, FS_PigeonHole
<1> QED
  BY <1>1, <1>3, <1>4, <1>6 DEF DoneCap

\* A call whose outcome is received is counted off.
LEMMA CountOff ==
  ASSUME NEW R \in SUBSET Call, NEW c \in Call \ R
  PROVE  /\ Cardinality(Call \ (R \cup {c})) = Cardinality(Call \ R) - 1
         /\ Cardinality(Call \ R) \in 1..NumCalls
<1>1. IsFiniteSet(Call) /\ Cardinality(Call) = NumCalls /\ NumCalls \in Nat
  BY CallsFinite
<1>2. IsFiniteSet(Call \ R) /\ Cardinality(Call \ R) <= NumCalls
  BY <1>1, FS_Subset
<1>3. Cardinality(Call \ R) \in Nat /\ Cardinality(Call \ R) # 0
  BY <1>2, FS_CardinalityType, FS_EmptySet
<1>4. Call \ (R \cup {c}) = (Call \ R) \ {c}
  OBVIOUS
<1>5. Cardinality(Call \ (R \cup {c})) = Cardinality(Call \ R) - 1
  <2>1. c \in Call \ R
    OBVIOUS
  <2>2. Cardinality((Call \ R) \ {c}) = Cardinality(Call \ R) - 1
    BY <1>2, <2>1, FS_RemoveElement
  <2> QED
    BY <1>4, <2>2
<1> QED
  BY <1>1, <1>2, <1>3, <1>5

\* Nothing pending means that every call's outcome was received.
LEMMA AllReceived ==
  ASSUME NEW R \in SUBSET Call
  PROVE  Cardinality(Call \ R) = 0 <=> R = Call
<1>1. IsFiniteSet(Call \ R)
  BY CallsFinite, FS_Subset
<1> QED
  BY <1>1, FS_EmptySet
-----------------------------------------------------------------------------
\* The loop takes an outcome: it moves from the channel to the received ones.
LEMMA ReceiveMoves ==
  ASSUME TypeOK, OneOutcomePerCall, Receive
  PROVE  \E h \in InDone \ Received :
           /\ h \in Call
           /\ InDone' = InDone \ {h} /\ Distinct(done') /\ done' \in Seq(Outcome)
           /\ Received' = Received \cup {h}
           /\ outcomes' \in [Call -> Outcome \cup {NoOutcome}]
           /\ \A c \in Call : outcomes'[c] # NoOutcome => outcomes'[c].call = c
           /\ pending' = Cardinality(Call \ Received') /\ pending' \in 0..NumCalls
           /\ events' \in Seq(Event)
<1> DEFINE h == Head(done).call
<1>1. /\ done \in Seq(Outcome) /\ done # <<>> /\ Distinct(done) /\ done' = Tail(done)
      /\ outcomes' = [outcomes EXCEPT ![h] = Head(done)]
      /\ pending' = pending - 1 /\ pending = Cardinality(Call \ Received)
  BY DEF TypeOK, OneOutcomePerCall, Receive
<1>2. /\ Head(done) \in Outcome /\ h \in InDone /\ h \in Call
      /\ InDone' = InDone \ {h} /\ Distinct(done') /\ done' \in Seq(Outcome)
  BY <1>1, ReceiveCalls DEF InDone, Outcome
<1>3. h \notin Received
  BY <1>2 DEF OneOutcomePerCall
<1>4. /\ outcomes' \in [Call -> Outcome \cup {NoOutcome}]
      /\ outcomes'[h] = Head(done)
      /\ \A c \in Call \ {h} : outcomes'[c] = outcomes[c]
  BY <1>1, <1>2 DEF TypeOK
<1>5. Head(done) # NoOutcome
  BY <1>2 DEF NoOutcome, Call
<1>6. Received' = Received \cup {h}
  BY <1>2, <1>4, <1>5 DEF Received
<1>7. \A c \in Call : outcomes'[c] # NoOutcome => outcomes'[c].call = c
  BY <1>4 DEF OneOutcomePerCall
<1>8. pending' = Cardinality(Call \ Received') /\ pending' \in 0..NumCalls
  <2>1. Received \in SUBSET Call /\ h \in Call \ Received
    BY <1>2, <1>3 DEF Received
  <2>2. /\ Cardinality(Call \ (Received \cup {h})) = Cardinality(Call \ Received) - 1
        /\ Cardinality(Call \ Received) \in 1..NumCalls
    BY <2>1, CountOff
  <2> QED
    BY <1>1, <1>6, <2>2, CallsFinite
<1>9. events' \in Seq(Event)
  <2>1. EndEvent(h) \in Event
    BY <1>2, ParallelAssumption DEF EndEvent, Event, ParallelAssumption
  <2> QED
    BY <2>1 DEF TypeOK, Receive
<1> QED
  BY <1>2, <1>3, <1>4, <1>6, <1>7, <1>8, <1>9

\* It takes a delta.
LEMMA ShowDeltaType ==
  ASSUME TypeOK, ShowDelta
  PROVE  /\ deltas' \in Seq(Event) /\ Len(deltas') <= DeltaBuf
         /\ events' \in Seq(Event)
<1>1. /\ Head(deltas) \in Event /\ deltas' \in Seq(Event)
      /\ Len(deltas') = Len(deltas) - 1 /\ Len(deltas) \in Nat
  BY DEF TypeOK, ShowDelta
<1>2. Len(deltas') <= DeltaBuf
  BY <1>1, ParallelAssumption DEF TypeOK, ParallelAssumption
<1>3. events' \in Seq(Event)
  BY <1>1 DEF TypeOK, ShowDelta
<1> QED
  BY <1>1, <1>2, <1>3

\* No step of the loop or of a goroutine leaves the types.
LEMMA TypeOKStep ==
  ASSUME TypeOK, OneOutcomePerCall, Stages, [Next]_vars
  PROVE  TypeOK'
<1> USE ParallelAssumption DEF ParallelAssumption, goVars, channelVars, receiveVars,
      returnVars, Phases, Quiet, LoopUnchanged, LaunchNext, Advance, Exit, Yield,
      BreakDrain
<1>1. CASE BeforeToolCallFails
  BY <1>1 DEF BeforeToolCallFails, TypeOK
<1>2. CASE StartTool
  <2>1. events' \in Seq(Event)
    <3>1. StartEvent(next) \in Event
      BY DEF TypeOK, StartEvent, Event
    <3> QED
      BY <1>2, <3>1 DEF StartTool, TypeOK
  <2>2. slots' \in [Call -> Slot]
    BY <1>2 DEF StartTool, TypeOK, Slot
  <2>3. next' \in Call /\ pc' \in Phases
    BY <1>2, SMTT(30) DEF StartTool, TypeOK, Call
  <2> QED
    BY <1>2, <2>1, <2>2, <2>3 DEF StartTool, TypeOK
<1>3. CASE SkipTool
  <2>1. slots' \in [Call -> Slot]
    <3>1. \A stop \in BOOLEAN : Finish(next, stop) \in Outcome
      BY DEF TypeOK, Finish, Outcome
    <3> QED
      BY <1>3, <3>1 DEF SkipTool, TypeOK, Slot
  <2>2. next' \in Call /\ pc' \in Phases
    BY <1>3, SMTT(30) DEF SkipTool, TypeOK, Call
  <2> QED
    BY <1>3, <2>1, <2>2 DEF SkipTool, TypeOK
<1>4. CASE LaunchImmediate
  <2>1. next' \in Call /\ pc' \in Phases /\ waiter' \in {"none", "waiting", "closed"}
    BY <1>4, SMTT(30) DEF LaunchImmediate, TypeOK, Call
  <2>2. done' \in Seq(Outcome)
    <3>1. slots[next] \in Slot /\ slots[next].kind = "immediate"
      BY <1>4 DEF LaunchImmediate, TypeOK
    <3>2. slots[next].outcome \in Outcome
      BY <3>1 DEF Slot, EmptySlot, AsyncSlot, ImmediateSlot
    <3> QED
      BY <1>4, <3>2 DEF LaunchImmediate, TypeOK
  <2> QED
    BY <1>4, <2>1, <2>2 DEF LaunchImmediate, TypeOK
<1>5. CASE LaunchHandler
  <2>1. next' \in Call /\ pc' \in Phases /\ waiter' \in {"none", "waiting", "closed"}
    BY <1>5, SMTT(30) DEF LaunchHandler, TypeOK, Call
  <2>2. worker' \in [Call -> {"idle", "running", "sent", "exited"}]
    BY <1>5 DEF LaunchHandler, TypeOK
  <2> QED
    BY <1>5, <2>1, <2>2 DEF LaunchHandler, TypeOK
<1>6. ASSUME NEW c \in Call, EmitToolDelta(c) PROVE TypeOK'
  <2> DEFINE d == DeltaEvent(c, emitted[c] + 1)
  <2>1. emitted[c] \in Nat /\ emitted[c] + 1 \in 0..MaxDeltas
    <3>1. emitted[c] \in 0..MaxDeltas /\ emitted[c] < MaxDeltas
      BY <1>6 DEF EmitToolDelta, TypeOK
    <3> QED
      BY <3>1
  <2>2. d \in Event
    BY <2>1 DEF DeltaEvent, Event
  <2>3. emitted' \in [Call -> 0..MaxDeltas]
    BY <1>6, <2>1 DEF EmitToolDelta, TypeOK
  <2>4. \/ UNCHANGED <<deltas, accepted>>
        \/ /\ Len(deltas) < DeltaBuf
           /\ deltas' = Append(deltas, d) /\ accepted' = Append(accepted, d)
    BY <1>6 DEF EmitToolDelta, HasRoom
  <2>5. /\ deltas' \in Seq(Event) /\ Len(deltas') <= DeltaBuf
        /\ accepted' \in Seq(Event)
    <3> HIDE DEF d
    <3>1. deltas \in Seq(Event) /\ Len(deltas) <= DeltaBuf /\ accepted \in Seq(Event)
      BY DEF TypeOK
    <3>2. CASE UNCHANGED <<deltas, accepted>>
      BY <3>1, <3>2
    <3>3. CASE /\ Len(deltas) < DeltaBuf
               /\ deltas' = Append(deltas, d) /\ accepted' = Append(accepted, d)
      BY <2>2, <3>1, <3>3
    <3> QED
      BY <2>4, <3>2, <3>3
  <2> QED
    BY <1>6, <2>3, <2>5 DEF EmitToolDelta, TypeOK
<1>7. ASSUME NEW c \in Call, HandlerReturns(c) PROVE TypeOK'
  <2>1. done' \in Seq(Outcome)
    BY <1>7 DEF HandlerReturns, TypeOK, Finish, Index, Outcome
  <2>2. worker' \in [Call -> {"idle", "running", "sent", "exited"}]
    BY <1>7 DEF HandlerReturns, TypeOK
  <2> QED
    BY <1>7, <2>1, <2>2 DEF HandlerReturns, TypeOK
<1>8. ASSUME NEW c \in Call, GoroutineExits(c) PROVE TypeOK'
  BY <1>8 DEF GoroutineExits, TypeOK
<1>9. CASE WaitDone
  BY <1>9 DEF WaitDone, TypeOK
<1>10. CASE DrainDelta
  <2>1. ShowDelta
    BY <1>10 DEF DrainDelta
  <2> QED
    BY <1>10, <2>1, ShowDeltaType DEF DrainDelta, ShowDelta, TypeOK
<1>11. CASE DrainOutcome
  <2>1. Receive
    BY <1>11 DEF DrainOutcome
  <2>2. /\ done' \in Seq(Outcome) /\ pending' \in 0..NumCalls
        /\ outcomes' \in [Call -> Outcome \cup {NoOutcome}]
        /\ events' \in Seq(Event)
    BY <2>1, ReceiveMoves
  <2> QED
    BY <1>11, <2>1, <2>2 DEF DrainOutcome, Receive, TypeOK
<1>12. CASE DrainWaitDone
  BY <1>12 DEF DrainWaitDone, TypeOK
<1>13. CASE Settled
  BY <1>13 DEF Settled, TypeOK
<1>14. CASE FlushDelta
  <2>1. ShowDelta
    BY <1>14 DEF FlushDelta
  <2> QED
    BY <1>14, <2>1, ShowDeltaType DEF FlushDelta, ShowDelta, TypeOK
<1>15. CASE FlushEmpty
  BY <1>15 DEF FlushEmpty, TypeOK
<1>16. CASE CollectOutcome
  <2>1. Receive
    BY <1>16 DEF CollectOutcome
  <2>2. /\ done' \in Seq(Outcome) /\ pending' \in 0..NumCalls
        /\ outcomes' \in [Call -> Outcome \cup {NoOutcome}]
        /\ events' \in Seq(Event)
    BY <2>1, ReceiveMoves
  <2> QED
    BY <1>16, <2>1, <2>2 DEF CollectOutcome, Receive, TypeOK
<1>17. CASE CollectCancelled
  BY <1>17 DEF CollectCancelled, TypeOK
<1>18. CASE Assemble
  <2>1. Received = Call
    <3>1. Received \in SUBSET Call /\ Cardinality(Call \ Received) = 0
      BY <1>18 DEF Assemble, OneOutcomePerCall, Received
    <3> QED
      BY <3>1, AllReceived
  <2>2. outcomes \in [1..NumCalls -> Outcome]
    BY <2>1 DEF Received, TypeOK, Call
  <2>3. outcomes \in Seq(Outcome)
    BY <2>2
  <2>4. terminate' \in BOOLEAN
    BY <1>18 DEF Assemble, AllStop
  <2> QED
    BY <1>18, <2>3, <2>4 DEF Assemble, TypeOK
<1>19. CASE CancelCtx
  BY <1>19 DEF CancelCtx, TypeOK
<1>20. CASE UNCHANGED vars
  BY <1>20 DEF vars, TypeOK
<1> QED
  BY <1>1, <1>2, <1>3, <1>4, <1>5, <1>6, <1>7, <1>8, <1>9, <1>10, <1>11, <1>12,
     <1>13, <1>14, <1>15, <1>16, <1>17, <1>18, <1>19, <1>20
  DEF Next, Loop, Preflight, Launch, Drain, Collect, Worker, Finished

-----------------------------------------------------------------------------
Early == {"preflight", "launch", "aborted"}

\* A step that touches neither the books nor who is running.
LEMMA SameBooks ==
  ASSUME OneOutcomePerCall, UNCHANGED <<done, outcomes, pending>>,
         \A c \in Call : worker'[c] = "running" <=> worker[c] = "running",
         pc' \in Phases \ Early => pc \in Phases \ Early
  PROVE  OneOutcomePerCall'
BY DEF OneOutcomePerCall, InDone, Received, CallsIn, Distinct, Early

\* A running handler's outcome is nowhere yet.
LEMMA RunningIsOpen ==
  ASSUME TypeOK, OneOutcomePerCall, Stages, NEW c \in Call, worker[c] = "running"
  PROVE  pc \in Phases \ {"preflight", "aborted"} /\ c \notin InDone \cup Received
<1>1. pc \notin {"preflight", "aborted"}
  BY DEF Stages, Ended
<1>2. CASE pc = "launch"
  <2>1. c \in Nat /\ next \in Nat
    BY DEF TypeOK, Call
  <2>2. c < next
    BY <1>2, <2>1 DEF Stages
  <2> QED
    BY <1>2, <2>2 DEF Stages, Phases
<1>3. CASE pc \in Phases \ Early
  BY <1>3 DEF OneOutcomePerCall, Early
<1> QED
  BY <1>1, <1>2, <1>3 DEF TypeOK, Early

\* The outcome of one more call is sent.
LEMMA SendBooks ==
  ASSUME TypeOK, OneOutcomePerCall, NEW o \in Outcome,
         o.call \notin InDone \cup Received,
         done' = Append(done, o), UNCHANGED <<outcomes, pending>>
  PROVE  /\ InDone' = InDone \cup {o.call} /\ Received' = Received
         /\ Distinct(done') /\ InDone' \cap Received' = {}
         /\ pending' = Cardinality(Call \ Received')
         /\ \A c \in Call : outcomes'[c] # NoOutcome => outcomes'[c].call = c
<1>1. InDone' = InDone \cup {o.call} /\ Distinct(done')
  BY SendCalls DEF InDone, TypeOK, OneOutcomePerCall
<1>2. Received' = Received
  BY DEF Received
<1> QED
  BY <1>1, <1>2 DEF OneOutcomePerCall

\* The outcome of one more call is received.
LEMMA ReceiveBooks ==
  ASSUME TypeOK, OneOutcomePerCall, Receive, pc \in Phases \ Early
  PROVE  OneOutcomePerCall'
<1>1. PICK h \in InDone \ Received :
        /\ h \in Call
        /\ InDone' = InDone \ {h} /\ Distinct(done')
        /\ Received' = Received \cup {h}
        /\ \A c \in Call : outcomes'[c] # NoOutcome => outcomes'[c].call = c
        /\ pending' = Cardinality(Call \ Received')
  BY ReceiveMoves
<1>2. InDone' \cup Received' = InDone \cup Received /\ InDone' \cap Received' = {}
  BY <1>1 DEF OneOutcomePerCall
<1>3. worker' = worker
  BY DEF Receive, goVars
<1>4. \A c \in Call : worker'[c] = "running" <=> c \notin InDone' \cup Received'
  BY <1>2, <1>3 DEF OneOutcomePerCall, Early
<1> QED
  BY <1>1, <1>2, <1>4 DEF OneOutcomePerCall

\* No step loses an outcome, or makes a second one for a call.
LEMMA OneOutcomeStep ==
  ASSUME TypeOK, OneOutcomePerCall, Stages, [Next]_vars
  PROVE  OneOutcomePerCall'
<1> USE DEF goVars, channelVars, receiveVars, returnVars, Quiet, LoopUnchanged,
      Exit, Yield, BreakDrain, Early
<1>1. CASE BeforeToolCallFails
  BY <1>1, SameBooks DEF BeforeToolCallFails
<1>2. CASE StartTool
  BY <1>2, SameBooks DEF StartTool, Advance
<1>3. CASE SkipTool
  BY <1>3, SameBooks DEF SkipTool, Advance
<1>4. CASE LaunchImmediate
  <2> DEFINE o == slots[next].outcome
  <2>1. /\ pc = "launch" /\ next \in Call /\ slots[next].kind = "immediate"
        /\ done' = Append(done, o)
        /\ UNCHANGED <<outcomes, pending, worker>>
    BY <1>4 DEF LaunchImmediate, LaunchNext, TypeOK
  <2>2. o \in Outcome /\ o.call = next
    <3>1. slots[next] \in Slot
      BY <2>1 DEF TypeOK
    <3> QED
      BY <2>1, <3>1 DEF Stages, Slot, EmptySlot, AsyncSlot, ImmediateSlot
  <2>3. next \notin InDone \cup Received /\ worker[next] = "idle"
    BY <2>1 DEF Stages, Call
  <2>4. /\ InDone' = InDone \cup {next} /\ Received' = Received
        /\ Distinct(done') /\ InDone' \cap Received' = {}
        /\ pending' = Cardinality(Call \ Received')
        /\ \A c \in Call : outcomes'[c] # NoOutcome => outcomes'[c].call = c
    BY <2>1, <2>2, <2>3, SendBooks
  <2>5. ASSUME pc' \in Phases \ Early, NEW c \in Call
        PROVE  worker'[c] = "running" <=> c \notin InDone' \cup Received'
    <3>1. next = NumCalls
      <4>1. ~(next < NumCalls)
        BY <1>4, <2>1, <2>5 DEF LaunchImmediate, LaunchNext, Advance
      <4> QED
        BY <2>1, <4>1, ParallelAssumption DEF Call, ParallelAssumption
    <3>2. c < next \/ c = next
      BY <3>1, ParallelAssumption DEF Call, ParallelAssumption
    <3> QED
      BY <2>1, <2>3, <2>4, <3>2 DEF Stages
  <2> QED
    BY <2>4, <2>5 DEF OneOutcomePerCall
<1>5. CASE LaunchHandler
  <2>1. /\ pc = "launch" /\ next \in Call
        /\ worker' = [worker EXCEPT ![next] = "running"]
        /\ UNCHANGED <<done, outcomes, pending>>
    BY <1>5 DEF LaunchHandler, LaunchNext, TypeOK
  <2>2. InDone' = InDone /\ Received' = Received /\ Received = {} /\ next \notin InDone
    BY <2>1 DEF InDone, CallsIn, Received, Stages, Call
  <2>3. ASSUME pc' \in Phases \ Early, NEW c \in Call
        PROVE  worker'[c] = "running" <=> c \notin InDone' \cup Received'
    <3>1. next = NumCalls
      <4>1. ~(next < NumCalls)
        BY <1>5, <2>1, <2>3 DEF LaunchHandler, LaunchNext, Advance
      <4> QED
        BY <2>1, <4>1, ParallelAssumption DEF Call, ParallelAssumption
    <3>2. c < next \/ c = next
      BY <3>1, ParallelAssumption DEF Call, ParallelAssumption
    <3> QED
      BY <2>1, <2>2, <3>2 DEF Stages, TypeOK
  <2> QED
    BY <2>1, <2>2, <2>3 DEF OneOutcomePerCall, Distinct
<1>6. ASSUME NEW c \in Call, EmitToolDelta(c) PROVE OneOutcomePerCall'
  BY <1>6, SameBooks DEF EmitToolDelta
<1>7. ASSUME NEW c \in Call, HandlerReturns(c) PROVE OneOutcomePerCall'
  <2>1. PICK o \in Outcome : o.call = c /\ done' = Append(done, o)
    BY <1>7 DEF HandlerReturns, Finish, Index, Outcome
  <2>2. /\ worker[c] = "running" /\ worker' = [worker EXCEPT ![c] = "sent"]
        /\ UNCHANGED <<pc, outcomes, pending>>
    BY <1>7 DEF HandlerReturns
  <2>3. c \notin InDone \cup Received
    BY <2>2, RunningIsOpen
  <2>4. /\ InDone' = InDone \cup {c} /\ Received' = Received
        /\ Distinct(done') /\ InDone' \cap Received' = {}
        /\ pending' = Cardinality(Call \ Received')
        /\ \A d \in Call : outcomes'[d] # NoOutcome => outcomes'[d].call = d
    BY <2>1, <2>2, <2>3, SendBooks
  <2>5. ASSUME pc' \in Phases \ Early, NEW d \in Call
        PROVE  worker'[d] = "running" <=> d \notin InDone' \cup Received'
    BY <2>2, <2>4, <2>5 DEF OneOutcomePerCall, TypeOK
  <2> QED
    BY <2>4, <2>5 DEF OneOutcomePerCall
<1>8. ASSUME NEW c \in Call, GoroutineExits(c) PROVE OneOutcomePerCall'
  BY <1>8, SameBooks DEF GoroutineExits, TypeOK
<1>9. CASE WaitDone
  BY <1>9, SameBooks DEF WaitDone
<1>10. CASE DrainDelta
  BY <1>10, SameBooks DEF DrainDelta, ShowDelta, Phases
<1>11. CASE DrainOutcome
  BY <1>11, ReceiveBooks DEF DrainOutcome, Phases
<1>12. CASE DrainWaitDone
  BY <1>12, SameBooks DEF DrainWaitDone, Phases
<1>13. CASE Settled
  BY <1>13, SameBooks DEF Settled
<1>14. CASE FlushDelta
  BY <1>14, SameBooks DEF FlushDelta, ShowDelta, Phases
<1>15. CASE FlushEmpty
  BY <1>15, SameBooks DEF FlushEmpty, Phases
<1>16. CASE CollectOutcome
  BY <1>16, ReceiveBooks DEF CollectOutcome, Phases
<1>17. CASE CollectCancelled
  BY <1>17, SameBooks DEF CollectCancelled
<1>18. CASE Assemble
  BY <1>18, SameBooks DEF Assemble, Phases
<1>19. CASE CancelCtx
  BY <1>19, SameBooks DEF CancelCtx
<1>20. CASE UNCHANGED vars
  BY <1>20, SameBooks DEF vars
<1> QED
  BY <1>1, <1>2, <1>3, <1>4, <1>5, <1>6, <1>7, <1>8, <1>9, <1>10, <1>11, <1>12,
     <1>13, <1>14, <1>15, <1>16, <1>17, <1>18, <1>19, <1>20
  DEF Next, Loop, Preflight, Launch, Drain, Collect, Worker, Finished

-----------------------------------------------------------------------------
\* The slot loops move to the next slot, or leave after the last.
LEMMA Advanced ==
  ASSUME next \in Call, NEW after, Advance(after)
  PROVE  \/ next < NumCalls /\ next' = next + 1 /\ pc' = pc
         \/ next = NumCalls /\ next' = 1 /\ pc' = after
BY ParallelAssumption DEF Advance, Call, ParallelAssumption

\* The preflight fills a slot.
LEMMA FillSlot ==
  ASSUME TypeOK, Stages, pc = "preflight",
         UNCHANGED <<worker, waiter, done, outcomes>>,
         NEW x, x.kind # "empty", x.kind = "immediate" => x.outcome.call = next,
         slots' = [slots EXCEPT ![next] = x], Advance("launch")
  PROVE  Stages'
<1>1. /\ waiter' = "none" /\ Received' = {} /\ done' = <<>> /\ InDone' = {}
      /\ next \in Call /\ \A c \in Call : worker'[c] = "idle" /\ worker'[c] # "running"
  BY DEF Stages, Received, TypeOK, InDone, CallsIn
<1>2. \A c \in Call : slots'[c] = IF c = next THEN x ELSE slots[c]
  BY <1>1 DEF TypeOK
<1>3. \A c \in Call : slots'[c].kind = "immediate" => slots'[c].outcome.call = c
  BY <1>2 DEF Stages
<1>4. \A c \in Call : c <= next => slots'[c].kind # "empty"
  BY <1>1, <1>2 DEF Stages, Call
<1>5. CASE next < NumCalls /\ next' = next + 1 /\ pc' = pc
  <2>1. \A c \in Call : c < next' => slots'[c].kind # "empty"
    BY <1>1, <1>4, <1>5 DEF Call
  <2> QED
    BY <1>1, <1>3, <1>5, <2>1 DEF Stages, Ended
<1>6. CASE next = NumCalls /\ next' = 1 /\ pc' = "launch"
  <2>1. \A c \in Call : slots'[c].kind # "empty" /\ ~(c < next')
    BY <1>1, <1>4, <1>6, ParallelAssumption DEF Call, ParallelAssumption
  <2> QED
    BY <1>1, <1>3, <1>6, <2>1 DEF Stages, Ended
<1> QED
  BY <1>1, <1>5, <1>6, Advanced

\* The launch loop starts or delivers a slot.
LEMMA LaunchSlot ==
  ASSUME TypeOK, Stages, LaunchNext,
         \A c \in Call \ {next} :
           worker'[c] = worker[c] /\ (c \in InDone' <=> c \in InDone),
         worker'[next] = "running" <=> next \notin InDone'
  PROVE  Stages'
<1>1. /\ pc = "launch" /\ next \in Call /\ UNCHANGED slots
      /\ Received' = {} /\ waiter = "none"
      /\ waiter' = IF next = NumCalls THEN "waiting" ELSE waiter
  BY DEF LaunchNext, TypeOK, Stages, receiveVars, Received
<1>2. \A c \in Call : /\ slots'[c].kind # "empty"
                      /\ slots'[c].kind = "immediate" => slots'[c].outcome.call = c
  BY <1>1 DEF Stages
<1>3. CASE next < NumCalls /\ next' = next + 1 /\ pc' = pc
  <2>1. waiter' = "none"
    BY <1>1, <1>3 DEF Call
  <2>2. ASSUME NEW c \in Call
        PROVE  /\ c < next' => c < next \/ c = next
               /\ c >= next' => c >= next /\ c # next
    BY <1>1, <1>3 DEF Call
  <2>3. \A c \in Call :
          /\ c < next' => (worker'[c] = "running" <=> c \notin InDone')
          /\ c >= next' => worker'[c] = "idle" /\ c \notin InDone'
    BY <1>1, <2>2 DEF Stages
  <2> QED
    BY <1>1, <1>2, <1>3, <2>1, <2>3 DEF Stages, Ended
<1>4. CASE next = NumCalls /\ next' = 1 /\ pc' = "drain"
  BY <1>1, <1>2, <1>4 DEF Stages, Ended
<1> QED
  BY <1>1, <1>3, <1>4, Advanced DEF LaunchNext

\* A step of the loop past the launch: it moves on, or stays, and nobody runs
\* once the drain is over.
LEMMA LaterStages ==
  ASSUME Stages, UNCHANGED <<slots, worker, waiter>>,
         pc \in Phases \ {"preflight", "launch", "returned", "aborted"},
         pc' \in Phases \ {"preflight", "launch"},
         pc' \in {"flush", "collect", "returned", "aborted"} =>
           \A c \in Call : worker[c] # "running"
  PROVE  Stages'
<1>1. pc' \notin {"preflight", "launch"} /\ waiter' # "none"
  BY DEF Stages, Phases
<1>2. waiter' = "closed" => \A c \in Call : worker'[c] \in {"idle", "exited"}
  BY DEF Stages
<1>3. \A c \in Call : slots'[c].kind = "immediate" => slots'[c].outcome.call = c
  BY DEF Stages
<1>4. pc' \in {"flush", "collect"} \/ Ended' => \A c \in Call : worker'[c] # "running"
  BY DEF Ended
<1> QED
  BY <1>1, <1>2, <1>3, <1>4 DEF Stages

\* Once waitDone is closed no handler runs.
LEMMA AllQuiet ==
  ASSUME Stages, waiter = "closed"
  PROVE  \A c \in Call : worker[c] # "running"
BY DEF Stages

\* Every stage hands over to the next what it relies on.
LEMMA StagesStep ==
  ASSUME TypeOK, OneOutcomePerCall, Stages, OneOutcomePerCall', [Next]_vars
  PROVE  Stages'
<1> USE DEF goVars, channelVars, receiveVars, returnVars, Quiet, LoopUnchanged,
      Exit, Yield, BreakDrain
<1>1. CASE BeforeToolCallFails
  BY <1>1 DEF BeforeToolCallFails, Stages, Ended
<1>2. CASE StartTool
  <2>1. CASE pc' = "aborted" /\ UNCHANGED <<slots, next>>
    BY <1>2, <2>1 DEF StartTool, Stages, Ended
  <2>2. CASE slots' = [slots EXCEPT ![next] = AsyncSlot] /\ Advance("launch")
    <3>1. AsyncSlot.kind # "empty" /\ AsyncSlot.kind # "immediate"
      BY DEF AsyncSlot
    <3> QED
      BY <1>2, <2>2, <3>1, FillSlot DEF StartTool
  <2> QED
    BY <1>2, <2>1, <2>2 DEF StartTool
<1>3. CASE SkipTool
  <2>1. PICK stop \in BOOLEAN :
          slots' = [slots EXCEPT ![next] = ImmediateSlot(Finish(next, stop))]
    BY <1>3 DEF SkipTool
  <2> DEFINE x == ImmediateSlot(Finish(next, stop))
  <2>2. x.kind # "empty" /\ x.outcome.call = next
    BY DEF ImmediateSlot, Finish
  <2>3. slots' = [slots EXCEPT ![next] = x]
    BY <2>1
  <2> HIDE DEF x
  <2> QED
    BY <1>3, <2>2, <2>3, FillSlot DEF SkipTool
<1>4. CASE LaunchImmediate
  <2>1. /\ pc = "launch" /\ next \in Call /\ slots[next] \in Slot
        /\ slots[next].kind = "immediate" /\ done \in Seq(Outcome)
        /\ done' = Append(done, slots[next].outcome) /\ UNCHANGED worker
    BY <1>4 DEF LaunchImmediate, LaunchNext, TypeOK
  <2>2. slots[next].outcome \in Outcome /\ slots[next].outcome.call = next
    BY <2>1 DEF Stages, Slot, EmptySlot, AsyncSlot, ImmediateSlot
  <2>3. InDone' = InDone \cup {next}
    BY <2>1, <2>2, SendCalls DEF InDone
  <2>4. worker[next] = "idle"
    BY <2>1 DEF Stages, Call
  <2>5. LaunchNext
    BY <1>4 DEF LaunchImmediate
  <2> QED
    BY <2>1, <2>3, <2>4, <2>5, LaunchSlot
<1>5. CASE LaunchHandler
  <2>1. /\ pc = "launch" /\ next \in Call /\ UNCHANGED done
        /\ worker' = [worker EXCEPT ![next] = "running"]
    BY <1>5 DEF LaunchHandler, LaunchNext, TypeOK
  <2>2. InDone' = InDone /\ next \notin InDone
    BY <2>1 DEF InDone, CallsIn, Stages, Call
  <2>3. worker'[next] = "running" /\ \A c \in Call \ {next} : worker'[c] = worker[c]
    BY <2>1 DEF TypeOK
  <2>4. LaunchNext
    BY <1>5 DEF LaunchHandler
  <2> QED
    BY <2>2, <2>3, <2>4, LaunchSlot
<1>6. ASSUME NEW c \in Call, EmitToolDelta(c) PROVE Stages'
  BY <1>6 DEF EmitToolDelta, Stages, Ended, Received, InDone, CallsIn
<1>7. ASSUME NEW c \in Call, HandlerReturns(c) PROVE Stages'
  <2>1. PICK o \in Outcome : o.call = c /\ done' = Append(done, o)
    BY <1>7 DEF HandlerReturns, Finish, Index, Outcome
  <2>2. /\ worker[c] = "running"
        /\ UNCHANGED <<pc, next, slots, waiter, outcomes>>
        /\ \A d \in Call : worker'[d] = IF d = c THEN "sent" ELSE worker[d]
    BY <1>7 DEF HandlerReturns, TypeOK
  <2>3. InDone' = InDone \cup {c} /\ Received' = Received
    BY <2>1, <2>2, SendCalls DEF InDone, TypeOK, Received
  <2>4. pc # "preflight" /\ waiter # "closed"
    BY <2>2, RunningIsOpen DEF Stages
  <2>5. pc = "launch" => c < next
    BY <2>2 DEF Stages, TypeOK, Call
  <2>6. pc = "launch" => \A d \in Call :
          /\ slots'[d].kind # "empty"
          /\ d < next' => (worker'[d] = "running" <=> d \notin InDone')
          /\ d >= next' => worker'[d] = "idle" /\ d \notin InDone'
    BY <2>2, <2>3, <2>5 DEF Stages, TypeOK, Call
  <2> QED
    BY <2>2, <2>3, <2>4, <2>6 DEF Stages, Ended
<1>8. ASSUME NEW c \in Call, GoroutineExits(c) PROVE Stages'
  <2>1. /\ worker[c] = "sent"
        /\ UNCHANGED <<pc, next, slots, waiter, outcomes, done>>
        /\ \A d \in Call : worker'[d] = IF d = c THEN "exited" ELSE worker[d]
    BY <1>8 DEF GoroutineExits, TypeOK
  <2>2. InDone' = InDone /\ Received' = Received /\ pc # "preflight"
    BY <2>1 DEF InDone, CallsIn, Received, Stages
  <2>3. waiter' = "closed" => \A d \in Call : worker'[d] \in {"idle", "exited"}
    BY <2>1 DEF Stages
  <2>4. pc = "launch" => \A d \in Call : d >= next => worker'[d] = "idle"
    BY <2>1 DEF Stages
  <2> QED
    BY <2>1, <2>2, <2>3, <2>4 DEF Stages, Ended
<1>9. CASE WaitDone
  BY <1>9 DEF WaitDone, Joined, Stages, Ended
<1>10. CASE DrainDelta
  BY <1>10, LaterStages DEF DrainDelta, ShowDelta, Phases
<1>11. CASE DrainOutcome
  <2>1. UNCHANGED <<slots, worker, waiter>> /\ pc = "drain"
        /\ pc' \in {"drain", "flush", "settle"} /\ (pc' = "flush" => pending' = 0)
    BY <1>11 DEF DrainOutcome, Receive
  <2>2. ASSUME pc' = "flush" PROVE \A c \in Call : worker[c] # "running"
    <3>1. Received' = Call
      <4>1. Received' \in SUBSET Call /\ Cardinality(Call \ Received') = 0
        BY <2>1, <2>2 DEF OneOutcomePerCall, Received
      <4> QED
        BY <4>1, AllReceived
    <3> QED
      BY <2>1, <2>2, <3>1 DEF OneOutcomePerCall, Phases
  <2> QED
    BY <2>1, <2>2, LaterStages DEF Phases
<1>12. CASE DrainWaitDone
  BY <1>12, LaterStages, AllQuiet DEF DrainWaitDone, Phases
<1>13. CASE Settled
  BY <1>13, LaterStages, AllQuiet DEF Settled, Phases
<1>14. CASE FlushDelta
  <2>1. \A c \in Call : worker[c] # "running"
    BY <1>14 DEF FlushDelta, Stages
  <2> QED
    BY <1>14, <2>1, LaterStages DEF FlushDelta, ShowDelta, Phases
<1>15. CASE FlushEmpty
  <2>1. \A c \in Call : worker[c] # "running"
    BY <1>15 DEF FlushEmpty, Stages
  <2> QED
    BY <1>15, <2>1, LaterStages DEF FlushEmpty, Phases
<1>16. CASE CollectOutcome
  <2>1. \A c \in Call : worker[c] # "running"
    BY <1>16 DEF CollectOutcome, Stages
  <2> QED
    BY <1>16, <2>1, LaterStages DEF CollectOutcome, Receive, Phases
<1>17. CASE CollectCancelled
  <2>1. \A c \in Call : worker[c] # "running"
    BY <1>17 DEF CollectCancelled, Stages
  <2> QED
    BY <1>17, <2>1, LaterStages DEF CollectCancelled, Phases
<1>18. CASE Assemble
  <2>1. \A c \in Call : worker[c] # "running"
    BY <1>18 DEF Assemble, Stages
  <2> QED
    BY <1>18, <2>1, LaterStages DEF Assemble, Phases
<1>19. CASE CancelCtx
  BY <1>19 DEF CancelCtx, Stages, Ended, Received, InDone, CallsIn
<1>20. CASE UNCHANGED vars
  BY <1>20 DEF vars, Stages, Ended, Received, InDone, CallsIn
<1> QED
  BY <1>1, <1>2, <1>3, <1>4, <1>5, <1>6, <1>7, <1>8, <1>9, <1>10, <1>11, <1>12,
     <1>13, <1>14, <1>15, <1>16, <1>17, <1>18, <1>19, <1>20
  DEF Next, Loop, Preflight, Launch, Drain, Collect, Worker, Finished

-----------------------------------------------------------------------------
\* A fresh batch satisfies the invariant.
LEMMA InitIInv == Init => IInv
<1> SUFFICES ASSUME Init PROVE IInv
  OBVIOUS
<1> USE ParallelAssumption DEF ParallelAssumption
<1>1. Received = {} /\ InDone = {}
  BY DEF Init, Received, InDone, CallsIn
<1>2. TypeOK
  <2>1. next \in Call /\ pending \in 0..NumCalls /\ slots \in [Call -> Slot]
    BY DEF Init, Call, Slot
  <2>2. /\ deltas \in Seq(Event) /\ Len(deltas) <= DeltaBuf
        /\ events \in Seq(Event) /\ accepted \in Seq(Event)
        /\ done \in Seq(Outcome) /\ toolLog \in Seq(Outcome) /\ results \in Seq(Outcome)
    BY DEF Init
  <2>3. emitted \in [Call -> 0..MaxDeltas]
    BY DEF Init
  <2> QED
    BY <2>1, <2>2, <2>3 DEF Init, TypeOK, Phases
<1>3. OneOutcomePerCall
  <2>1. pending = Cardinality(Call \ Received)
    BY <1>1, CallsFinite DEF Init
  <2> QED
    BY <1>1, <2>1 DEF Init, OneOutcomePerCall, Distinct
<1>4. Stages
  BY <1>1 DEF Init, Stages, Ended, EmptySlot, Call
<1> QED
  BY <1>2, <1>3, <1>4 DEF IInv

\* The invariant is inductive.
LEMMA NextIInv == IInv /\ [Next]_vars => IInv'
<1> SUFFICES ASSUME IInv, [Next]_vars PROVE IInv'
  OBVIOUS
<1>1. TypeOK'
  BY TypeOKStep DEF IInv
<1>2. OneOutcomePerCall'
  BY OneOutcomeStep DEF IInv
<1>3. Stages'
  BY <1>2, StagesStep DEF IInv
<1> QED
  BY <1>1, <1>2, <1>3 DEF IInv

\* The invariant holds in every state.
LEMMA Inductive == Spec => []IInv
BY InitIInv, NextIInv, PTL DEF Spec

-----------------------------------------------------------------------------
\* The batch's state stays well typed; in particular the delta buffer never
\* holds more than its capacity, however many handlers push into it.
THEOREM BatchTypeCorrect == Spec => []TypeOK
<1>1. IInv => TypeOK
  BY DEF IInv
<1> QED
  BY Inductive, <1>1, PTL

\* No outcome is lost or doubled between a goroutine and the results.
THEOREM NoOutcomeLost == Spec => []OneOutcomePerCall
<1>1. IInv => OneOutcomePerCall
  BY DEF IInv
<1> QED
  BY Inductive, <1>1, PTL

\* A goroutine with an outcome to send, and the launch loop with an immediate
\* one, always finds room in done: no goroutine leaks on a blocked send.
THEOREM SendFindsRoom == Spec => []SendNeverBlocks
<1>1. IInv => SendNeverBlocks
  <2> SUFFICES ASSUME IInv PROVE SendNeverBlocks
    OBVIOUS
  <2>1. done \in Seq(Outcome) /\ Distinct(done)
    BY DEF IInv, TypeOK, OneOutcomePerCall
  <2>2. ASSUME NEW c \in Call, worker[c] = "running" PROVE Len(done) < DoneCap
    <3>1. c \notin CallsIn(done)
      BY <2>2, RunningIsOpen DEF IInv, InDone
    <3> QED
      BY <2>1, <3>1, RoomForOne
  <2>3. ASSUME pc = "launch" PROVE Len(done) < DoneCap
    <3>1. next \in Call /\ next \notin CallsIn(done)
      BY <2>3 DEF IInv, TypeOK, Stages, InDone, Call
    <3> QED
      BY <2>1, <3>1, RoomForOne
  <2> QED
    BY <2>2, <2>3 DEF SendNeverBlocks
<1> QED
  BY Inductive, <1>1, PTL

\* After waitDone, an outcome not yet collected is already in the channel: the
\* ctx.Done() case beside the receive never has to save the loop.
THEOREM CollectFindsOutcome == Spec => []CollectNeverWedges
<1>1. IInv => CollectNeverWedges
  <2> SUFFICES ASSUME IInv, pc = "collect", pending > 0 PROVE done # <<>>
    BY DEF CollectNeverWedges
  <2>1. Received # Call
    <3>1. Received \in SUBSET Call /\ Cardinality(Call \ Received) # 0
      BY DEF IInv, OneOutcomePerCall, Received
    <3> QED
      BY <3>1, AllReceived
  <2>2. PICK c \in Call : c \notin Received
    BY <2>1 DEF Received
  <2>3. worker[c] # "running"
    BY DEF IInv, Stages
  <2>4. c \in InDone
    BY <2>2, <2>3 DEF IInv, OneOutcomePerCall, Phases
  <2> QED
    BY <2>4 DEF InDone, CallsIn
<1> QED
  BY Inductive, <1>1, PTL

\* The launch goes through the slots: it has started the handlers of those behind it,
\* and what comes after it finds all of them started.
Launching ==
  /\ pc = "launch" => \A c \in Call :
       c < next /\ slots[c].kind = "async" => worker[c] # "idle"
  /\ pc \notin {"preflight", "launch"} => AllStartedOrNone

\* One more slot is launched; the next stage begins behind the last.
LEMMA LaunchGoesOn ==
  ASSUME TypeOK, Stages, Launching, LaunchImmediate \/ LaunchHandler
  PROVE  Launching'
<1>1. pc = "launch" /\ next \in Call /\ UNCHANGED slots /\ Advance("drain")
  BY DEF LaunchImmediate, LaunchHandler, LaunchNext, TypeOK
<1>2. \A c \in Call : c <= next /\ slots[c].kind = "async" => worker'[c] # "idle"
  <2>1. CASE LaunchImmediate
    BY <1>1, <2>1 DEF LaunchImmediate, Launching, Call
  <2>2. CASE LaunchHandler
    BY <1>1, <2>2 DEF LaunchHandler, Launching, TypeOK, Call
  <2> QED
    BY <2>1, <2>2
<1>3. CASE next < NumCalls
  BY <1>1, <1>2, <1>3 DEF Advance, Launching, Call
<1>4. CASE ~(next < NumCalls)
  <2>1. pc' = "drain" /\ \A c \in Call : c <= next
    BY <1>1, <1>4, ParallelAssumption DEF Advance, Call, ParallelAssumption
  <2>2. \A c \in Call : slots[c].kind # "empty"
    BY <1>1 DEF Stages
  <2> QED
    BY <1>1, <1>2, <2>1, <2>2 DEF Launching, AllStartedOrNone
<1> QED
  BY <1>3, <1>4

\* The preflight starts nothing, so giving up in it leaves nothing that ran.
LEMMA PreflightStartsNone ==
  ASSUME TypeOK, Stages, Preflight
  PROVE  Launching'
<1>1. pc = "preflight" /\ UNCHANGED worker /\ \A c \in Call : worker[c] = "idle"
  BY DEF Preflight, BeforeToolCallFails, StartTool, SkipTool, goVars, Stages
<1>2. \/ pc' = "aborted" \/ pc' = "preflight"
      \/ (pc' = "launch" /\ next' = 1)
  BY <1>1 DEF Preflight, BeforeToolCallFails, StartTool, SkipTool, Advance
<1> QED
  BY <1>1, <1>2 DEF Launching, AllStartedOrNone, Call

\* Nobody else starts a handler, or makes one unstarted.
LEMMA LaunchingStep ==
  ASSUME TypeOK, Stages, Launching, [Next]_vars
  PROVE  Launching'
<1> USE DEF goVars
<1>1. ASSUME UNCHANGED <<slots, next>>,
             pc' = pc \/ (pc \notin {"preflight", "launch"}
                          /\ pc' \notin {"preflight", "launch"}),
             \A c \in Call : worker'[c] = "idle" <=> worker[c] = "idle"
      PROVE  Launching'
  BY <1>1 DEF Launching, AllStartedOrNone
<1>2. ASSUME NEW c \in Call, Worker(c) PROVE Launching'
  BY <1>1, <1>2
     DEF Worker, EmitToolDelta, HandlerReturns, GoroutineExits, LoopUnchanged, TypeOK
<1>3. CASE Drain \/ Collect \/ Assemble
  BY <1>1, <1>3
     DEF Drain, DrainDelta, DrainOutcome, DrainWaitDone, Settled, Collect, FlushDelta,
         FlushEmpty, CollectOutcome, CollectCancelled, Assemble, ShowDelta, Receive,
         Quiet, Yield, Exit, BreakDrain
<1>4. CASE WaitDone \/ CancelCtx \/ UNCHANGED vars
  BY <1>1, <1>4 DEF WaitDone, CancelCtx, LoopUnchanged, vars
<1> QED
  BY <1>2, <1>3, <1>4, PreflightStartsNone, LaunchGoesOn DEF Next, Loop, Launch, Finished

\* No handler is running when the batch has returned or was abandoned, and the
\* consumer's break in the middle of a parallel batch is no exception.  A batch
\* that was given up in its preflight has run none of its handlers.
THEOREM HandlersStopFirst == Spec => []NoHandlerOutlivesBatch
<1>1. Init => Launching
  BY DEF Init, Launching
<1>2. IInv /\ Launching /\ [Next]_vars => Launching'
  BY LaunchingStep DEF IInv
<1>3. IInv /\ Launching => NoHandlerOutlivesBatch
  BY DEF IInv, Stages, Launching, NoHandlerOutlivesBatch, Ended
<1> QED
  BY Inductive, <1>1, <1>2, <1>3, PTL DEF Spec

-----------------------------------------------------------------------------
(* What the consumer saw, and what the batch hands back.                   *)

\* A step hands at most one event to the consumer: a start, the end of the call
\* it receives, or the first delta of the buffer; and only a handler fills it.
LEMMA EventKinds ==
  ASSUME TypeOK, [Next]_vars
  PROVE  \/ UNCHANGED <<events, outcomes, deltas, accepted>>
         \/ /\ \E c \in Call : events' = Append(events, StartEvent(c))
            /\ UNCHANGED <<outcomes, deltas, accepted>> /\ pc = "preflight"
         \/ Receive
         \/ ShowDelta /\ pc \in {"drain", "flush"}
         \/ \E c \in Call : EmitToolDelta(c)
<1> USE DEF goVars, channelVars, receiveVars, returnVars, LoopUnchanged, Quiet
<1>1. CASE StartTool
  BY <1>1 DEF StartTool, TypeOK
<1>2. CASE DrainDelta \/ FlushDelta
  BY <1>2 DEF DrainDelta, FlushDelta
<1>3. CASE DrainOutcome \/ CollectOutcome
  BY <1>3 DEF DrainOutcome, CollectOutcome
<1>4. CASE \E c \in Call : EmitToolDelta(c)
  BY <1>4
<1>5. CASE \E c \in Call : HandlerReturns(c) \/ GoroutineExits(c)
  BY <1>5 DEF HandlerReturns, GoroutineExits
<1>6. CASE \/ BeforeToolCallFails \/ SkipTool \/ LaunchImmediate \/ LaunchHandler
           \/ WaitDone \/ DrainWaitDone \/ Settled \/ FlushEmpty
           \/ CollectCancelled \/ Assemble \/ CancelCtx \/ UNCHANGED vars
  BY <1>6 DEF BeforeToolCallFails, SkipTool, LaunchImmediate, LaunchHandler, LaunchNext,
     WaitDone, DrainWaitDone, Settled, FlushEmpty, CollectCancelled, Assemble,
     CancelCtx, vars
<1> QED
  BY <1>1, <1>2, <1>3, <1>4, <1>5, <1>6
  DEF Next, Loop, Preflight, Launch, Drain, Collect, Worker, Finished

\* The events after one more.
LEMMA OneMoreEvent ==
  ASSUME NEW s \in Seq(Event), NEW e \in Event
  PROVE  LET n == Len(s) + 1
         IN  /\ n \in Nat /\ n \notin DOMAIN s /\ DOMAIN s = 1..Len(s)
             /\ Append(s, e) \in Seq(Event) /\ Len(Append(s, e)) = n
             /\ DOMAIN Append(s, e) = DOMAIN s \cup {n}
             /\ \A i \in DOMAIN s : Append(s, e)[i] = s[i] /\ i \in Nat /\ i < n
             /\ Append(s, e)[n] = e
<1>1. /\ Len(s) \in Nat /\ DOMAIN s = 1..Len(s)
      /\ DOMAIN Append(s, e) = 1..Len(s) + 1
      /\ Append(s, e) \in Seq(Event) /\ Len(Append(s, e)) = Len(s) + 1
      /\ \A i \in 1..Len(s) : Append(s, e)[i] = s[i]
      /\ Append(s, e)[Len(s) + 1] = e
  OBVIOUS
<1>2. 1..Len(s) + 1 = (1..Len(s)) \cup {Len(s) + 1}
  BY <1>1
<1> QED
  BY <1>1, <1>2

\* Every call received was reported exactly once, and no other was.
EndsOnce ==
  \A c \in Call :
    /\ c \notin Received => EndsAt(c) = {}
    /\ c \in Received => \E i : EndsAt(c) = {i}

\* The deltas shown and those in the buffer are, in that order, those accepted.
Rank(i) == Cardinality({j \in DeltasAt : j <= i})

InOrder ==
  /\ Len(accepted) = Cardinality(DeltasAt) + Len(deltas)
  /\ \A i \in DeltasAt : events[i] = accepted[Rank(i)]
  /\ \A k \in DOMAIN deltas : /\ deltas[k] = accepted[Cardinality(DeltasAt) + k]
                             /\ deltas[k].kind = "delta"
  /\ pc \in {"collect", "returned"} => deltas = <<>>

\* The log and the results are written when the batch returns, and then complete.
Assembled ==
  /\ pc # "returned" => toolLog = <<>> /\ results = <<>> /\ terminate = FALSE
  /\ pc = "returned" =>
       /\ Received = Call
       /\ toolLog = outcomes /\ results = outcomes /\ (terminate <=> AllStop)

\* One more end is that of its call, and any other event leaves the ends alone.
LEMMA SameEnds ==
  ASSUME events \in Seq(Event), NEW e \in Event, events' = Append(events, e)
  PROVE  \A c \in Call : EndsAt(c)' =
           IF e.kind = "end" /\ e.call = c THEN EndsAt(c) \cup {Len(events) + 1}
                                           ELSE EndsAt(c)
<1> DEFINE n == Len(events) + 1
<1>1. /\ DOMAIN events' = DOMAIN events \cup {n} /\ n \notin DOMAIN events
      /\ \A i \in DOMAIN events : events'[i] = events[i]
      /\ events'[n] = e
  BY OneMoreEvent
<1> HIDE DEF n
<1>2. ASSUME NEW c \in Call
      PROVE  EndsAt(c)' = IF e.kind = "end" /\ e.call = c THEN EndsAt(c) \cup {n}
                                                          ELSE EndsAt(c)
  <2>1. CASE e.kind = "end" /\ e.call = c
    BY <1>1, <2>1 DEF EndsAt
  <2>2. CASE ~(e.kind = "end" /\ e.call = c)
    BY <1>1, <2>2 DEF EndsAt
  <2> QED
    BY <2>1, <2>2
<1> QED
  BY <1>2 DEF n

\* No step loses the report of an outcome, or makes it twice.
LEMMA EndsOnceStep ==
  ASSUME IInv, EndsOnce, InOrder, [Next]_vars
  PROVE  EndsOnce'
<1>0. TypeOK /\ OneOutcomePerCall /\ events \in Seq(Event)
  BY DEF IInv, TypeOK
<1>1. ASSUME NEW e \in Event, e.kind # "end", events' = Append(events, e),
             UNCHANGED outcomes
      PROVE  EndsOnce'
  <2>1. \A c \in Call : EndsAt(c)' = EndsAt(c)
    BY <1>0, <1>1, SameEnds
  <2> QED
    BY <1>1, <2>1 DEF EndsOnce, Received
<1>2. ASSUME UNCHANGED <<events, outcomes>> PROVE EndsOnce'
  BY <1>2 DEF EndsOnce, Received, EndsAt
<1>3. ASSUME NEW c \in Call, events' = Append(events, StartEvent(c)), UNCHANGED outcomes
      PROVE  EndsOnce'
  <2>1. StartEvent(c) \in Event /\ StartEvent(c).kind # "end"
    BY ParallelAssumption DEF StartEvent, Event, ParallelAssumption
  <2> QED
    BY <1>1, <1>3, <2>1
<1>4. CASE Receive
  <2> DEFINE h == Head(done).call
  <2>1. /\ h \in Call /\ h \notin Received /\ Received' = Received \cup {h}
    <3>1. PICK g \in InDone \ Received : g \in Call /\ Received' = Received \cup {g}
      BY <1>0, <1>4, ReceiveMoves
    <3>2. h \in InDone /\ h \in Call
      BY <1>0, <1>4, ReceiveCalls DEF TypeOK, OneOutcomePerCall, Receive, InDone, Outcome
    <3>3. h \notin Received
      BY <1>0, <3>2 DEF OneOutcomePerCall
    <3>4. h \in Received'
      <4>1. outcomes'[h] = Head(done)
        BY <1>0, <1>4, <3>2 DEF Receive, TypeOK
      <4>2. Head(done) # NoOutcome
        BY <3>2 DEF NoOutcome, Call
      <4> QED
        BY <3>2, <4>1, <4>2 DEF Received
    <3> QED
      BY <3>1, <3>2, <3>3, <3>4
  <2>2. EndEvent(h) \in Event /\ events' = Append(events, EndEvent(h))
    BY <1>4, <2>1, ParallelAssumption DEF EndEvent, Event, ParallelAssumption, Receive
  <2>3. \A c \in Call :
          EndsAt(c)' = IF c = h THEN EndsAt(c) \cup {Len(events) + 1} ELSE EndsAt(c)
    <3>1. EndEvent(h).kind = "end" /\ EndEvent(h).call = h
      BY DEF EndEvent
    <3> QED
      BY <1>0, <2>2, <3>1, SameEnds
  <2> HIDE DEF h
  <2> QED
    BY <2>1, <2>3 DEF EndsOnce
<1>5. CASE ShowDelta
  <2>0. deltas[1].kind = "delta"
    BY <1>0, <1>5 DEF InOrder, ShowDelta, TypeOK
  <2>1. /\ Head(deltas) \in Event /\ Head(deltas).kind = "delta"
        /\ events' = Append(events, Head(deltas)) /\ UNCHANGED outcomes
    BY <1>0, <1>5, <2>0 DEF ShowDelta, TypeOK, receiveVars
  <2> QED
    BY <1>1, <2>1
<1>6. ASSUME NEW c \in Call, EmitToolDelta(c) PROVE EndsOnce'
  BY <1>2, <1>6 DEF EmitToolDelta, LoopUnchanged, receiveVars
<1> QED
  BY <1>0, <1>2, <1>3, <1>4, <1>5, <1>6, EventKinds

\* The positions of the deltas shown are finitely many, and the rank of each is
\* its number among them.
LEMMA Ranks ==
  ASSUME events \in Seq(Event)
  PROVE  /\ IsFiniteSet(DeltasAt) /\ Cardinality(DeltasAt) \in Nat
         /\ \A i \in DeltasAt : Rank(i) \in 1..Cardinality(DeltasAt)
<1>1. IsFiniteSet(DeltasAt)
  <2>1. IsFiniteSet(1..Len(events)) /\ DeltasAt \in SUBSET (1..Len(events))
    BY FS_Interval DEF DeltasAt
  <2> QED
    BY <2>1, FS_Subset
<1>2. Cardinality(DeltasAt) \in Nat
  BY <1>1, FS_CardinalityType
<1>3. ASSUME NEW i \in DeltasAt
      PROVE  Rank(i) \in 1..Cardinality(DeltasAt)
  <2> DEFINE R == {j \in DeltasAt : j <= i}
  <2>1. R \in SUBSET DeltasAt
    OBVIOUS
  <2>2. i \in R
    BY DEF DeltasAt
  <2>3. IsFiniteSet(R) /\ Cardinality(R) <= Cardinality(DeltasAt)
    BY <1>1, <2>1, FS_Subset
  <2>4. Cardinality(R) \in Nat /\ Cardinality(R) # 0
    <3> HIDE DEF R
    <3> QED
      BY <2>2, <2>3, FS_CardinalityType, FS_EmptySet
  <2> QED
    BY <1>2, <2>3, <2>4 DEF Rank
<1> QED
  BY <1>1, <1>2, <1>3

\* An event that is no delta leaves the deltas shown and their ranks alone.
LEMMA SameDeltas ==
  ASSUME events \in Seq(Event), NEW e \in Event, e.kind # "delta",
         events' = Append(events, e)
  PROVE  /\ DeltasAt' = DeltasAt
         /\ \A i \in DeltasAt : events'[i] = events[i]
<1> DEFINE n == Len(events) + 1
<1>1. /\ DOMAIN events' = DOMAIN events \cup {n} /\ n \notin DOMAIN events
      /\ \A i \in DOMAIN events : events'[i] = events[i]
      /\ events'[n] = e
  BY OneMoreEvent
<1> HIDE DEF n
<1> QED
  BY <1>1 DEF DeltasAt

\* One more delta is shown: its rank is the number of deltas shown.
LEMMA OneMoreDelta ==
  ASSUME events \in Seq(Event), NEW e \in Event, e.kind = "delta",
         events' = Append(events, e)
  PROVE  /\ Cardinality(DeltasAt)' = Cardinality(DeltasAt) + 1
         /\ DeltasAt' = DeltasAt \cup {Len(events) + 1}
         /\ \A i \in DeltasAt : events'[i] = events[i] /\ Rank(i)' = Rank(i)
         /\ \A i \in {Len(events) + 1} :
              events'[i] = e /\ Rank(i)' = Cardinality(DeltasAt) + 1
<1> DEFINE n == Len(events) + 1
<1>1. /\ DOMAIN events' = DOMAIN events \cup {n} /\ n \notin DOMAIN events
      /\ \A i \in DOMAIN events : events'[i] = events[i] /\ i \in Nat /\ i < n
      /\ events'[n] = e /\ n \in Nat
  BY OneMoreEvent
<1> HIDE DEF n
<1>2. DeltasAt' = DeltasAt \cup {n} /\ n \notin DeltasAt
  BY <1>1 DEF DeltasAt
<1>3. \A i \in DeltasAt : i \in Nat /\ i < n /\ events'[i] = events[i]
  BY <1>1 DEF DeltasAt
<1>4. Cardinality(DeltasAt)' = Cardinality(DeltasAt) + 1
  BY <1>2, Ranks, FS_AddElement
<1>5. ASSUME NEW i \in DeltasAt PROVE Rank(i)' = Rank(i)
  <2>1. {j \in DeltasAt' : j <= i} = {j \in DeltasAt : j <= i}
    BY <1>1, <1>2, <1>3
  <2> QED
    BY <2>1 DEF Rank
<1>6. ASSUME NEW i \in {n} PROVE Rank(i)' = Cardinality(DeltasAt) + 1
  <2>1. {j \in DeltasAt' : j <= i} = DeltasAt'
    BY <1>1, <1>2, <1>3
  <2> QED
    BY <1>4, <2>1 DEF Rank
<1> QED
  BY <1>1, <1>2, <1>3, <1>4, <1>5, <1>6 DEF n

\* No step shows a delta out of order, twice, or not at all.
LEMMA InOrderStep ==
  ASSUME IInv, InOrder, [Next]_vars
  PROVE  InOrder'
<1> DEFINE N == Cardinality(DeltasAt)
<1>0. /\ TypeOK /\ Stages /\ events \in Seq(Event)
      /\ deltas \in Seq(Event) /\ accepted \in Seq(Event)
      /\ N \in Nat /\ Len(deltas) \in Nat /\ Len(accepted) = N + Len(deltas)
      /\ \A i \in DeltasAt : Rank(i) \in 1..N
  BY Ranks DEF IInv, TypeOK, InOrder
<1>1. ASSUME UNCHANGED deltas
      PROVE  pc' \in {"collect", "returned"} => deltas' = <<>>
  <2>1. pc' \in {"collect", "returned"} => pc \in {"collect", "returned"} \/ deltas = <<>>
    BY DEF Next, Loop, Preflight, Launch, Drain, Collect, Worker, Finished, vars,
       BeforeToolCallFails, StartTool, SkipTool, LaunchImmediate, LaunchHandler,
       LaunchNext, Advance, EmitToolDelta, HandlerReturns, GoroutineExits,
       LoopUnchanged, WaitDone, DrainDelta, DrainOutcome, DrainWaitDone, Settled,
       FlushDelta, FlushEmpty, NothingBuffered, CollectOutcome, CollectCancelled, Assemble,
       CancelCtx, Exit, Yield, BreakDrain
  <2> QED
    BY <1>1, <2>1 DEF InOrder
<1>2. ASSUME UNCHANGED <<deltas, accepted>>, DeltasAt' = DeltasAt,
             \A i \in DeltasAt : events'[i] = events[i]
      PROVE  InOrder'
  <2>1. \A i \in DeltasAt : Rank(i)' = Rank(i)
    BY <1>2 DEF Rank
  <2> QED
    BY <1>1, <1>2, <2>1 DEF InOrder
<1>3. ASSUME UNCHANGED <<events, deltas, accepted>> PROVE InOrder'
  BY <1>2, <1>3 DEF DeltasAt
<1>4. ASSUME NEW c \in Call, events' = Append(events, StartEvent(c)),
             UNCHANGED <<deltas, accepted>>
      PROVE  InOrder'
  <2>1. StartEvent(c) \in Event /\ StartEvent(c).kind # "delta"
    BY ParallelAssumption DEF StartEvent, Event, ParallelAssumption
  <2> QED
    BY <1>0, <1>2, <1>4, <2>1, SameDeltas
<1>5. CASE Receive
  <2> DEFINE h == Head(done).call
  <2>1. h \in Call
    <3>1. done \in Seq(Outcome) /\ done # <<>>
      BY <1>0, <1>5 DEF TypeOK, Receive
    <3>2. Head(done) \in Outcome
      BY <3>1
    <3> QED
      BY <3>2 DEF Outcome
  <2>2. EndEvent(h) \in Event /\ EndEvent(h).kind # "delta"
    BY <2>1, ParallelAssumption DEF EndEvent, Event, ParallelAssumption
  <2>3. events' = Append(events, EndEvent(h)) /\ UNCHANGED <<deltas, accepted>>
    BY <1>5 DEF Receive
  <2> QED
    BY <1>0, <1>2, <2>2, <2>3, SameDeltas
<1>6. CASE ShowDelta /\ pc \in {"drain", "flush"}
  <2>1. /\ Len(deltas) >= 1 /\ Head(deltas) = deltas[1] /\ 1 \in DOMAIN deltas
        /\ Head(deltas) \in Event /\ deltas' = Tail(deltas)
        /\ events' = Append(events, Head(deltas)) /\ UNCHANGED accepted
    BY <1>0, <1>6 DEF ShowDelta
  <2>2. Head(deltas).kind = "delta" /\ Head(deltas) = accepted[N + 1]
    BY <2>1 DEF InOrder
  <2>3. /\ Cardinality(DeltasAt)' = N + 1
        /\ DeltasAt' = DeltasAt \cup {Len(events) + 1}
        /\ \A i \in DeltasAt : events'[i] = events[i] /\ Rank(i)' = Rank(i)
        /\ \A i \in {Len(events) + 1} :
             events'[i] = Head(deltas) /\ Rank(i)' = N + 1
    BY <1>0, <2>1, <2>2, OneMoreDelta
  <2>4. /\ Len(deltas') = Len(deltas) - 1
        /\ DOMAIN deltas' = 1..Len(deltas) - 1
        /\ \A k \in 1..Len(deltas) - 1 :
             deltas'[k] = deltas[k + 1] /\ k + 1 \in DOMAIN deltas
    BY <1>0, <2>1
  <2>5. Len(accepted') = Cardinality(DeltasAt)' + Len(deltas')
    BY <1>0, <2>1, <2>3, <2>4
  <2>6. \A i \in DeltasAt' : events'[i] = accepted'[Rank(i)']
    BY <2>1, <2>2, <2>3 DEF InOrder
  <2>7. ASSUME NEW k \in DOMAIN deltas'
        PROVE  /\ deltas'[k] = accepted'[Cardinality(DeltasAt)' + k]
               /\ deltas'[k].kind = "delta"
    <3>1. /\ deltas'[k] = deltas[k + 1] /\ k + 1 \in DOMAIN deltas /\ k \in Nat
          /\ N + (k + 1) = N + 1 + k
      BY <1>0, <2>4
    <3> QED
      BY <2>1, <2>3, <3>1 DEF InOrder
  <2>8. pc' \notin {"collect", "returned"}
    BY <1>6 DEF Next, Loop, Preflight, Launch, Drain, Collect, Worker, Finished, vars,
       BeforeToolCallFails, StartTool, SkipTool, LaunchImmediate, LaunchHandler,
       LaunchNext, EmitToolDelta, HandlerReturns, GoroutineExits, channelVars,
       LoopUnchanged, WaitDone, DrainDelta, DrainOutcome, DrainWaitDone, Settled,
       FlushDelta, FlushEmpty, CollectOutcome, CollectCancelled, Assemble,
       CancelCtx, Exit, Yield, BreakDrain, ShowDelta, Receive, Quiet
  <2> QED
    BY <2>5, <2>6, <2>7, <2>8 DEF InOrder, Rank
<1>7. ASSUME NEW c \in Call, EmitToolDelta(c) PROVE InOrder'
  <2> DEFINE d == DeltaEvent(c, emitted[c] + 1)
  <2>1. UNCHANGED <<events, pc>> /\ worker[c] = "running"
    BY <1>7 DEF EmitToolDelta, LoopUnchanged
  <2>2. pc' \notin {"collect", "returned"}
    BY <1>0, <2>1 DEF Stages, Ended
  <2>3. DeltasAt' = DeltasAt /\ \A i \in DeltasAt : Rank(i)' = Rank(i)
    BY <2>1 DEF DeltasAt, Rank
  <2>4. CASE UNCHANGED <<deltas, accepted>>
    BY <1>3, <2>1, <2>4
  <2>5. CASE deltas' = Append(deltas, d) /\ accepted' = Append(accepted, d)
    <3>1. d \in Event /\ d.kind = "delta"
      <4>1. emitted[c] \in 0..MaxDeltas /\ emitted[c] < MaxDeltas
        BY <1>0, <1>7 DEF EmitToolDelta, TypeOK
      <4>2. emitted[c] + 1 \in 0..MaxDeltas
        BY <4>1, ParallelAssumption DEF ParallelAssumption
      <4> QED
        BY <4>2 DEF DeltaEvent, Event
    <3> HIDE DEF d
    <3>2. /\ Len(deltas') = Len(deltas) + 1
          /\ \A k \in DOMAIN deltas : deltas'[k] = deltas[k] /\ k \in 1..Len(deltas)
          /\ deltas'[Len(deltas) + 1] = d
          /\ DOMAIN deltas' = DOMAIN deltas \cup {Len(deltas) + 1}
      BY <1>0, <2>5, <3>1, OneMoreEvent
    <3>3. /\ Len(accepted') = Len(accepted) + 1
          /\ \A k \in 1..Len(accepted) : accepted'[k] = accepted[k]
          /\ accepted'[Len(accepted) + 1] = d
      BY <1>0, <2>5, <3>1, OneMoreEvent
    <3>4. Len(accepted') = N + Len(deltas')
      BY <1>0, <3>2, <3>3
    <3>5. ASSUME NEW i \in DeltasAt PROVE events[i] = accepted'[Rank(i)]
      <4>1. events[i] = accepted[Rank(i)]
        BY DEF InOrder
      <4>2. Rank(i) \in 1..Len(accepted)
        BY <1>0 DEF InOrder
      <4> QED
        BY <3>3, <4>1, <4>2
    <3>6. ASSUME NEW k \in DOMAIN deltas'
          PROVE  deltas'[k] = accepted'[N + k] /\ deltas'[k].kind = "delta"
      <4>1. CASE k \in DOMAIN deltas
        <5>1. deltas[k] = accepted[N + k] /\ deltas[k].kind = "delta"
          BY <4>1 DEF InOrder
        <5>2. N + k \in 1..Len(accepted) /\ deltas'[k] = deltas[k]
          BY <1>0, <3>2, <4>1
        <5> QED
          BY <3>3, <5>1, <5>2
      <4>2. CASE k = Len(deltas) + 1
        BY <1>0, <3>1, <3>2, <3>3, <4>2
      <4> QED
        BY <3>2, <4>1, <4>2
    <3> HIDE DEF N
    <3> QED
      BY <2>1, <2>2, <2>3, <3>4, <3>5, <3>6 DEF InOrder, N
  <2> QED
    BY <1>7, <2>4, <2>5 DEF EmitToolDelta
<1> QED
  BY <1>0, <1>3, <1>4, <1>5, <1>6, <1>7, EventKinds

\* The results and the log appear when the batch returns, and only then.
LEMMA AssembledStep ==
  ASSUME IInv, Assembled, [Next]_vars
  PROVE  Assembled'
<1> USE DEF goVars, channelVars, receiveVars, returnVars, LoopUnchanged, Quiet, Exit,
      Yield, BreakDrain
<1>1. ASSUME UNCHANGED <<toolLog, results, terminate>>, pc # "returned", pc' # "returned"
      PROVE  Assembled'
  BY <1>1 DEF Assembled
<1>2. ASSUME UNCHANGED <<pc, toolLog, results, terminate, outcomes>> PROVE Assembled'
  BY <1>2 DEF Assembled, Received, AllStop
<1>3. CASE BeforeToolCallFails \/ StartTool \/ SkipTool
  BY <1>1, <1>3 DEF BeforeToolCallFails, StartTool, SkipTool, Advance
<1>4. CASE LaunchImmediate \/ LaunchHandler
  BY <1>1, <1>4 DEF LaunchImmediate, LaunchHandler, LaunchNext, Advance
<1>5. CASE \E c \in Call : Worker(c)
  BY <1>2, <1>5 DEF Worker, EmitToolDelta, HandlerReturns, GoroutineExits
<1>6. CASE WaitDone \/ CancelCtx \/ UNCHANGED vars
  BY <1>2, <1>6 DEF WaitDone, CancelCtx, vars
<1>7. CASE DrainDelta \/ FlushDelta
  BY <1>1, <1>7 DEF DrainDelta, FlushDelta, ShowDelta
<1>8. CASE DrainOutcome \/ CollectOutcome
  BY <1>1, <1>8 DEF DrainOutcome, CollectOutcome, Receive
<1>9. CASE DrainWaitDone \/ Settled \/ FlushEmpty \/ CollectCancelled
  BY <1>1, <1>9 DEF DrainWaitDone, Settled, FlushEmpty, CollectCancelled
<1>10. CASE Assemble
  <2>1. Received' = Call
    <3>1. Received \in SUBSET Call /\ Cardinality(Call \ Received) = 0
      BY <1>10 DEF Assemble, IInv, OneOutcomePerCall, Received
    <3> QED
      BY <1>10, <3>1, AllReceived DEF Assemble, Received
  <2> QED
    BY <1>10, <2>1 DEF Assemble, Assembled, AllStop
<1> QED
  BY <1>3, <1>4, <1>5, <1>6, <1>7, <1>8, <1>9, <1>10
  DEF Next, Loop, Preflight, Launch, Drain, Collect, Finished

\* What the consumer saw and what is handed back, as an invariant.
History == EndsOnce /\ InOrder /\ Assembled

\* A batch starts with nothing read and nothing yielded.
LEMMA InitHistory == Init => History
<1> SUFFICES ASSUME Init PROVE History
  OBVIOUS
<1>1. Received = {} /\ DeltasAt = {} /\ \A c \in Call : EndsAt(c) = {}
  BY DEF Init, Received, DeltasAt, EndsAt
<1>2. Cardinality(DeltasAt) = 0
  BY <1>1, FS_EmptySet
<1>3. EndsOnce
  BY <1>1 DEF EndsOnce
<1>4. InOrder
  BY <1>1, <1>2 DEF InOrder, Init
<1>5. Assembled
  BY DEF Assembled, Init
<1> QED
  BY <1>3, <1>4, <1>5 DEF History

\* Every step keeps the account of what was sent, read and yielded.
LEMMA NextHistory == IInv /\ History /\ [Next]_vars => History'
BY EndsOnceStep, InOrderStep, AssembledStep DEF History

\* What was seen and what is handed back stays right in every state.
LEMMA HistoryInvariant == Spec => [](IInv /\ History)
BY InitIInv, NextIInv, InitHistory, NextHistory, PTL DEF Spec

\* A batch that returns reported every call exactly once, and its results and its
\* log entries are the outcomes in the order of the message, with the AND over them.
THEOREM ReturnsComplete == Spec => []ReturnedComplete
<1>1. IInv /\ History => ReturnedComplete
  <2> SUFFICES ASSUME IInv, History, pc = "returned" PROVE ReturnedComplete
    BY DEF ReturnedComplete
  <2>1. /\ Received = Call /\ toolLog = outcomes /\ results = outcomes
        /\ terminate <=> AllStop
    BY DEF History, Assembled
  <2>2. outcomes \in [1..NumCalls -> Outcome \cup {NoOutcome}] /\ NumCalls \in Nat
    BY ParallelAssumption DEF IInv, TypeOK, Call, ParallelAssumption
  <2>3. Len(results) = NumCalls
    BY <2>1, <2>2
  <2>4. ASSUME NEW c \in Call
        PROVE  results[c].call = c /\ Cardinality(EndsAt(c)) = 1
    <3>1. PICK i : EndsAt(c) = {i}
      BY <2>1 DEF History, EndsOnce
    <3>2. Cardinality(EndsAt(c)) = 1
      BY <3>1, FS_Singleton
    <3>3. outcomes[c] # NoOutcome
      BY <2>1 DEF Received
    <3> QED
      BY <2>1, <3>2, <3>3 DEF IInv, OneOutcomePerCall
  <2>5. terminate <=> \A c \in Call : results[c].stop
    BY <2>1 DEF AllStop
  <2> QED
    BY <2>1, <2>3, <2>4, <2>5 DEF ReturnedComplete
<1> QED
  BY HistoryInvariant, <1>1, PTL

\* Every delta the buffer took is shown once, in the order it was taken, and none
\* is left behind when the batch returns; for any number of handlers pushing.
THEOREM NoDeltaLost == Spec => []DeltasShown
<1>1. IInv /\ History => DeltasShown
  BY DEF History, InOrder, DeltasShown, Rank
<1> QED
  BY HistoryInvariant, <1>1, PTL

-----------------------------------------------------------------------------
(* The refinement: a parallel batch is a tool batch.                       *)

\* An outcome received is a call settled, whether or not the consumer stays.
LEMMA SettleStep ==
  ASSUME TypeOK, OneOutcomePerCall, Receive, ~Ended,
         UNCHANGED pc \/ pc' = "aborted" \/ ~Ended'
  PROVE  \E c \in Contract!Call : Contract!Settle(c)
<1>1. PICK o \in Outcome : o = Head(done) /\ o.call \in InDone
  <2>1. done \in Seq(Outcome) /\ done # <<>> /\ Distinct(done)
    BY DEF TypeOK, OneOutcomePerCall, Receive
  <2> QED
    BY <2>1, ReceiveCalls DEF InDone
<1>2. /\ o.call \in Call /\ o.stop \in BOOLEAN
      /\ o = [call |-> o.call, stop |-> o.stop]
  BY <1>1 DEF Outcome
<1>3. outcomes[o.call] = NoOutcome
  BY <1>1, <1>2 DEF OneOutcomePerCall, Received
<1>4. outcomes' = [outcomes EXCEPT ![o.call] = [call |-> o.call, stop |-> o.stop]]
  BY <1>1, <1>2 DEF Receive
<1>5. UNCHANGED <<toolLog, results, terminate>>
  BY DEF Receive, returnVars
<1>6. Contract!Settle(o.call)
  BY <1>2, <1>3, <1>4, <1>5 DEF Contract!Settle, Contract!NoOutcome, NoOutcome, Ended
<1> QED
  BY <1>2, <1>6 DEF Contract!Call, Call

\* Every behaviour of the parallel batch, its goroutines and channels hidden, is
\* one the contract of a tool batch allows.
THEOREM ParallelImplementsContract == Spec => ImplementsToolBatch
<1> USE DEF goVars, channelVars, receiveVars, returnVars, LoopUnchanged, Quiet, Exit,
      Yield, BreakDrain
<1>1. ASSUME Init PROVE Contract!Init
  BY <1>1 DEF Init, Contract!Init, Contract!NoOutcome, NoOutcome, Contract!Call, Call, Ended
<1>2. ASSUME IInv, History, [Next]_vars PROVE [Contract!Next]_Contract!vars
  <2>1. ASSUME UNCHANGED <<outcomes, toolLog, results, terminate>>, Ended' <=> Ended,
               Ended => pc' = pc
        PROVE  UNCHANGED Contract!vars
    BY <2>1 DEF Contract!vars
  <2>2. ASSUME UNCHANGED <<outcomes, toolLog, results, terminate>>, ~Ended,
               pc' = "aborted"
        PROVE  Contract!Next
    BY <2>2 DEF Contract!Next, Contract!Abort, Ended
  <2>3. ASSUME Receive, ~Ended, UNCHANGED pc \/ pc' = "aborted" \/ ~Ended'
        PROVE  Contract!Next
    BY <1>2, <2>3, SettleStep DEF IInv, Contract!Next
  <2>4. CASE BeforeToolCallFails \/ StartTool \/ SkipTool
    BY <2>1, <2>2, <2>4 DEF BeforeToolCallFails, StartTool, SkipTool, Advance, Ended
  <2>5. CASE LaunchImmediate \/ LaunchHandler
    BY <2>1, <2>5 DEF LaunchImmediate, LaunchHandler, LaunchNext, Advance, Ended
  <2>6. CASE \E c \in Call : Worker(c)
    BY <2>1, <2>6 DEF Worker, EmitToolDelta, HandlerReturns, GoroutineExits, Ended
  <2>7. CASE WaitDone \/ CancelCtx \/ UNCHANGED vars
    BY <2>1, <2>7 DEF WaitDone, CancelCtx, vars, Ended
  <2>8. CASE DrainDelta \/ FlushDelta
    BY <2>1, <2>2, <2>8 DEF DrainDelta, FlushDelta, ShowDelta, Ended
  <2>9. CASE DrainOutcome
    BY <2>3, <2>9 DEF DrainOutcome, Ended
  <2>10. CASE CollectOutcome
    BY <2>3, <2>10 DEF CollectOutcome, Ended
  <2>11. CASE DrainWaitDone \/ Settled \/ FlushEmpty \/ CollectCancelled
    BY <2>1, <2>2, <2>11 DEF DrainWaitDone, Settled, FlushEmpty, CollectCancelled, Ended
  <2>12. CASE Assemble
    <3>1. Received' = Call /\ Received' = Received
      BY <1>2, <2>12, AssembledStep DEF Assemble, Received, History, Assembled
    <3>2. \A c \in Call : outcomes[c] # NoOutcome
      BY <3>1 DEF Received
    <3>3. toolLog = <<>>
      BY <1>2, <2>12 DEF Assemble, History, Assembled
    <3>4. Contract!Return
      BY <2>12, <3>2, <3>3
      DEF Assemble, Contract!Return, Contract!NoOutcome, NoOutcome, Contract!Call, Call,
          AllStop, Ended
    <3> QED
      BY <3>4 DEF Contract!Next
  <2> QED
    BY <1>2, <2>4, <2>5, <2>6, <2>7, <2>8, <2>9, <2>10, <2>11, <2>12
    DEF Next, Loop, Preflight, Launch, Drain, Collect, Finished
<1> QED
  BY <1>1, <1>2, HistoryInvariant, PTL DEF Spec, ImplementsToolBatch, Contract!Spec

-----------------------------------------------------------------------------
(* The batch runs out of steps.                                            *)

\* How far each goroutine is from its end: the stage it is in, and, where it repeats
\* a step, how often it still can.
LoopStage(place) ==
  CASE place = "preflight" -> 6
    [] place = "launch"    -> 5
    [] place = "drain"     -> 4
    [] place = "settle"    -> 3
    [] place = "flush"     -> 3
    [] place = "collect"   -> 2
    [] OTHER               -> 1

LoopLeft ==
  IF pc \in {"preflight", "launch"} THEN NumCalls - next
  ELSE IF pc = "drain" THEN Len(done) + Len(deltas)
  ELSE IF pc = "flush" THEN Len(deltas)
  ELSE IF pc = "collect" THEN pending
  ELSE 0

LoopCloser ==
  \/ LoopStage(pc') < LoopStage(pc)
  \/ pc' = pc /\ LoopLeft' < LoopLeft

LoopAsFar == pc' = pc /\ LoopLeft' = LoopLeft

WorkerStage(place) ==
  CASE place = "idle"    -> 4
    [] place = "running" -> 3
    [] place = "sent"    -> 2
    [] OTHER             -> 1

WorkerCloser(c) ==
  \/ WorkerStage(worker'[c]) < WorkerStage(worker[c])
  \/ /\ worker'[c] = worker[c]
     /\ emitted[c] < MaxDeltas
     /\ emitted'[c] = emitted[c] + 1

WorkerAsFar(c) == worker'[c] = worker[c] /\ emitted'[c] = emitted[c]

\* A handler pushes into the loop's channels.
Pushes == \E c \in Call : EmitToolDelta(c) \/ HandlerReturns(c)

\* What taking from a channel, or from the slots, leaves to take.
LEMMA LessToTake ==
  ASSUME IInv
  PROVE  /\ next \in 1..NumCalls /\ NumCalls \in Nat /\ pending \in Nat
         /\ Len(done) \in Nat /\ Len(deltas) \in Nat
         /\ ShowDelta => Len(deltas') = Len(deltas) - 1 /\ done' = done
         /\ Receive => /\ Len(done') = Len(done) - 1 /\ deltas' = deltas
                       /\ pending' = pending - 1
<1>1. /\ next \in 1..NumCalls /\ NumCalls \in Nat /\ pending \in 0..NumCalls
      /\ done \in Seq(Outcome) /\ deltas \in Seq(Event)
  BY ParallelAssumption DEF ParallelAssumption, IInv, TypeOK, Call
<1>2. ShowDelta => Len(deltas') = Len(deltas) - 1 /\ done' = done
  BY <1>1 DEF ShowDelta
<1>3. Receive => /\ Len(done') = Len(done) - 1 /\ deltas' = deltas
                 /\ pending' = pending - 1
  BY <1>1 DEF Receive
<1>4. pending \in Nat
  BY <1>1
<1>5. Len(done) \in Nat /\ Len(deltas) \in Nat
  BY <1>1
<1> QED
  BY <1>1, <1>2, <1>3, <1>4, <1>5

LoopCounted == LoopLeft \in Nat

\* What is left to the loop is counted in natural numbers.
LEMMA LeftIsNatural == IInv => LoopCounted
<1> SUFFICES ASSUME IInv PROVE LoopLeft \in Nat
  BY DEF LoopCounted
<1>1. /\ next \in 1..NumCalls /\ NumCalls \in Nat /\ pending \in Nat
      /\ Len(done) \in Nat /\ Len(deltas) \in Nat
  BY LessToTake
<1> QED
  BY <1>1 DEF LoopLeft

\* Each step of the loop takes it to a later stage, or to a later slot, or takes one
\* thing off a channel.
LEMMA LoopComesCloser ==
  ASSUME IInv, Loop
  PROVE  LoopCloser
<1>0. /\ next \in 1..NumCalls /\ NumCalls \in Nat /\ pending \in Nat
      /\ Len(done) \in Nat /\ Len(deltas) \in Nat
  BY LessToTake
<1> DEFINE Later == LoopStage(pc') < LoopStage(pc)
<1>1. CASE Preflight
  <2>1. \/ pc = "preflight" /\ pc' \in {"launch", "aborted"}
        \/ pc = "preflight" /\ pc' = "preflight" /\ next' = next + 1
    BY <1>1 DEF Preflight, BeforeToolCallFails, StartTool, SkipTool, Advance
  <2> QED
    BY <1>0, <2>1 DEF LoopCloser, LoopStage, LoopLeft
<1>2. CASE Launch
  <2>1. \/ pc = "launch" /\ pc' = "drain"
        \/ pc = "launch" /\ pc' = "launch" /\ next' = next + 1
    BY <1>2 DEF Launch, LaunchImmediate, LaunchHandler, LaunchNext, Advance
  <2> QED
    BY <1>0, <2>1 DEF LoopCloser, LoopStage, LoopLeft
<1>3. CASE DrainDelta \/ FlushDelta
  <2>1. ShowDelta /\ pc \in {"drain", "flush"}
    BY <1>3 DEF DrainDelta, FlushDelta
  <2>2. \/ pc' = pc
        \/ pc = "drain" /\ pc' = "settle"
        \/ pc = "flush" /\ pc' = "aborted"
    BY <1>3 DEF DrainDelta, FlushDelta, BreakDrain, Yield, Exit
  <2>3. Len(deltas') = Len(deltas) - 1 /\ done' = done
    BY <2>1, LessToTake
  <2>4. CASE pc' = pc
    BY <1>0, <2>1, <2>3, <2>4 DEF LoopCloser, LoopLeft
  <2>5. CASE pc' # pc
    BY <2>2, <2>5 DEF LoopCloser, LoopStage
  <2> QED
    BY <2>4, <2>5
<1>4. CASE DrainOutcome \/ CollectOutcome
  <2>1. Receive /\ pc \in {"drain", "collect"}
    BY <1>4 DEF DrainOutcome, CollectOutcome
  <2>2. \/ pc' = pc
        \/ pc = "drain" /\ pc' \in {"settle", "flush"}
        \/ pc = "collect" /\ pc' = "aborted"
    BY <1>4 DEF DrainOutcome, CollectOutcome, BreakDrain, Yield, Exit
  <2>3. Len(done') = Len(done) - 1 /\ deltas' = deltas /\ pending' = pending - 1
    BY <2>1, LessToTake
  <2>4. CASE pc' = pc
    BY <1>0, <2>1, <2>3, <2>4 DEF LoopCloser, LoopLeft
  <2>5. CASE pc' # pc
    BY <2>2, <2>5 DEF LoopCloser, LoopStage
  <2> QED
    BY <2>4, <2>5
<1>5. CASE DrainWaitDone \/ Settled \/ FlushEmpty \/ CollectCancelled \/ Assemble
  <2>1. \/ pc = "drain" /\ pc' = "flush"
        \/ pc = "settle" /\ pc' = "aborted"
        \/ pc = "flush" /\ pc' = "collect"
        \/ pc = "collect" /\ pc' \in {"aborted", "returned"}
    BY <1>5 DEF DrainWaitDone, Settled, FlushEmpty, CollectCancelled, Assemble, Exit
  <2> QED
    BY <2>1 DEF LoopCloser, LoopStage
<1> QED
  BY <1>1, <1>2, <1>3, <1>4, <1>5 DEF Loop, Drain, Collect

\* What others change of the channels is no matter to a loop that is not at them.
LEMMA LoopNotConcerned ==
  ASSUME UNCHANGED <<pc, next, pending>>,
         \/ pc \notin {"drain", "flush"}
         \/ UNCHANGED <<done, deltas>>
  PROVE  LoopAsFar
<1>1. CASE pc \in {"preflight", "launch", "collect"}
  BY <1>1 DEF LoopAsFar, LoopLeft
<1>2. CASE pc \in {"drain", "flush"}
  BY <1>2 DEF LoopAsFar, LoopLeft
<1>3. CASE pc \notin {"preflight", "launch", "collect", "drain", "flush"}
  BY <1>3 DEF LoopAsFar, LoopLeft
<1> QED
  BY <1>1, <1>2, <1>3

\* A goroutine's step leaves the loop as far, or pushes while the loop drains: once
\* the drain is over no handler runs that could.
LEMMA WorkersAndLoop ==
  ASSUME IInv, NEW c \in Call, Worker(c)
  PROVE  LoopAsFar \/ (pc = "drain" /\ Pushes)
<1>1. pc' = pc /\ next' = next /\ pending' = pending
  BY DEF Worker, EmitToolDelta, HandlerReturns, GoroutineExits, LoopUnchanged, receiveVars
<1>2. CASE GoroutineExits(c)
  BY <1>1, <1>2, LoopNotConcerned DEF GoroutineExits, channelVars
<1>3. CASE EmitToolDelta(c) \/ HandlerReturns(c)
  <2>1. Pushes
    BY <1>3 DEF Pushes
  <2>2. pc # "flush"
    BY <1>3 DEF EmitToolDelta, HandlerReturns, IInv, Stages
  <2>3. CASE pc # "drain"
    BY <1>1, <2>2, <2>3, LoopNotConcerned
  <2> QED
    BY <2>1, <2>3
<1> QED
  BY <1>2, <1>3 DEF Worker

\* A goroutine only goes forward: launched once, it emits at most MaxDeltas deltas,
\* sends once and exits.
LEMMA WorkersGoForward ==
  ASSUME IInv, NEW c \in Call, [Next]_vars
  PROVE  /\ Worker(c) => WorkerCloser(c)
         /\ WorkerCloser(c) \/ WorkerAsFar(c)
<1> DEFINE Forward == WorkerCloser(c) \/ WorkerAsFar(c)
<1>0. /\ worker \in [Call -> {"idle", "running", "sent", "exited"}]
      /\ emitted \in [Call -> 0..MaxDeltas]
  BY DEF IInv, TypeOK
<1>1. ASSUME NEW d \in Call, Worker(d)
      PROVE  IF d = c THEN WorkerCloser(c) ELSE WorkerAsFar(c)
  <2>1. CASE EmitToolDelta(d)
    BY <1>0, <2>1 DEF EmitToolDelta, goVars, WorkerCloser, WorkerAsFar
  <2>2. CASE HandlerReturns(d)
    BY <1>0, <2>2 DEF HandlerReturns, WorkerCloser, WorkerAsFar, WorkerStage
  <2>3. CASE GoroutineExits(d)
    BY <1>0, <2>3 DEF GoroutineExits, channelVars, WorkerCloser, WorkerAsFar, WorkerStage
  <2> QED
    BY <1>1, <2>1, <2>2, <2>3 DEF Worker
<1>2. ASSUME LaunchHandler PROVE Forward
  <2>1. /\ worker' = [worker EXCEPT ![next] = "running"] /\ emitted' = emitted
        /\ next \in Call
    BY <1>2 DEF LaunchHandler, channelVars, IInv, TypeOK
  <2>2. worker[next] = "idle"
    <3>1. pc = "launch" /\ next >= next
      BY <1>2, <2>1, ParallelAssumption
      DEF LaunchHandler, LaunchNext, Call, ParallelAssumption
    <3> QED
      BY <2>1, <3>1 DEF IInv, Stages
  <2> QED
    BY <1>0, <2>1, <2>2 DEF WorkerCloser, WorkerAsFar, WorkerStage
<1>3. ASSUME UNCHANGED <<worker, emitted>> PROVE Forward
  BY <1>3 DEF WorkerAsFar
<1>4. ASSUME LaunchImmediate PROVE Forward
  BY <1>3, <1>4 DEF LaunchImmediate
<1>5. ASSUME Preflight PROVE Forward
  BY <1>3, <1>5 DEF Preflight, BeforeToolCallFails, StartTool, SkipTool, goVars, channelVars
<1>6. ASSUME Drain \/ Collect \/ Assemble PROVE Forward
  BY <1>3, <1>6 DEF Drain, Collect, Assemble, DrainDelta, DrainOutcome, DrainWaitDone,
     Settled, FlushDelta, FlushEmpty, CollectOutcome, CollectCancelled, ShowDelta,
     Receive, Quiet, goVars, channelVars
<1>7. ASSUME WaitDone \/ CancelCtx \/ UNCHANGED vars PROVE Forward
  BY <1>3, <1>7 DEF WaitDone, CancelCtx, vars, goVars, channelVars
<1> QED
  BY <1>1, <1>2, <1>4, <1>5, <1>6, <1>7 DEF Next, Loop, Launch, Finished

\* No step of anybody holds the loop back, but what a handler pushes while it drains.
LEMMA NobodyHoldsBack ==
  ASSUME IInv, [Next]_vars
  PROVE  LoopCloser \/ LoopAsFar \/ (pc = "drain" /\ Pushes)
<1>1. CASE WaitDone \/ CancelCtx \/ UNCHANGED vars
  BY <1>1, LoopNotConcerned DEF WaitDone, CancelCtx, LoopUnchanged, vars, goVars,
     channelVars, receiveVars
<1> QED
  BY <1>1, LoopComesCloser, WorkersAndLoop DEF Next, Finished

-----------------------------------------------------------------------------
\* Every step of the loop takes it closer to its end, every step of a goroutine takes
\* that goroutine closer to its own, and neither is ever set back, except the draining
\* loop by what a handler pushes, MaxDeltas deltas and one outcome at most: a batch
\* whose handlers return cannot go on for ever.
THEOREM BatchRunsOut ==
  Spec => /\ []LoopCounted
          /\ [][/\ Loop => LoopCloser
                /\ LoopCloser \/ LoopAsFar \/ (pc = "drain" /\ Pushes)
                /\ \A c \in Call : /\ Worker(c) => WorkerCloser(c)
                                   /\ WorkerCloser(c) \/ WorkerAsFar(c)]_vars
<1>1. IInv /\ [Next]_vars =>
        [/\ Loop => LoopCloser
         /\ LoopCloser \/ LoopAsFar \/ (pc = "drain" /\ Pushes)
         /\ \A c \in Call : /\ Worker(c) => WorkerCloser(c)
                            /\ WorkerCloser(c) \/ WorkerAsFar(c)]_vars
  BY LoopComesCloser, NobodyHoldsBack, WorkersGoForward
<1> QED
  BY <1>1, LeftIsNatural, Inductive, PTL DEF Spec
=============================================================================

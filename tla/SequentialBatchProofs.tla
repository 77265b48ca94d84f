------------------------ MODULE SequentialBatchProofs ------------------------
(***************************************************************************)
(* Proofs about SequentialBatch, for any number of calls and deltas and    *)
(* for both kinds of consumer.  IInv is inductive: at every place of the   *)
(* loop the results are exactly those of the calls before it, and no event *)
(* of a later call is out yet.                                             *)
(***************************************************************************)
EXTENDS SequentialBatch, TLAPS

TypeOK ==
  /\ pc \in {"preflight", "handler", "report", "returned", "aborted", "panicked"}
  /\ next \in Call
  /\ rangeLoop \in BOOLEAN
  /\ looping \in BOOLEAN
  /\ results \in Seq(Outcome)
  /\ terminate \in BOOLEAN
  /\ events \in Seq(Event)
  /\ ran \subseteq Call

\* The log and the results are those of the calls that are over, in order, and
\* terminate is the AND over them.
Books ==
  /\ toolLog = results
  /\ \A c \in 1..Len(results) : results[c].call = c
  /\ terminate <=> \A c \in 1..Len(results) : results[c].stop
  /\ pc \in {"preflight", "handler"} => Len(results) = next - 1
  /\ pc = "report" => Len(results) = next
  /\ pc = "returned" => Len(results) = NumCalls
  /\ Len(results) <= NumCalls

\* A handler that ran has its outcome, but for the one that runs or panicked.
Handlers ==
  /\ pc \in {"preflight", "report", "returned", "aborted"} => ran \subseteq 1..Len(results)
  /\ pc = "handler" => next \in ran /\ ran \subseteq 1..next
  /\ ~looping => pc \notin {"preflight", "returned"}

\* What the consumer has seen so far.
Shown ==
  /\ \A j \in DOMAIN events :
       /\ events[j].call <= next
       /\ pc = "preflight" => events[j].call < next
       /\ events[j].kind = "end" =>
            /\ events[j].call <= Len(results)
            /\ pc \in {"preflight", "handler", "report"} => events[j].call < next
  /\ \A c \in ran : Positions("start", c) # {}

IInv == TypeOK /\ Books /\ Handlers /\ Shown /\ BracketsNest

-----------------------------------------------------------------------------
(* Books: the results, the log and terminate.                              *)

\* What one more outcome does to the books, with c outcomes in them.
LEMMA OneMoreOutcome ==
  ASSUME NEW s \in Seq(Outcome), NEW o \in Outcome, NEW t \in BOOLEAN,
         t <=> \A c \in 1..Len(s) : s[c].stop, o.call = Len(s) + 1,
         \A c \in 1..Len(s) : s[c].call = c
  PROVE  /\ Append(s, o) \in Seq(Outcome)
         /\ Len(Append(s, o)) = Len(s) + 1
         /\ \A c \in 1..Len(s) + 1 : Append(s, o)[c].call = c
         /\ t /\ o.stop <=> \A c \in 1..Len(s) + 1 : Append(s, o)[c].stop
<1>1. /\ Append(s, o) \in Seq(Outcome) /\ Len(s) \in Nat
      /\ Len(Append(s, o)) = Len(s) + 1
      /\ \A c \in 1..Len(s) : Append(s, o)[c] = s[c]
      /\ Append(s, o)[Len(s) + 1] = o
  OBVIOUS
<1>2. 1..Len(s) + 1 = (1..Len(s)) \cup {Len(s) + 1}
  BY <1>1
<1>3. \A c \in 1..Len(s) + 1 : Append(s, o)[c].call = c
  BY <1>1, <1>2
<1>4. t /\ o.stop <=> \A c \in 1..Len(s) + 1 : Append(s, o)[c].stop
  BY <1>1, <1>2
<1> QED
  BY <1>1, <1>3, <1>4

\* The results grow by one entry per call, and only when its end was written.
LEMMA BooksStep ==
  ASSUME TypeOK, Books, Handlers, [Next]_vars
  PROVE  /\ Books'
         /\ results' \in Seq(Outcome) /\ terminate' \in BOOLEAN
<1> USE SequentialAssumption DEF SequentialAssumption, TypeOK, Call, returnVars
<1>1. ASSUME pc' # "report", UNCHANGED returnVars,
             pc' \in {"preflight", "handler"} => Len(results) = next' - 1,
             pc' = "returned" => Len(results) = NumCalls
      PROVE  Books'
  BY <1>1 DEF Books
<1>2. CASE BeforeToolCallFails
  BY <1>1, <1>2 DEF BeforeToolCallFails
<1>3. CASE StartTool
  BY <1>1, <1>3 DEF StartTool, Books
<1>4. CASE EmitToolDelta
  BY <1>1, <1>4 DEF EmitToolDelta, Books
<1>5. ASSUME HaveOutcome, pc \in {"preflight", "handler"}
      PROVE  /\ Books'
             /\ results' \in Seq(Outcome) /\ terminate' \in BOOLEAN
  <2>1. PICK stop \in BOOLEAN :
          /\ toolLog' = Append(toolLog, [call |-> next, stop |-> stop])
          /\ results' = Append(results, [call |-> next, stop |-> stop])
          /\ terminate' = (terminate /\ stop)
    BY <1>5 DEF HaveOutcome, LogEntry, AndReduce
  <2> DEFINE o == [call |-> next, stop |-> stop]
  <2>2. /\ o \in Outcome /\ o.stop = stop /\ o.call = Len(results) + 1
        /\ Len(results) \in Nat
    BY <1>5 DEF Outcome, Books
  <2>3. /\ results' \in Seq(Outcome) /\ Len(results') = next
        /\ \A c \in 1..next : results'[c].call = c
        /\ (terminate /\ stop) <=> \A c \in 1..next : results'[c].stop
    BY <1>5, <2>1, <2>2, OneMoreOutcome DEF Books
  <2> QED
    BY <1>5, <2>1, <2>3 DEF Books, HaveOutcome
<1>6. CASE ReportOutcome
  BY <1>1, <1>6 DEF ReportOutcome, Books, NextCall, OnBreak, Yield
<1>7. CASE UNCHANGED vars
  BY <1>7 DEF vars, Books
<1>8. CASE BeforeToolCallFails \/ StartTool \/ EmitToolDelta \/ ReportOutcome
  BY <1>2, <1>3, <1>4, <1>6, <1>8
     DEF BeforeToolCallFails, StartTool, EmitToolDelta, ReportOutcome
<1> QED
  BY <1>5, <1>7, <1>8 DEF Next, SkipTool, HandlerReturns, Finished

-----------------------------------------------------------------------------
(* Handlers: which ran, and who has seen the break.                        *)

\* After every step, a handler that ran has its outcome, but for the last one.
LEMMA HandlersStep ==
  ASSUME TypeOK, Books, Handlers, [Next]_vars
  PROVE  Handlers'
<1> USE SequentialAssumption
    DEF SequentialAssumption, TypeOK, Call, Handlers, returnVars
<1>1. CASE BeforeToolCallFails
  BY <1>1 DEF BeforeToolCallFails
<1>2. CASE StartTool
  <2>1. PICK go \in BOOLEAN :
          /\ looping' = go
          /\ ran' = (IF go THEN ran \cup {next} ELSE ran)
          /\ pc' = (IF go THEN "handler" ELSE "aborted")
    BY <1>2 DEF StartTool, YieldStart, Yield
  <2>2. /\ UNCHANGED <<next, results>> /\ pc = "preflight"
        /\ Len(results) = next - 1 /\ next \in Nat
    BY <1>2 DEF StartTool, Books
  <2>3. ran \subseteq 1..next /\ next \in 1..next
    BY <2>2
  <2>4. CASE go
    BY <2>1, <2>2, <2>3, <2>4
  <2>5. CASE ~go
    BY <2>1, <2>2, <2>5
  <2> QED
    BY <2>4, <2>5
<1>3. CASE EmitToolDelta
  BY <1>3 DEF EmitToolDelta, Yield
<1>4. ASSUME HaveOutcome, pc \in {"preflight", "handler"} PROVE Handlers'
  <2>1. Len(results) = next - 1
    BY <1>4 DEF Books
  <2>2. Len(results') = next
    BY <1>4, <2>1 DEF HaveOutcome
  <2> QED
    BY <1>4, <2>1, <2>2 DEF HaveOutcome
<1>5. CASE ReportOutcome
  <2>1. UNCHANGED <<results, ran>> /\ pc = "report" /\ pc' # "handler"
    BY <1>5 DEF ReportOutcome, NextCall, OnBreak
  <2>2. ~looping' => pc' \notin {"preflight", "returned"}
    BY <1>5 DEF ReportOutcome, NextCall, OnBreak, Yield
  <2> QED
    BY <2>1, <2>2
<1>6. CASE UNCHANGED vars
  BY <1>6 DEF vars
<1> QED
  BY <1>1, <1>2, <1>3, <1>4, <1>5, <1>6 DEF Next, SkipTool, HandlerReturns, Finished

-----------------------------------------------------------------------------
(* Shown and BracketsNest: what the consumer has seen.                     *)

\* The events after one more of the current call.
LEMMA OneMoreEvent ==
  ASSUME TypeOK, NEW kind \in {"start", "delta", "end"}, NEW go \in BOOLEAN,
         Yield(kind, go)
  PROVE  /\ events' \in Seq(Event)
         /\ Len(events) \in Nat /\ DOMAIN events = 1..Len(events)
         /\ DOMAIN events' = DOMAIN events \cup {Len(events) + 1}
         /\ \A i \in DOMAIN events : events'[i] = events[i]
         /\ events'[Len(events) + 1] = [kind |-> kind, call |-> next]
<1>1. [kind |-> kind, call |-> next] \in Event
  BY DEF TypeOK, Event
<1>2. /\ events \in Seq(Event)
      /\ events' = Append(events, [kind |-> kind, call |-> next])
  BY DEF TypeOK, Yield
<1> HIDE DEF Event
<1> DEFINE e == [kind |-> kind, call |-> next]
<1>3. e \in Event
  BY <1>1
<1> HIDE DEF e
<1>4. events' = Append(events, e)
  BY <1>2 DEF e
<1>5. /\ events' \in Seq(Event)
      /\ Len(events) \in Nat /\ DOMAIN events = 1..Len(events)
      /\ DOMAIN events' = 1..Len(events) + 1
      /\ \A i \in 1..Len(events) : events'[i] = events[i]
      /\ events'[Len(events) + 1] = e
  BY <1>2, <1>3, <1>4
<1>6. 1..Len(events) + 1 = (1..Len(events)) \cup {Len(events) + 1}
  BY <1>5
<1> QED
  BY <1>5, <1>6 DEF e

\* Every event shown is of one of the calls.
LEMMA EventCalls ==
  ASSUME TypeOK
  PROVE  \A j \in DOMAIN events : events[j].call \in Nat /\ events[j].call \in Call
<1>1. ASSUME NEW j \in DOMAIN events PROVE events[j] \in Event
  BY <1>1 DEF TypeOK
<1> QED
  BY <1>1, SequentialAssumption DEF Event, Call, SequentialAssumption

\* What one more event of the current call leaves of Shown's two halves.
LEMMA StartsStay ==
  ASSUME TypeOK, NEW kind \in {"start", "delta", "end"}, NEW go \in BOOLEAN,
         Yield(kind, go)
  PROVE  /\ \A c \in Call : Positions("start", c) \subseteq Positions("start", c)'
         /\ kind = "start" => \A c \in Call : c = next => Positions("start", c)' # {}
<1>1. /\ DOMAIN events' = DOMAIN events \cup {Len(events) + 1}
      /\ \A i \in DOMAIN events : events'[i] = events[i]
      /\ events'[Len(events) + 1] = [kind |-> kind, call |-> next]
  BY OneMoreEvent
<1>2. ASSUME NEW c \in Call, NEW i \in Positions("start", c)
      PROVE  i \in Positions("start", c)'
  <2>1. i \in DOMAIN events /\ events[i].kind = "start" /\ events[i].call = c
    BY <1>2 DEF Positions
  <2>2. i \in DOMAIN events' /\ events'[i] = events[i]
    BY <1>1, <2>1
  <2> QED
    BY <2>1, <2>2 DEF Positions
<1>3. ASSUME kind = "start", NEW c \in Call, c = next PROVE Positions("start", c)' # {}
  <2> DEFINE n == Len(events) + 1
  <2>1. n \in DOMAIN events' /\ events'[n].kind = "start" /\ events'[n].call = c
    BY <1>1, <1>3
  <2>2. n \in {i \in DOMAIN events' : events'[i].kind = "start" /\ events'[i].call = c}
    BY <2>1
  <2> QED
    BY <2>2 DEF Positions
<1> QED
  BY <1>2, <1>3

\* What a step yields is about the current call, and ends come after the log.
LEMMA ShownStep ==
  ASSUME TypeOK, Books, Handlers, Shown, [Next]_vars
  PROVE  /\ Shown'
         /\ events' \in Seq(Event)
<1> USE SequentialAssumption DEF SequentialAssumption, returnVars
<1> DEFINE Open == {"preflight", "handler", "report"}
           Fine(e, p, n, l) == /\ e.call <= n
                               /\ p = "preflight" => e.call < n
                               /\ e.kind = "end" => /\ e.call <= l
                                                    /\ p \in Open => e.call < n
<1>a. next \in Nat /\ Len(results) \in Nat
  BY DEF TypeOK, Call
<1>b. \A j \in DOMAIN events : Fine(events[j], pc, next, Len(results))
  BY DEF Shown
<1>c. ASSUME \A j \in DOMAIN events' : Fine(events'[j], pc', next', Len(results')),
             \A c \in ran' : Positions("start", c)' # {}
      PROVE  Shown'
  BY <1>c DEF Shown
<1>1. ASSUME UNCHANGED <<events, ran>>, next' >= next, next' \in Nat,
             Len(results') \in Nat, Len(results') >= Len(results),
             pc' \in Open =>
               /\ pc \in Open
               /\ pc' = "preflight" => pc = "preflight" \/ next' > next
      PROVE  Shown' /\ events' \in Seq(Event)
  <2>1. \A j \in DOMAIN events' : Fine(events'[j], pc', next', Len(results'))
    BY <1>a, <1>b, <1>1, EventCalls
  <2>2. \A c \in ran' : Positions("start", c)' # {}
    BY <1>1 DEF Shown, Positions
  <2> QED
    BY <1>c, <1>1, <2>1, <2>2 DEF TypeOK
<1>2. CASE BeforeToolCallFails
  <2>1. /\ UNCHANGED <<events, ran, next, results>> /\ pc' = "aborted"
    BY <1>2 DEF BeforeToolCallFails
  <2> QED
    BY <1>1, <1>a, <2>1
<1>d. ASSUME NEW kind \in {"start", "delta", "end"}, NEW go \in BOOLEAN, Yield(kind, go),
             Fine([kind |-> kind, call |-> next], pc', next', Len(results')),
             UNCHANGED results, next' \in Nat, next' >= next,
             pc' \in Open =>
               /\ pc \in Open
               /\ pc' = "preflight" => next' > next,
             \/ ran' = ran
             \/ kind = "start" /\ ran' = ran \cup {next}
      PROVE  Shown' /\ events' \in Seq(Event)
  <2>1. /\ events' \in Seq(Event)
        /\ DOMAIN events' = DOMAIN events \cup {Len(events) + 1}
        /\ \A i \in DOMAIN events : events'[i] = events[i]
        /\ events'[Len(events) + 1] = [kind |-> kind, call |-> next]
    BY <1>d, OneMoreEvent
  <2>2. ASSUME NEW j \in DOMAIN events
        PROVE  Fine(events[j], pc', next', Len(results'))
    BY <1>a, <1>b, <1>d, <2>2, EventCalls
  <2>3. \A j \in DOMAIN events' : Fine(events'[j], pc', next', Len(results'))
    BY <1>d, <2>1, <2>2
  <2>4. /\ \A c \in Call : Positions("start", c) \subseteq Positions("start", c)'
        /\ kind = "start" => \A c \in Call : c = next => Positions("start", c)' # {}
    BY <1>d, StartsStay
  <2>5. \A c \in ran' : Positions("start", c)' # {}
    <3>1. ran \subseteq Call /\ \A c \in ran : Positions("start", c) # {}
      BY DEF Shown, TypeOK
    <3>2. \A c \in ran : Positions("start", c)' # {}
      BY <2>4, <3>1
    <3> HIDE DEF Open, Fine
    <3>3. \/ ran' = ran
          \/ kind = "start" /\ ran' = ran \cup {next}
      BY <1>d
    <3>4. next \in Call
      BY DEF TypeOK
    <3> QED
      BY <2>4, <3>2, <3>3, <3>4
  <2> QED
    BY <1>c, <2>1, <2>3, <2>5
<1>3. CASE StartTool
  <2>1. PICK go \in BOOLEAN :
          /\ Yield("start", go)
          /\ ran' = (IF go THEN ran \cup {next} ELSE ran)
          /\ pc' = (IF go THEN "handler" ELSE "aborted")
    BY <1>3 DEF StartTool, YieldStart
  <2>2. UNCHANGED <<next, results>> /\ pc = "preflight"
    BY <1>3 DEF StartTool
  <2>3. Fine([kind |-> "start", call |-> next], pc', next', Len(results'))
    BY <1>a, <2>1, <2>2
  <2> QED
    BY <1>a, <1>d, <2>1, <2>2, <2>3
<1>4. CASE EmitToolDelta
  <2>1. CASE looping
    <3>1. PICK go \in BOOLEAN : Yield("delta", go)
      BY <1>4, <2>1 DEF EmitToolDelta
    <3>2. UNCHANGED <<pc, next, results, ran>> /\ pc = "handler"
      BY <1>4, <2>1 DEF EmitToolDelta
    <3>3. Fine([kind |-> "delta", call |-> next], pc', next', Len(results'))
      BY <1>a, <3>2
    <3> QED
      BY <1>a, <1>d, <3>1, <3>2, <3>3
  <2>2. CASE ~looping
    <3>1. /\ UNCHANGED <<events, ran, next, results>>
          /\ pc' \in {pc, "panicked"} /\ pc = "handler"
      BY <1>4, <2>2 DEF EmitToolDelta
    <3> QED
      BY <1>1, <1>a, <3>1
  <2> QED
    BY <2>1, <2>2 DEF TypeOK
<1>5. ASSUME HaveOutcome, pc \in {"preflight", "handler"}
      PROVE  Shown' /\ events' \in Seq(Event)
  <2>1. Len(results') = Len(results) + 1
    BY <1>5 DEF HaveOutcome, TypeOK
  <2>2. UNCHANGED <<events, ran, next>> /\ pc' = "report"
    BY <1>5 DEF HaveOutcome
  <2> QED
    BY <1>1, <1>5, <1>a, <2>1, <2>2
<1>6. CASE ReportOutcome
  <2>0. UNCHANGED <<results, ran>> /\ pc = "report" /\ Len(results) = next
    BY <1>6 DEF ReportOutcome, Books
  <2>1. CASE looping
    <3>1. PICK go \in BOOLEAN :
            /\ Yield("end", go)
            /\ IF go THEN NextCall ELSE OnBreak
      BY <1>6, <2>1 DEF ReportOutcome
    <3>2. \/ next' = next /\ pc' \in {"returned", "aborted"}
          \/ next' = next + 1 /\ pc' = "preflight"
      BY <3>1 DEF NextCall, OnBreak
    <3>3. next' \in Nat /\ next' >= next
      BY <1>a, <3>2
    <3>4. Fine([kind |-> "end", call |-> next], pc', next', Len(results'))
      BY <1>a, <2>0, <3>2
    <3> QED
      BY <1>a, <1>d, <2>0, <3>1, <3>2, <3>3, <3>4
  <2>2. CASE ~looping
    <3>1. /\ UNCHANGED <<events, next>> /\ pc' \in {"panicked", "aborted"}
      BY <1>6, <2>2 DEF ReportOutcome, OnBreak
    <3> QED
      BY <1>1, <1>a, <2>0, <3>1
  <2> QED
    BY <2>1, <2>2 DEF TypeOK
<1>7. CASE UNCHANGED vars
  BY <1>7 DEF vars, Shown, Positions, TypeOK
<1> QED
  BY <1>2, <1>3, <1>4, <1>5, <1>6, <1>7 DEF Next, SkipTool, HandlerReturns, Finished

\* An event of the current call, whose bracket is still open, nests.
LEMMA EventNests ==
  ASSUME TypeOK, Shown, BracketsNest, NEW kind \in {"start", "delta", "end"},
         NEW go \in BOOLEAN, Yield(kind, go),
         pc \in {"preflight", "handler", "report"},
         \/ ran' = ran
         \/ pc = "preflight" /\ ran' = ran \cup {next} /\ kind = "start"
  PROVE  BracketsNest'
<1> DEFINE n == Len(events) + 1
<1>1. /\ Len(events) \in Nat /\ DOMAIN events = 1..Len(events)
      /\ DOMAIN events' = DOMAIN events \cup {n}
      /\ \A i \in DOMAIN events : events'[i] = events[i] /\ i < n /\ i \in Nat
      /\ events'[n] = [kind |-> kind, call |-> next]
      /\ n \in Nat /\ n \notin DOMAIN events
  <2>1. /\ Len(events) \in Nat /\ DOMAIN events = 1..Len(events)
        /\ DOMAIN events' = DOMAIN events \cup {Len(events) + 1}
        /\ \A i \in DOMAIN events : events'[i] = events[i]
        /\ events'[Len(events) + 1] = [kind |-> kind, call |-> next]
    BY OneMoreEvent
  <2> QED
    BY <2>1
<1> HIDE DEF n
<1>2. \A k \in {"start", "delta", "end"}, c \in Call :
        Positions(k, c)' = Positions(k, c) \cup (IF k = kind /\ c = next THEN {n} ELSE {})
  BY <1>1 DEF Positions
<1>3. \A k, c : Positions(k, c) \subseteq DOMAIN events
  BY DEF Positions
<1>4. ASSUME NEW c \in Call, c \in ran',
             NEW i \in Positions("delta", c)' \cup Positions("end", c)'
      PROVE  \E j \in Positions("start", c)' : j < i
  <2>1. CASE c \in ran
    <3>1. CASE i \in Positions("delta", c) \cup Positions("end", c)
      BY <1>2, <2>1, <3>1 DEF BracketsNest
    <3>2. CASE i = n
      BY <1>1, <1>2, <1>3, <2>1, <3>2 DEF Shown
    <3> QED
      BY <1>2, <1>4, <3>1, <3>2
  <2>2. CASE c \notin ran
    <3>1. c = next /\ pc = "preflight" /\ kind = "start"
      BY <1>4, <2>2
    <3>2. i \in DOMAIN events /\ events[i].call = next
      BY <1>2, <1>3, <1>4, <3>1 DEF Positions
    <3>3. events[i].call < next
      BY <3>1, <3>2 DEF Shown
    <3> QED
      BY <3>2, <3>3 DEF TypeOK, Call
  <2> QED
    BY <2>1, <2>2
<1>5. ASSUME NEW c \in Call, NEW i \in Positions("end", c)', NEW j \in DOMAIN events'
      PROVE  /\ events'[j].call <= c => j <= i
             /\ events'[j].call > c => j > i
  <2>1. CASE i \in Positions("end", c)
    <3>1. i \in DOMAIN events /\ c < next
      BY <2>1 DEF Positions, Shown
    <3>2. CASE j \in DOMAIN events
      BY <1>1, <2>1, <3>2 DEF BracketsNest
    <3>3. CASE j = n
      BY <1>1, <3>1, <3>3 DEF TypeOK, Call
    <3> QED
      BY <1>1, <3>2, <3>3
  <2>2. CASE i = n
    <3>1. c = next
      BY <1>1, <2>2, <1>5 DEF Positions
    <3>2. events'[j].call <= next /\ events'[j].call \in Nat /\ next \in Nat
      <4>1. next \in Nat
        BY SequentialAssumption DEF TypeOK, Call, SequentialAssumption
      <4>2. CASE j = n
        BY <1>1, <4>1, <4>2
      <4>3. CASE j \in DOMAIN events
        BY <1>1, <4>1, <4>3, EventCalls DEF Shown
      <4> QED
        BY <1>1, <4>1, <4>2, <4>3
    <3> QED
      BY <1>1, <2>2, <3>1, <3>2
  <2> QED
    BY <1>2, <1>5, <2>1, <2>2
<1> QED
  BY <1>4, <1>5 DEF BracketsNest

\* A yield opens, keeps or closes the bracket of the current call.
LEMMA NestStep ==
  ASSUME TypeOK, Shown, BracketsNest, [Next]_vars
  PROVE  BracketsNest'
<1>1. ASSUME UNCHANGED <<events, ran>> PROVE BracketsNest'
  BY <1>1 DEF BracketsNest, Positions
<1>2. CASE StartTool
  <2>1. PICK go \in BOOLEAN :
          /\ Yield("start", go)
          /\ ran' = (IF go THEN ran \cup {next} ELSE ran)
    BY <1>2 DEF StartTool, YieldStart
  <2>2. pc = "preflight"
    BY <1>2 DEF StartTool
  <2>3. \/ ran' = ran
        \/ pc = "preflight" /\ ran' = ran \cup {next} /\ "start" = "start"
    BY <2>1, <2>2
  <2> QED
    BY <2>1, <2>2, <2>3, EventNests
<1>3. CASE EmitToolDelta
  <2>1. CASE looping
    <3>1. PICK go \in BOOLEAN : Yield("delta", go)
      BY <1>3, <2>1 DEF EmitToolDelta
    <3>2. UNCHANGED ran /\ pc = "handler"
      BY <1>3 DEF EmitToolDelta
    <3> QED
      BY <3>1, <3>2, EventNests
  <2>2. CASE ~looping
    BY <1>1, <1>3, <2>2 DEF EmitToolDelta
  <2> QED
    BY <2>1, <2>2 DEF TypeOK
<1>4. CASE ReportOutcome
  <2>0. UNCHANGED ran /\ pc = "report"
    BY <1>4 DEF ReportOutcome
  <2>1. CASE looping
    <3>1. PICK go \in BOOLEAN : Yield("end", go)
      BY <1>4, <2>1 DEF ReportOutcome
    <3> QED
      BY <2>0, <3>1, EventNests
  <2>2. CASE ~looping
    BY <1>1, <1>4, <2>0, <2>2 DEF ReportOutcome
  <2> QED
    BY <2>1, <2>2 DEF TypeOK
<1> QED
  BY <1>1, <1>2, <1>3, <1>4 DEF Next, vars, BeforeToolCallFails, SkipTool, HandlerReturns,
     HaveOutcome, Finished

-----------------------------------------------------------------------------
(* The inductive invariant.                                                *)

\* Every step keeps the types, given those of the three records it appends to.
LEMMA TypeStep ==
  ASSUME TypeOK, [Next]_vars,
         results' \in Seq(Outcome), terminate' \in BOOLEAN, events' \in Seq(Event)
  PROVE  TypeOK'
<1> USE SequentialAssumption DEF SequentialAssumption, TypeOK, Call
<1>1. CASE BeforeToolCallFails
  BY <1>1 DEF BeforeToolCallFails
<1>2. CASE StartTool
  BY <1>2 DEF StartTool, YieldStart, Yield
<1>3. CASE EmitToolDelta
  BY <1>3 DEF EmitToolDelta, Yield
<1>4. CASE HaveOutcome
  BY <1>4 DEF HaveOutcome
<1>5. CASE ReportOutcome
  <2>1. CASE NextCall
    <3>1. next' \in Call /\ pc' \in {"preflight", "returned"}
      BY <2>1 DEF NextCall
    <3>2. UNCHANGED <<rangeLoop, results, terminate, ran>> /\ looping' \in BOOLEAN
      BY <1>5 DEF ReportOutcome, Yield, returnVars
    <3> QED
      BY <3>1, <3>2
  <2>2. CASE next' = next /\ pc' \in {"aborted", "panicked"}
    BY <1>5, <2>2 DEF ReportOutcome, Yield
  <2> QED
    BY <1>5, <2>1, <2>2 DEF ReportOutcome, OnBreak
<1>6. CASE UNCHANGED vars
  BY <1>6 DEF vars
<1> QED
  BY <1>1, <1>2, <1>3, <1>4, <1>5, <1>6 DEF Next, SkipTool, HandlerReturns, Finished

\* A batch starts with nothing recorded and nothing shown.
LEMMA InitIInv == Init => IInv
<1> SUFFICES ASSUME Init PROVE IInv
  OBVIOUS
<1> USE SequentialAssumption DEF SequentialAssumption, Init
<1>1. TypeOK
  BY DEF TypeOK, Call
<1>2. Books /\ Handlers
  BY DEF Books, Handlers
<1>3. Shown /\ BracketsNest
  BY DEF Shown, BracketsNest, Positions
<1> QED
  BY <1>1, <1>2, <1>3 DEF IInv

\* The invariant is inductive.
LEMMA NextIInv == IInv /\ [Next]_vars => IInv'
<1> SUFFICES ASSUME TypeOK, Books, Handlers, Shown, BracketsNest, [Next]_vars
             PROVE  IInv'
  BY DEF IInv
<1>1. Books' /\ results' \in Seq(Outcome) /\ terminate' \in BOOLEAN
  BY BooksStep
<1>2. Shown' /\ events' \in Seq(Event)
  BY ShownStep
<1>3. TypeOK'
  BY <1>1, <1>2, TypeStep
<1> QED
  BY <1>1, <1>2, <1>3, HandlersStep, NestStep DEF IInv

\* Whatever the consumer does, IInv holds in every state of the batch.
THEOREM Invariant == Spec => []IInv
  BY InitIInv, NextIInv, PTL DEF Spec

-----------------------------------------------------------------------------
(* The properties the runs check.                                          *)

\* In the stream of events of a sequential batch the brackets of its calls nest:
\* a delta or an end comes after its start, nothing of a call after its end.
THEOREM BracketsAlwaysNest == Spec => []BracketsNest
<1>1. IInv => BracketsNest
  BY DEF IInv
<1> QED
  BY <1>1, Invariant, PTL

\* When the consumer sees the end of a call Snapshot shows its log entry, and a
\* batch that ended without a panic logged every handler it ran.
THEOREM LoggedFirst == Spec => []LoggedBeforeReported
<1>1. ASSUME IInv PROVE LoggedBeforeReported
  <2> SUFFICES ASSUME NEW c \in Call,
                      \/ Positions("end", c) # {}
                      \/ pc \in {"returned", "aborted"} /\ c \in ran
               PROVE  \E i \in DOMAIN toolLog : toolLog[i].call = c
    BY DEF LoggedBeforeReported
  <2>1. Len(results) \in Nat /\ c \in Nat /\ c >= 1
    BY <1>1, SequentialAssumption DEF IInv, TypeOK, Call, SequentialAssumption
  <2>2. c \in 1..Len(results)
    <3>1. c <= Len(results)
      <4>1. CASE Positions("end", c) # {}
        BY <1>1, <2>1, <4>1 DEF IInv, Shown, Positions
      <4>2. CASE pc \in {"returned", "aborted"} /\ c \in ran
        BY <1>1, <2>1, <4>2 DEF IInv, Handlers
      <4> QED
        BY <4>1, <4>2
    <3> QED
      BY <2>1, <3>1
  <2> QED
    BY <1>1, <2>2 DEF IInv, Books, TypeOK
<1> QED
  BY <1>1, Invariant, PTL

\* Once the consumer broke out no other handler starts, and the batch does not
\* return its results.
THEOREM BreakStops == Spec => BreakStopsBatch
<1>1. ASSUME IInv, [Next]_vars
      PROVE  [~looping => ran' = ran /\ pc' # "returned"]_vars
  <2> SUFFICES ASSUME ~looping, vars' # vars
               PROVE  ran' = ran /\ pc' # "returned"
    OBVIOUS
  <2>1. pc \notin {"preflight", "returned"}
    BY <1>1 DEF IInv, Handlers
  <2> QED
    BY <1>1, <2>1 DEF Next, BeforeToolCallFails, StartTool, SkipTool, EmitToolDelta,
       HandlerReturns, HaveOutcome, ReportOutcome, OnBreak, Finished
<1> QED
  BY <1>1, Invariant, PTL DEF Spec, BreakStopsBatch

-----------------------------------------------------------------------------
(* The refinement: a sequential batch is a tool batch.                     *)

\* The outcomes the contract sees.
Seen == [c \in Call |-> IF c <= Len(results) THEN results[c] ELSE NoOutcome]

\* A call over is a call settled, and logged at once.
LEMMA SettleStep ==
  ASSUME IInv, HaveOutcome, pc \in {"preflight", "handler"}
  PROVE  \E c \in Contract!Call : Contract!Settle(c)
<1> USE SequentialAssumption DEF SequentialAssumption, Call
<1>1. PICK stop \in BOOLEAN :
        /\ toolLog' = Append(toolLog, [call |-> next, stop |-> stop])
        /\ results' = Append(results, [call |-> next, stop |-> stop])
  BY DEF HaveOutcome, LogEntry
<1> DEFINE o == [call |-> next, stop |-> stop]
<1>2. /\ next \in 1..NumCalls /\ results \in Seq(Outcome) /\ o \in Outcome
      /\ Len(results) = next - 1 /\ toolLog = results /\ pc' = "report"
  BY DEF IInv, TypeOK, Books, HaveOutcome, Outcome
<1>3. /\ Len(results') = next
      /\ \A c \in 1..Len(results) : results'[c] = results[c]
      /\ results'[next] = o
  BY <1>1, <1>2
<1> HIDE DEF o
<1>4. Seen[next] = NoOutcome
  BY <1>2 DEF Seen
<1>5. Seen' = [Seen EXCEPT ![next] = o]
  <2>1. ASSUME NEW c \in Call PROVE Seen'[c] = [Seen EXCEPT ![next] = o][c]
    <3>1. CASE c = next
      BY <1>2, <1>3, <3>1 DEF Seen
    <3>2. CASE c < next
      BY <1>2, <1>3, <3>2 DEF Seen
    <3>3. CASE c > next
      BY <1>2, <1>3, <3>3 DEF Seen
    <3> QED
      BY <1>2, <2>1, <3>1, <3>2, <3>3
  <2> QED
    BY <2>1 DEF Seen
<1>6. /\ toolLog' = Append(toolLog, Seen'[next]) /\ Len(toolLog) = next - 1
  <2>1. Seen'[next] = o
    BY <1>2, <1>3 DEF Seen
  <2> QED
    BY <1>1, <1>2, <2>1 DEF o
<1>7. \A c \in Contract!Call : c = next => Contract!Settle(c)
  BY <1>1, <1>2, <1>4, <1>5, <1>6
     DEF Contract!Settle, Contract!NoOutcome, NoOutcome, Seen, Ended, o, Contract!Call
<1> QED
  BY <1>2, <1>7 DEF Contract!Call

\* The batch hands its results back, one per call, with the AND over them.
LEMMA ReturnStep ==
  ASSUME IInv, pc \in {"report"}, pc' = "returned", next = NumCalls,
         UNCHANGED <<results, toolLog, terminate>>
  PROVE  Contract!Return
<1> USE SequentialAssumption DEF SequentialAssumption, Call
<1>1. /\ Len(results) = NumCalls /\ results \in Seq(Outcome) /\ toolLog = results
      /\ \A c \in 1..Len(results) : results[c].call = c
      /\ terminate <=> \A c \in 1..Len(results) : results[c].stop
      /\ terminate \in BOOLEAN
  BY DEF IInv, TypeOK, Books
<1>2. Seen = results
  BY <1>1 DEF Seen
<1>3. \A c \in Call : Seen[c] # NoOutcome
  BY <1>1, <1>2 DEF NoOutcome
<1> QED
  BY <1>1, <1>2, <1>3
     DEF Contract!Return, Contract!NoOutcome, NoOutcome, Seen, Ended, Contract!Call

\* Every behaviour of the sequential batch, with its places hidden, is one the
\* contract of a tool batch allows.
THEOREM SequentialImplementsContract == Spec => ImplementsToolBatch
<1> USE SequentialAssumption DEF SequentialAssumption
<1>1. ASSUME Init PROVE Contract!Init
  BY <1>1 DEF Init, Contract!Init, Contract!NoOutcome, NoOutcome, Contract!Call, Call, Ended
<1>2. ASSUME IInv, [Next]_vars PROVE [Contract!Next]_Contract!vars
  <2>1. ASSUME UNCHANGED <<results, toolLog>>, pc \notin {"returned"}, pc' # "returned",
               Ended' <=> Ended
        PROVE  UNCHANGED Contract!vars
    BY <2>1 DEF Contract!vars, Ended
  <2>2. ASSUME UNCHANGED <<results, toolLog>>, ~Ended, pc' \in {"aborted", "panicked"}
        PROVE  Contract!Abort
    BY <2>2 DEF Contract!Abort, Ended
  <2>3. CASE BeforeToolCallFails
    BY <2>2, <2>3 DEF BeforeToolCallFails, returnVars, Contract!Next, Ended
  <2>4. CASE StartTool
    BY <2>1, <2>2, <2>4 DEF StartTool, returnVars, Contract!Next, Ended
  <2>5. CASE EmitToolDelta
    BY <2>1, <2>2, <2>5 DEF EmitToolDelta, returnVars, Contract!Next, Ended
  <2>6. CASE HaveOutcome /\ pc \in {"preflight", "handler"}
    BY <1>2, <2>6, SettleStep DEF Contract!Next
  <2>7. CASE ReportOutcome
    <3>1. UNCHANGED <<results, toolLog, terminate>> /\ pc = "report"
      BY <2>7 DEF ReportOutcome, returnVars
    <3>2. CASE pc' = "returned"
      <4>1. next = NumCalls
        BY <1>2, <2>7, <3>2 DEF ReportOutcome, NextCall, OnBreak, IInv, TypeOK, Call
      <4> QED
        BY <1>2, <3>1, <3>2, <4>1, ReturnStep DEF Contract!Next
    <3>3. CASE pc' = "preflight"
      BY <2>1, <3>1, <3>3 DEF Ended
    <3>4. CASE pc' \in {"aborted", "panicked"}
      BY <2>2, <3>1, <3>4 DEF Contract!Next, Ended
    <3> QED
      BY <2>7, <3>2, <3>3, <3>4 DEF ReportOutcome, NextCall, OnBreak
  <2>8. CASE UNCHANGED vars
    BY <2>8 DEF vars, Contract!vars, Ended
  <2> QED
    BY <1>2, <2>3, <2>4, <2>5, <2>6, <2>7, <2>8
       DEF Next, SkipTool, HandlerReturns, Finished
<1> QED
  BY <1>1, <1>2, Invariant, PTL DEF Spec, ImplementsToolBatch, Contract!Spec
=============================================================================

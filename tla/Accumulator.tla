---------------------------- MODULE Accumulator ----------------------------
(***************************************************************************)
(* messageAccumulator: the events of one LLM stream, folded into the       *)
(* assistant's message.  A provider may interleave its blocks and need not *)
(* keep the contract Start, Delta*, End of a block; every order of events  *)
(* is an input.  The n-th event carries the text n, so that a block shows  *)
(* which events it was made from, and a header the events that gave the    *)
(* model and the stop reason with the usage.                               *)
(***************************************************************************)
EXTENDS Integers, Sequences

CONSTANTS Below,       \* how far a BlockIndex, an int, may be below zero
          MaxBlock,    \* bound: highest BlockIndex
          MaxEvents    \* bound: events in the stream

ASSUME AccumulatorAssumption ==
  /\ Below \in Nat
  /\ MaxBlock \in Nat
  /\ MaxEvents \in Nat

Index == (-Below)..MaxBlock
Kind == {"text", "thinking", "tool"}

\* A text or thinking block has its deltas; a tool call has the event that named
\* it and the event that gave its arguments, 0 for the empty object.
Block == [kind : Kind, data : Seq(0..MaxEvents)]
Nil == [kind |-> "nil", data |-> <<>>]
NoHeader == [model |-> 0, ending |-> 0]

NoBuilder == [open |-> FALSE, text |-> <<>>]
NewBuilder == [open |-> TRUE, text |-> <<>>]

VARIABLES
  pc,        \* "streaming", then "ended", "malformed" or "panicked"
  n,         \* events so far
  header,    \* msg.Model; msg.StopReason and msg.Usage
  content,   \* msg.Content; slot i is content[i + 1]
  builders,  \* textBuilders and thinkBuilders, by kind and index
  toolMeta,  \* toolCallMetadata: the event that named the call, or 0
  message,   \* what final returned
  phase,     \* history: "fresh", the kind of the open block, or "closed"
  expected   \* history: what the contract says each block holds

vars == <<pc, n, header, content, builders, toolMeta, message, phase, expected>>

Init ==
  /\ pc = "streaming"
  /\ n = 0
  /\ header = NoHeader
  /\ content = <<>>
  /\ builders = [k \in {"text", "thinking"} |-> [i \in Index |-> NoBuilder]]
  /\ toolMeta = [i \in Index |-> 0]
  /\ message = [header |-> NoHeader, content |-> <<>>]
  /\ phase = [i \in Index |-> "fresh"]
  /\ expected = [i \in Index |-> Nil]

-----------------------------------------------------------------------------
\* The next event arrives.
Arrives == pc = "streaming" /\ n < MaxEvents /\ n' = n + 1

MessageStart ==
  /\ Arrives
  /\ header' = [header EXCEPT !.model = n + 1]
  /\ UNCHANGED <<pc, content, builders, toolMeta, message, phase, expected>>

MessageEnd ==
  /\ Arrives
  /\ header' = [header EXCEPT !.ending = n + 1]
  /\ UNCHANGED <<pc, content, builders, toolMeta, message, phase, expected>>

\* The contract's view: block i, in phase `before`, goes to `after` and holds
\* `data`; an event in any other phase breaks the contract of this block.
Follow(i, before, after, data) ==
  IF phase[i] = before
  THEN /\ phase' = [phase EXCEPT ![i] = after]
       /\ expected' = [expected EXCEPT ![i] = data]
  ELSE phase' = [phase EXCEPT ![i] = "broken"] /\ UNCHANGED expected

\* ensureBlock: content reaches index i.
EnsureBlock(i) == content' = content \o [j \in 1..(i + 1 - Len(content)) |-> Nil]

NoteCall(i) == toolMeta' = [toolMeta EXCEPT ![i] = n + 1]

Start(k, i) ==
  /\ Arrives
  /\ EnsureBlock(i)
  /\ IF k = "tool"
     THEN NoteCall(i) /\ UNCHANGED builders
     ELSE builders' = [builders EXCEPT ![k][i] = NewBuilder] /\ UNCHANGED toolMeta
  /\ Follow(i, "fresh", k, [kind |-> k, data |-> IF k = "tool" THEN <<n + 1>> ELSE <<>>])
  /\ UNCHANGED <<pc, header, message>>

\* The builder a delta is written to.
FirstBlock(i) == 0
OwnBlock(i) == i

\* A delta without a builder is ignored. What a tool call's deltas say is
\* collected too, and never read.
Delta(k, i) ==
  /\ Arrives
  /\ builders' = IF k # "tool" /\ builders[k][OwnBlock(i)].open
                 THEN [builders EXCEPT ![k][OwnBlock(i)].text = Append(@, n + 1)]
                 ELSE builders
  /\ Follow(i, k, k, [kind |-> k, data |-> IF k = "tool" THEN expected[i].data
                                           ELSE Append(expected[i].data, n + 1)])
  /\ UNCHANGED <<pc, header, content, toolMeta, message>>

\* An assignment to msg.Content[i], which panics when i is out of range.
Put(i, block) ==
  IF i + 1 \in DOMAIN content
  THEN content' = [content EXCEPT ![i + 1] = block] /\ UNCHANGED pc
  ELSE pc' = "panicked" /\ UNCHANGED content

\* An end without a builder is ignored.
EndText(k, i) ==
  /\ Arrives
  /\ IF builders[k][i].open
     THEN Put(i, [kind |-> k, data |-> builders[k][i].text])
     ELSE UNCHANGED <<pc, content>>
  /\ Follow(i, k, "closed", expected[i])
  /\ UNCHANGED <<header, builders, toolMeta, message>>

AnyMeta(i) == TRUE
HasMeta(i) == toolMeta[i] # 0

\* An end without metadata is ErrMalformedStream. args is the arguments' event,
\* or 0 when the event has none.
EndToolCall(i) ==
  /\ Arrives
  /\ \E args \in {0, n + 1} :
       /\ IF HasMeta(i)
          THEN Put(i, [kind |-> "tool", data |-> <<toolMeta[i], args>>])
          ELSE pc' = "malformed" /\ UNCHANGED content
       /\ Follow(i, "tool", "closed",
                 [kind |-> "tool", data |-> Append(expected[i].data, args)])
  /\ UNCHANGED <<header, builders, toolMeta, message>>

\* The slots that were filled, in their order: kept[j] is the list after slot j.
Kept(blocks) ==
  LET kept[j \in 0..Len(blocks)] ==
        IF j = 0 THEN <<>>
        ELSE IF blocks[j] = Nil THEN kept[j - 1] ELSE Append(kept[j - 1], blocks[j])
  IN  kept[Len(blocks)]

KeepSlots == content
Final == Kept(content)

\* The stream is over: final drops the slots that were never filled.
StreamEnds ==
  /\ pc = "streaming"
  /\ pc' = "ended"
  /\ message' = [header |-> header, content |-> Final]
  /\ UNCHANGED <<n, header, content, builders, toolMeta, phase, expected>>

Finished == pc # "streaming" /\ UNCHANGED vars

Next ==
  \/ MessageStart \/ MessageEnd
  \/ \E k \in Kind, i \in Index : Start(k, i) \/ Delta(k, i)
  \/ \E k \in {"text", "thinking"}, i \in Index : EndText(k, i)
  \/ \E i \in Index : EndToolCall(i)
  \/ StreamEnds
  \/ Finished

Spec == Init /\ [][Next]_vars

-----------------------------------------------------------------------------
WellFormed == \A i \in Index : phase[i] # "broken"

\* Only an index below zero, which no provider should send, makes an assignment
\* to msg.Content go out of range, whatever the order of events: elsewhere a block
\* has a builder, or metadata, only if a Start made room for it.
OnlyBelowZeroPanics == pc = "panicked" => \E i \in Index : i < 0 /\ phase[i] # "fresh"

\* A block that keeps the contract is assembled from its own events, however
\* they interleave and whatever other blocks do to the contract: a finished one
\* is in its slot, and nothing is in the slot of one that is not.
OwnEventsOnly ==
  \A i \in 0..MaxBlock : pc # "panicked" /\ phase[i] # "broken" =>
    IF phase[i] = "closed"
    THEN i < Len(content) /\ content[i + 1] = expected[i]
    ELSE i < Len(content) => content[i + 1] = Nil

\* The message has no nil block. A stream that keeps the contract is not refused,
\* whatever the order in which it opens its blocks, and its message has the
\* finished ones, each once and in the order of their indices, whatever was left
\* open: its k-th block is that of index at[k].
MessageComplete ==
  /\ pc = "malformed" => ~WellFormed
  /\ pc = "ended" =>
       /\ \A j \in DOMAIN message.content : message.content[j] # Nil
       /\ WellFormed =>
            LET closed == {i \in 0..MaxBlock : phase[i] = "closed"}
            IN  \E at \in [DOMAIN message.content -> closed] :
                  /\ \A j, k \in DOMAIN at : j < k => at[j] < at[k]
                  /\ \A i \in closed : \E k \in DOMAIN at : at[k] = i
                  /\ \A k \in DOMAIN at : message.content[k] = expected[at[k]]
=============================================================================

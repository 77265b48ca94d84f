------------------------- MODULE AccumulatorProofs -------------------------
(***************************************************************************)
(* What messageAccumulator promises for a stream of any length and any     *)
(* block indices: only an index below zero makes it panic, a block is made *)
(* of its own events, and the message has the finished blocks in order.    *)
(*                                                                         *)
(* The argument: a builder or the metadata of a block exists only if a     *)
(* Start made room for its slot (Room), and as long as a block keeps the   *)
(* contract what is collected for it is what the contract says             *)
(* (Collected).  What final's loop computes is settled by induction on the *)
(* slots it has passed, stated as a set of naturals that is closed under   *)
(* successor.                                                              *)
(***************************************************************************)
EXTENDS Accumulator, WellFoundedInduction, TLAPS

Builder == [open : BOOLEAN, text : Seq(0..MaxEvents)]

\* What each variable holds.
TypeOK ==
  /\ pc \in {"streaming", "ended", "malformed", "panicked"}
  /\ n \in 0..MaxEvents
  /\ content \in Seq(Block \cup {Nil})
  /\ builders \in [{"text", "thinking"} -> [Index -> Builder]]
  /\ toolMeta \in [Index -> 0..MaxEvents]
  /\ phase \in [Index -> {"fresh", "text", "thinking", "tool", "closed", "broken"}]
  /\ expected \in [Index -> Block \cup {Nil}]

\* A block with a builder or with metadata has a slot.
RoomAt(i) ==
  i >= 0 =>
    /\ \A k \in {"text", "thinking"} : builders[k][i].open => i < Len(content)
    /\ toolMeta[i] # 0 => i < Len(content)
Room == \A i \in Index : RoomAt(i)

\* The slots end where the highest index ends.
Bounded == Len(content) <= MaxBlock + 1

\* An open block that keeps the contract has collected what it should have.
CollectedAt(i) ==
  /\ \A k \in {"text", "thinking"} : phase[i] = k =>
       builders[k][i].open /\ expected[i] = [kind |-> k, data |-> builders[k][i].text]
  /\ phase[i] = "tool" =>
       toolMeta[i] # 0 /\ expected[i] = [kind |-> "tool", data |-> <<toolMeta[i]>>]
  /\ phase[i] = "closed" => expected[i] \in Block
Collected == \A i \in Index : CollectedAt(i)

\* What final returned is what the slots give.
Returned == pc = "ended" => message.content = Kept(content)

\* A stream is refused only when it broke the contract.
Refused == pc = "malformed" => ~WellFormed

IInv ==
  /\ TypeOK /\ Room /\ Bounded /\ Collected /\ Returned /\ Refused
  /\ OnlyBelowZeroPanics
  /\ OwnEventsOnly

-----------------------------------------------------------------------------
(* Induction *)

\* The order of the naturals, as a relation, has no infinite descent.
LEMMA LessIsWellFounded ==
  \E less : IsWellFoundedOn(less, Nat) /\ \A a, b \in Nat : a < b => <<a, b>> \in less
<1>1. \A a, b \in Nat : a < b => <<a, b>> \in OpToRel(<, Nat)
  BY ZenonT(20) DEF OpToRel
<1> QED
  BY <1>1, NatLessThanWellFounded, Zenon

\* Induction, as a fact about sets: a set of naturals with zero and with the
\* successor of each of its members is Nat.
LEMMA SetInduction ==
  ASSUME NEW S \in SUBSET Nat, 0 \in S, \A m \in S : m + 1 \in S
  PROVE  S = Nat
<1>1. SUFFICES ASSUME Nat \ S # {} PROVE FALSE
  OBVIOUS
<1>2. PICK less : IsWellFoundedOn(less, Nat) /\ \A a, b \in Nat : a < b => <<a, b>> \in less
  BY LessIsWellFounded
<1>3. PICK m \in Nat \ S : \A k \in Nat \ S : <<k, m>> \notin less
  BY <1>1, <1>2, WFMin
<1>4. m - 1 \in Nat /\ m - 1 < m /\ m - 1 + 1 = m
  BY <1>3
<1>5. m - 1 \in S
  BY <1>2, <1>3, <1>4
<1> QED
  BY <1>3, <1>4, <1>5

-----------------------------------------------------------------------------
(* What final's loop computes *)

\* kept lists, for each slot up to the m-th, what the loop has kept after it.
Loop(kept, s, m) ==
  kept = [j \in 0..m |-> IF j = 0 THEN <<>>
                         ELSE IF s[j] = Nil THEN kept[j - 1] ELSE Append(kept[j - 1], s[j])]

\* The loop of final reaches every slot.
LEMMA LoopRuns ==
  ASSUME NEW s
  PROVE  \A m \in Nat : \E kept : Loop(kept, s, m)
<1> DEFINE S == {m \in Nat : \E kept : Loop(kept, s, m)}
<1>1. 0 \in S
  <2> DEFINE kept == [j \in 0..0 |-> <<>>]
  <2>1. Loop(kept, s, 0)
    BY DEF Loop
  <2> QED
    BY <2>1
<1>2. ASSUME NEW m \in S PROVE m + 1 \in S
  <2>1. PICK kept : Loop(kept, s, m)
    OBVIOUS
  <2> DEFINE next == [j \in 0..(m + 1) |->
                        IF j <= m THEN kept[j]
                        ELSE IF s[j] = Nil THEN kept[m] ELSE Append(kept[m], s[j])]
  <2>2. m \in Nat /\ m + 1 \in Nat
    OBVIOUS
  <2>3. \A j \in 0..m : next[j] = kept[j]
    BY <2>2
  <2>4. \A j \in 0..(m + 1) :
          next[j] = IF j = 0 THEN <<>>
                    ELSE IF s[j] = Nil THEN next[j - 1] ELSE Append(next[j - 1], s[j])
    <3>1. \A j \in 0..m :
            kept[j] = IF j = 0 THEN <<>>
                      ELSE IF s[j] = Nil THEN kept[j - 1] ELSE Append(kept[j - 1], s[j])
      BY <2>1 DEF Loop
    <3>2. TAKE j \in 0..(m + 1)
    <3>3. CASE j = m + 1
      BY <2>2, <2>3, <3>3
    <3>4. CASE j # m + 1
      <4>1. j \in 0..m /\ (j # 0 => j - 1 \in 0..m)
        BY <2>2, <3>4
      <4> HIDE DEF next
      <4> QED
        BY <2>3, <3>1, <4>1
    <3> QED
      BY <3>3, <3>4
  <2>5. next = [j \in 0..(m + 1) |-> next[j]]
    OBVIOUS
  <2>6. Loop(next, s, m + 1)
    <3> HIDE DEF next
    <3> QED
      BY <2>4, <2>5 DEF Loop
  <2> QED
    BY <2>2, <2>6
<1>3. S = Nat
  <2> HIDE DEF S
  <2>1. S \in SUBSET Nat
    BY DEF S
  <2> QED
    BY <1>1, <1>2, <2>1, SetInduction
<1> QED
  BY <1>3

\* Kept is what the loop has after the last slot.
LEMMA KeptIsLoop ==
  ASSUME NEW s, Len(s) \in Nat
  PROVE  \E kept : Loop(kept, s, Len(s)) /\ Kept(s) = kept[Len(s)]
<1> DEFINE chosen == CHOOSE kept : Loop(kept, s, Len(s))
<1>1. Loop(chosen, s, Len(s))
  BY LoopRuns
<1>2. Kept(s) = chosen[Len(s)]
  BY DEF Kept, Loop
<1> QED
  BY <1>1, <1>2

\* The list is the filled slots among the first m, each once and in order: its
\* k-th member is that of slot at[k].
Lists(list, s, m) ==
  \E at \in [1..Len(list) -> 1..m] :
    /\ \A j, k \in 1..Len(list) : j < k => at[j] < at[k]
    /\ \A i \in 1..m : s[i] # Nil => \E k \in 1..Len(list) : at[k] = i
    /\ \A k \in 1..Len(list) : s[at[k]] # Nil /\ list[k] = s[at[k]]

\* An empty slot adds nothing to the list.
LEMMA ListsSkip ==
  ASSUME NEW T, NEW list \in Seq(T), NEW s, NEW m \in Nat,
         Lists(list, s, m), s[m + 1] = Nil
  PROVE  Lists(list, s, m + 1)
<1>1. PICK at \in [1..Len(list) -> 1..m] :
        /\ \A j, k \in 1..Len(list) : j < k => at[j] < at[k]
        /\ \A i \in 1..m : s[i] # Nil => \E k \in 1..Len(list) : at[k] = i
        /\ \A k \in 1..Len(list) : s[at[k]] # Nil /\ list[k] = s[at[k]]
  BY DEF Lists
<1>2. at \in [1..Len(list) -> 1..(m + 1)]
  OBVIOUS
<1>3. \A i \in 1..(m + 1) : s[i] # Nil => i \in 1..m
  OBVIOUS
<1> QED
  BY <1>1, <1>2, <1>3 DEF Lists

\* A filled slot becomes the last member of the list.
LEMMA ListsKeep ==
  ASSUME NEW T, NEW list \in Seq(T), NEW s, NEW m \in Nat,
         Lists(list, s, m), s[m + 1] # Nil, s[m + 1] \in T
  PROVE  Lists(Append(list, s[m + 1]), s, m + 1)
<1>1. PICK at \in [1..Len(list) -> 1..m] :
        /\ \A j, k \in 1..Len(list) : j < k => at[j] < at[k]
        /\ \A i \in 1..m : s[i] # Nil => \E k \in 1..Len(list) : at[k] = i
        /\ \A k \in 1..Len(list) : s[at[k]] # Nil /\ list[k] = s[at[k]]
  BY DEF Lists
<1> DEFINE more == Append(list, s[m + 1])
           last == Len(list) + 1
           at2 == [k \in 1..last |-> IF k = last THEN m + 1 ELSE at[k]]
<1>2. /\ Len(list) \in Nat /\ Len(more) = last
      /\ more[last] = s[m + 1] /\ \A k \in 1..Len(list) : more[k] = list[k]
  OBVIOUS
<1>3. /\ at2[last] = m + 1
      /\ \A k \in 1..Len(list) : at2[k] = at[k] /\ at[k] \in 1..m
      /\ at2 \in [1..last -> 1..(m + 1)]
  BY <1>2
<1> HIDE DEF more, last, at2
<1>4. last = Len(list) + 1
  BY DEF last
<1>5. \A j, k \in 1..last : j < k => at2[j] < at2[k]
  <2> SUFFICES ASSUME NEW j \in 1..last, NEW k \in 1..last, j < k PROVE at2[j] < at2[k]
    OBVIOUS
  <2>1. j \in 1..Len(list) /\ at2[j] = at[j] /\ at[j] \in 1..m
    BY <1>2, <1>3, <1>4
  <2>2. CASE k = last
    BY <1>3, <2>1, <2>2
  <2>3. CASE k # last
    <3>1. k \in 1..Len(list) /\ at2[k] = at[k]
      BY <1>2, <1>3, <1>4, <2>3
    <3> QED
      BY <1>1, <2>1, <3>1
  <2> QED
    BY <2>2, <2>3
<1>6. \A i \in 1..(m + 1) : s[i] # Nil => \E k \in 1..last : at2[k] = i
  <2> SUFFICES ASSUME NEW i \in 1..(m + 1), s[i] # Nil
               PROVE  \E k \in 1..last : at2[k] = i
    OBVIOUS
  <2>1. CASE i = m + 1
    BY <1>2, <1>3, <1>4, <2>1
  <2>2. CASE i # m + 1
    <3>1. PICK k \in 1..Len(list) : at[k] = i
      BY <1>1, <2>2
    <3> QED
      BY <1>2, <1>3, <1>4, <3>1
  <2> QED
    BY <2>1, <2>2
<1>7. \A k \in 1..last : s[at2[k]] # Nil /\ more[k] = s[at2[k]]
  <2> TAKE k \in 1..last
  <2>1. CASE k = last
    BY <1>2, <1>3, <2>1
  <2>2. CASE k # last
    <3>1. k \in 1..Len(list)
      BY <1>2, <1>4, <2>2
    <3> QED
      BY <1>1, <1>2, <1>3, <3>1
  <2> QED
    BY <2>1, <2>2
<1>8. Lists(more, s, m + 1)
  BY <1>2, <1>3, <1>5, <1>6, <1>7 DEF Lists
<1> QED
  BY <1>8 DEF more

\* final's loop keeps the filled slots, each once and in their order, and no other.
THEOREM KeptLists ==
  ASSUME NEW T, NEW s \in Seq(T \cup {Nil})
  PROVE  Kept(s) \in Seq(T) /\ Lists(Kept(s), s, Len(s))
<1>1. PICK kept : Loop(kept, s, Len(s)) /\ Kept(s) = kept[Len(s)]
  BY KeptIsLoop
<1>2. Len(s) \in Nat
  OBVIOUS
<1>3. \A j \in 0..Len(s) :
        kept[j] = IF j = 0 THEN <<>>
                  ELSE IF s[j] = Nil THEN kept[j - 1] ELSE Append(kept[j - 1], s[j])
  BY <1>1 DEF Loop
<1> DEFINE Good(m) == kept[m] \in Seq(T) /\ Lists(kept[m], s, m)
           S == {m \in Nat : m <= Len(s) => Good(m)}
<1>4. 0 \in S
  <2>1. kept[0] = <<>>
    BY <1>2, <1>3
  <2>2. Lists(<<>>, s, 0)
    <3> DEFINE at == [k \in 1..0 |-> k]
    <3>1. at \in [1..0 -> 1..0] /\ Len(<<>>) = 0 /\ \A k \in 1..0 : FALSE
      OBVIOUS
    <3> HIDE DEF at
    <3> QED
      BY <3>1 DEF Lists
  <2>3. <<>> \in Seq(T)
    OBVIOUS
  <2>4. Good(0)
    BY <2>1, <2>2, <2>3
  <2> QED
    BY <2>4
<1>5. ASSUME NEW m \in S PROVE m + 1 \in S
  <2>1. m \in Nat /\ m + 1 \in Nat
    OBVIOUS
  <2>2. SUFFICES ASSUME m + 1 <= Len(s) PROVE Good(m + 1)
    BY <2>1
  <2>3. kept[m] \in Seq(T) /\ Lists(kept[m], s, m)
    BY <2>1, <2>2, <1>2
  <2>4. kept[m + 1] = IF s[m + 1] = Nil THEN kept[m] ELSE Append(kept[m], s[m + 1])
    BY <1>2, <1>3, <2>1, <2>2
  <2>5. s[m + 1] = Nil \/ s[m + 1] \in T
    BY <2>1, <2>2
  <2>6. CASE s[m + 1] = Nil
    BY <2>1, <2>3, <2>4, <2>6, ListsSkip
  <2>7. CASE s[m + 1] # Nil
    BY <2>1, <2>3, <2>4, <2>5, <2>7, ListsKeep
  <2> QED
    BY <2>6, <2>7
<1>6. S = Nat
  <2> HIDE DEF S
  <2>1. S \in SUBSET Nat
    BY DEF S
  <2> QED
    BY <1>4, <1>5, <2>1, SetInduction
<1> QED
  BY <1>1, <1>2, <1>6

-----------------------------------------------------------------------------
(* What the operations do to the slots *)

\* ensureBlock leaves the slots there are, and adds empty ones up to index i.
LEMMA EnsureBlockGrows ==
  ASSUME NEW i \in Int, EnsureBlock(i), content \in Seq(Block \cup {Nil})
  PROVE  /\ content' \in Seq(Block \cup {Nil})
         /\ i < Len(content')
         /\ Len(content') = Len(content) \/ Len(content') = i + 1
         /\ Len(content) <= Len(content')
         /\ \A j \in 1..Len(content) : content'[j] = content[j]
         /\ \A j \in 1..Len(content') : j > Len(content) => content'[j] = Nil
<1> DEFINE more == [j \in 1..(i + 1 - Len(content)) |-> Nil]
<1>1. Len(content) \in Nat
  OBVIOUS
<1>2. CASE i + 1 <= Len(content)
  <2>1. more = <<>>
    BY <1>1, <1>2
  <2>2. content \o <<>> = content
    OBVIOUS
  <2>3. content' = content \o more
    BY DEF EnsureBlock
  <2>4. content' = content
    <3> HIDE DEF more
    <3> QED
      BY <2>1, <2>2, <2>3
  <2> QED
    BY <1>1, <1>2, <2>4
<1>3. CASE ~(i + 1 <= Len(content))
  <2>1. i + 1 - Len(content) \in Nat
    BY <1>1, <1>3
  <2>2. /\ more \in Seq(Block \cup {Nil})
        /\ Len(more) = i + 1 - Len(content)
        /\ \A j \in 1..Len(more) : more[j] = Nil
    BY <2>1
  <2>3. content' = content \o more
    BY DEF EnsureBlock
  <2> HIDE DEF more
  <2> QED
    BY <1>1, <2>1, <2>2, <2>3
<1> QED
  BY <1>2, <1>3

\* An assignment to a slot changes that slot and no other, or panics.
LEMMA PutChanges ==
  ASSUME NEW i \in Int, NEW b \in Block, Put(i, b), content \in Seq(Block \cup {Nil})
  PROVE  /\ content' \in Seq(Block \cup {Nil})
         /\ Len(content') = Len(content)
         /\ \A j \in 1..Len(content) : j # i + 1 => content'[j] = content[j]
         /\ \/ /\ i >= 0 /\ i < Len(content) /\ content'[i + 1] = b
               /\ pc' = pc
            \/ /\ ~(i >= 0 /\ i < Len(content)) /\ content' = content
               /\ pc' = "panicked"
<1>1. Len(content) \in Nat /\ DOMAIN content = 1..Len(content)
  OBVIOUS
<1>2. CASE i + 1 \in DOMAIN content
  <2>1. content' = [content EXCEPT ![i + 1] = b] /\ pc' = pc
    BY <1>2 DEF Put
  <2>2. i + 1 \in 1..Len(content) /\ i >= 0 /\ i < Len(content)
    BY <1>1, <1>2
  <2>3. /\ content' \in Seq(Block \cup {Nil}) /\ Len(content') = Len(content)
        /\ content'[i + 1] = b
        /\ \A j \in 1..Len(content) : j # i + 1 => content'[j] = content[j]
    BY <1>1, <2>1, <2>2
  <2> QED
    BY <2>1, <2>2, <2>3
<1>3. CASE i + 1 \notin DOMAIN content
  BY <1>1, <1>3 DEF Put
<1> QED
  BY <1>2, <1>3

\* The contract's view of an event changes that of its block and of no other.
LEMMA FollowChanges ==
  ASSUME NEW i \in Index, NEW before, NEW after, NEW data,
         Follow(i, before, after, data),
         phase \in [Index -> {"fresh", "text", "thinking", "tool", "closed", "broken"}],
         expected \in [Index -> Block \cup {Nil}]
  PROVE  /\ \A j \in Index : j # i => phase'[j] = phase[j] /\ expected'[j] = expected[j]
         /\ \/ /\ phase[i] = before /\ phase'[i] = after /\ expected'[i] = data
               /\ phase' = [phase EXCEPT ![i] = after]
               /\ expected' = [expected EXCEPT ![i] = data]
            \/ /\ phase[i] # before /\ phase'[i] = "broken" /\ expected' = expected
               /\ phase' = [phase EXCEPT ![i] = "broken"]
  BY DEF Follow

\* A tool call's block is its metadata and its arguments, in this order.
LEMMA AppendToOne ==
  ASSUME NEW T, NEW x \in T, NEW y \in T
  PROVE  Append(<<x>>, y) = <<x, y>>
<1> DEFINE a == Append(<<x>>, y)
           b == <<x, y>>
<1>1. /\ a \in Seq(T) /\ Len(a) = 2 /\ a[1] = x /\ a[2] = y
  OBVIOUS
<1>2. /\ b \in Seq(T) /\ Len(b) = 2 /\ b[1] = x /\ b[2] = y
  OBVIOUS
<1> HIDE DEF a, b
<1>3. a = [k \in 1..2 |-> a[k]] /\ b = [k \in 1..2 |-> b[k]]
  BY <1>1, <1>2
<1>4. \A k \in 1..2 : a[k] = b[k]
  BY <1>1, <1>2
<1>5. a = b
  BY <1>3, <1>4
<1> QED
  BY <1>5 DEF a, b

\* Nil is no block.
LEMMA NilIsNoBlock ==
  /\ Nil \notin Block
  /\ \A b \in Block \cup {Nil} : b.data \in Seq(0..MaxEvents)
  /\ \A b \in Block : b # Nil
<1>1. \A b \in Block : b.kind # "nil" /\ b.data \in Seq(0..MaxEvents)
  BY DEF Block, Kind
<1>2. Nil.kind = "nil" /\ Nil.data = <<>>
  BY DEF Nil
<1>3. <<>> \in Seq(0..MaxEvents)
  OBVIOUS
<1> QED
  BY <1>1, <1>2, <1>3

-----------------------------------------------------------------------------
(* The types *)

\* What every step keeps of what the variables hold.
LEMMA TypeStep == TypeOK /\ [Next]_vars => TypeOK'
<1> SUFFICES ASSUME TypeOK, [Next]_vars PROVE TypeOK'
  OBVIOUS
<1> USE AccumulatorAssumption
<1>0. /\ pc \in {"streaming", "ended", "malformed", "panicked"}
      /\ n \in 0..MaxEvents
      /\ content \in Seq(Block \cup {Nil})
      /\ builders \in [{"text", "thinking"} -> [Index -> Builder]]
      /\ toolMeta \in [Index -> 0..MaxEvents]
      /\ phase \in [Index -> {"fresh", "text", "thinking", "tool", "closed", "broken"}]
      /\ expected \in [Index -> Block \cup {Nil}]
      /\ Index \subseteq Int
  BY DEF TypeOK, Index
<1>1. ASSUME MessageStart \/ MessageEnd PROVE TypeOK'
  BY <1>0, <1>1 DEF TypeOK, MessageStart, MessageEnd, Arrives
<1>2. ASSUME NEW k \in Kind, NEW i \in Index, Start(k, i) PROVE TypeOK'
  <2>1. n' \in 0..MaxEvents /\ n' = n + 1 /\ pc' = pc
    BY <1>0, <1>2 DEF Start, Arrives
  <2>2. content' \in Seq(Block \cup {Nil})
    BY <1>0, <1>2, EnsureBlockGrows DEF Start
  <2>3. builders' \in [{"text", "thinking"} -> [Index -> Builder]]
    <3>1. NewBuilder \in Builder
      BY DEF NewBuilder, Builder
    <3>2. k # "tool" => k \in {"text", "thinking"}
      BY DEF Kind
    <3> QED
      BY <1>0, <1>2, <3>1, <3>2 DEF Start
  <2>4. toolMeta' \in [Index -> 0..MaxEvents]
    BY <1>0, <1>2, <2>1 DEF Start, NoteCall
  <2> DEFINE data == [kind |-> k, data |-> IF k = "tool" THEN <<n + 1>> ELSE <<>>]
  <2>5. data \in Block
    <3>1. <<n + 1>> \in Seq(0..MaxEvents) /\ <<>> \in Seq(0..MaxEvents)
      BY <2>1
    <3> QED
      BY <3>1 DEF Block
  <2>6. Follow(i, "fresh", k, data)
    BY <1>2 DEF Start
  <2> HIDE DEF data
  <2>7. /\ phase' \in [Index -> {"fresh", "text", "thinking", "tool", "closed", "broken"}]
        /\ expected' \in [Index -> Block \cup {Nil}]
    BY <1>0, <2>5, <2>6 DEF Follow, Kind
  <2> QED
    BY <1>0, <2>1, <2>2, <2>3, <2>4, <2>7 DEF TypeOK
<1>3. ASSUME NEW k \in Kind, NEW i \in Index, Delta(k, i) PROVE TypeOK'
  <2>1. n' \in 0..MaxEvents /\ n' = n + 1 /\ UNCHANGED <<pc, content, toolMeta>>
    <3>1. Arrives /\ UNCHANGED <<pc, content, toolMeta>>
      BY <1>3 DEF Delta
    <3> QED
      BY <1>0, <3>1 DEF Arrives
  <2>2. builders' \in [{"text", "thinking"} -> [Index -> Builder]]
    <3>1. CASE k # "tool" /\ builders[k][OwnBlock(i)].open
      <4>1. k \in {"text", "thinking"}
        BY <3>1 DEF Kind
      <4>2. /\ builders' = [builders EXCEPT ![k] = [builders[k] EXCEPT
                              ![i] = [builders[k][i] EXCEPT
                                        !.text = Append(builders[k][i].text, n + 1)]]]
        BY <1>3, <3>1 DEF Delta, OwnBlock
      <4>3. [builders[k][i] EXCEPT !.text = Append(builders[k][i].text, n + 1)] \in Builder
        <5>1. builders[k][i] \in Builder /\ builders[k][i].text \in Seq(0..MaxEvents)
          BY <1>0, <4>1 DEF Builder
        <5>2. Append(builders[k][i].text, n + 1) \in Seq(0..MaxEvents)
          BY <2>1, <5>1
        <5> QED
          BY <5>1, <5>2 DEF Builder
      <4> QED
        BY <1>0, <4>1, <4>2, <4>3
    <3>2. CASE ~(k # "tool" /\ builders[k][OwnBlock(i)].open)
      BY <1>0, <1>3, <3>2 DEF Delta
    <3> QED
      BY <3>1, <3>2
  <2> DEFINE data == [kind |-> k, data |-> IF k = "tool" THEN expected[i].data
                                           ELSE Append(expected[i].data, n + 1)]
  <2>3. data \in Block
    <3>1. expected[i].data \in Seq(0..MaxEvents)
      BY <1>0, NilIsNoBlock
    <3>2. Append(expected[i].data, n + 1) \in Seq(0..MaxEvents)
      BY <2>1, <3>1
    <3> QED
      BY <3>1, <3>2 DEF Block
  <2>4. Follow(i, k, k, data)
    BY <1>3 DEF Delta
  <2> HIDE DEF data
  <2>5. /\ phase' \in [Index -> {"fresh", "text", "thinking", "tool", "closed", "broken"}]
        /\ expected' \in [Index -> Block \cup {Nil}]
    BY <1>0, <2>3, <2>4 DEF Follow, Kind
  <2> QED
    BY <1>0, <2>1, <2>2, <2>5 DEF TypeOK
<1>4. ASSUME NEW k \in {"text", "thinking"}, NEW i \in Index, EndText(k, i) PROVE TypeOK'
  <2>1. n' \in 0..MaxEvents /\ UNCHANGED <<builders, toolMeta>>
    BY <1>0, <1>4 DEF EndText, Arrives
  <2>2. content' \in Seq(Block \cup {Nil})
        /\ pc' \in {"streaming", "ended", "malformed", "panicked"}
    <3>1. CASE builders[k][i].open
      <4>1. [kind |-> k, data |-> builders[k][i].text] \in Block
        BY <1>0 DEF Block, Builder, Kind
      <4> QED
        BY <1>0, <1>4, <3>1, <4>1, PutChanges DEF EndText
    <3>2. CASE ~builders[k][i].open
      BY <1>0, <1>4, <3>2 DEF EndText
    <3> QED
      BY <3>1, <3>2
  <2>3. Follow(i, k, "closed", expected[i])
    BY <1>4 DEF EndText
  <2>4. /\ phase' \in [Index -> {"fresh", "text", "thinking", "tool", "closed", "broken"}]
        /\ expected' \in [Index -> Block \cup {Nil}]
    BY <1>0, <2>3 DEF Follow
  <2> QED
    BY <1>0, <2>1, <2>2, <2>4 DEF TypeOK
<1>5. ASSUME NEW i \in Index, EndToolCall(i) PROVE TypeOK'
  <2>1. n' \in 0..MaxEvents /\ n' = n + 1 /\ UNCHANGED <<builders, toolMeta>>
    BY <1>0, <1>5 DEF EndToolCall, Arrives
  <2>2. PICK args \in {0, n + 1} :
          /\ IF HasMeta(i)
             THEN Put(i, [kind |-> "tool", data |-> <<toolMeta[i], args>>])
             ELSE pc' = "malformed" /\ UNCHANGED content
          /\ Follow(i, "tool", "closed",
                    [kind |-> "tool", data |-> Append(expected[i].data, args)])
    BY <1>5 DEF EndToolCall
  <2>3. args \in 0..MaxEvents
    BY <1>0, <2>1
  <2>4. content' \in Seq(Block \cup {Nil})
        /\ pc' \in {"streaming", "ended", "malformed", "panicked"}
    <3>1. CASE HasMeta(i)
      <4>1. [kind |-> "tool", data |-> <<toolMeta[i], args>>] \in Block
        BY <1>0, <2>3 DEF Block, Kind
      <4> QED
        BY <1>0, <2>2, <3>1, <4>1, PutChanges
    <3>2. CASE ~HasMeta(i)
      BY <1>0, <2>2, <3>2
    <3> QED
      BY <3>1, <3>2
  <2> DEFINE data == [kind |-> "tool", data |-> Append(expected[i].data, args)]
  <2>5. data \in Block
    <3>1. expected[i].data \in Seq(0..MaxEvents)
      BY <1>0, NilIsNoBlock
    <3> QED
      BY <2>3, <3>1 DEF Block, Kind
  <2>6. Follow(i, "tool", "closed", data)
    BY <2>2
  <2> HIDE DEF data
  <2>7. /\ phase' \in [Index -> {"fresh", "text", "thinking", "tool", "closed", "broken"}]
        /\ expected' \in [Index -> Block \cup {Nil}]
    BY <1>0, <2>5, <2>6 DEF Follow
  <2> QED
    BY <1>0, <2>1, <2>4, <2>7 DEF TypeOK
<1>6. ASSUME StreamEnds PROVE TypeOK'
  BY <1>0, <1>6 DEF TypeOK, StreamEnds
<1>7. ASSUME UNCHANGED vars PROVE TypeOK'
  BY <1>0, <1>7 DEF TypeOK, vars
<1> QED
  BY <1>1, <1>2, <1>3, <1>4, <1>5, <1>6, <1>7 DEF Next, Finished

-----------------------------------------------------------------------------
(* What an event does to its own block and to the others *)

Text == {"text", "thinking"}

EventOf(i) ==
  \/ \E k \in Kind : Start(k, i) \/ Delta(k, i)
  \/ \E k \in Text : EndText(k, i)
  \/ EndToolCall(i)

\* Block j is as it was; a slot it did not have yet is empty.
Untouched(j) ==
  /\ phase'[j] = phase[j] /\ expected'[j] = expected[j] /\ toolMeta'[j] = toolMeta[j]
  /\ \A k \in Text : builders'[k][j] = builders[k][j]
  /\ j >= 0 /\ j < Len(content) => content'[j + 1] = content[j + 1]
  /\ j >= Len(content) /\ j < Len(content') => content'[j + 1] = Nil

\* A step is the event of a block, or changes no block.
LEMMA Steps ==
  ASSUME [Next]_vars
  PROVE  \/ \E i \in Index : EventOf(i)
         \/ UNCHANGED <<content, builders, toolMeta, phase, expected>>
<1>1. ASSUME MessageStart \/ MessageEnd
      PROVE  UNCHANGED <<content, builders, toolMeta, phase, expected>>
  BY <1>1 DEF MessageStart, MessageEnd
<1>2. ASSUME StreamEnds
      PROVE  UNCHANGED <<content, builders, toolMeta, phase, expected>>
  BY <1>2 DEF StreamEnds
<1>3. ASSUME UNCHANGED vars
      PROVE  UNCHANGED <<content, builders, toolMeta, phase, expected>>
  BY <1>3 DEF vars
<1> QED
  BY <1>1, <1>2, <1>3, Zenon DEF Next, Finished, EventOf, Text

\* The Start of a block makes room for it and notes it, and does nothing else.
LEMMA StartEffect ==
  ASSUME TypeOK, NEW i \in Index, NEW k \in Kind, Start(k, i)
  PROVE  /\ i < Len(content') /\ Len(content) <= Len(content')
         /\ Len(content') = Len(content) \/ Len(content') = i + 1
         /\ \A j \in 1..Len(content) : content'[j] = content[j]
         /\ \A j \in 1..Len(content') : j > Len(content) => content'[j] = Nil
         /\ \A j \in Index, t \in Text :
              j # i \/ t # k => builders'[t][j] = builders[t][j]
         /\ k \in Text => builders'[k][i] = NewBuilder
         /\ \A j \in Index : j # i => toolMeta'[j] = toolMeta[j]
         /\ toolMeta'[i] = IF k = "tool" THEN n + 1 ELSE toolMeta[i]
         /\ Follow(i, "fresh", k,
                   [kind |-> k, data |-> IF k = "tool" THEN <<n + 1>> ELSE <<>>])
         /\ pc' = pc /\ pc = "streaming"
<1>1. /\ i \in Int /\ content \in Seq(Block \cup {Nil})
      /\ builders \in [Text -> [Index -> Builder]] /\ toolMeta \in [Index -> 0..MaxEvents]
  BY AccumulatorAssumption DEF TypeOK, Index, Text
<1>2. /\ i < Len(content') /\ Len(content) <= Len(content')
      /\ Len(content') = Len(content) \/ Len(content') = i + 1
      /\ \A j \in 1..Len(content) : content'[j] = content[j]
      /\ \A j \in 1..Len(content') : j > Len(content) => content'[j] = Nil
  BY <1>1, EnsureBlockGrows DEF Start
<1>3. /\ \A j \in Index, t \in Text : j # i \/ t # k => builders'[t][j] = builders[t][j]
      /\ k \in Text => builders'[k][i] = NewBuilder
  <2>1. CASE k = "tool"
    BY <1>1, <2>1 DEF Start, Text
  <2>2. CASE k # "tool"
    <3>1. builders' = [builders EXCEPT ![k] = [builders[k] EXCEPT ![i] = NewBuilder]]
      BY <2>2 DEF Start
    <3>2. k \in Text
      BY <2>2 DEF Kind, Text
    <3> QED
      BY <1>1, <3>1, <3>2
  <2> QED
    BY <2>1, <2>2
<1>4. /\ \A j \in Index : j # i => toolMeta'[j] = toolMeta[j]
      /\ toolMeta'[i] = IF k = "tool" THEN n + 1 ELSE toolMeta[i]
  BY <1>1 DEF Start, NoteCall
<1>5. /\ Follow(i, "fresh", k,
                [kind |-> k, data |-> IF k = "tool" THEN <<n + 1>> ELSE <<>>])
      /\ pc' = pc /\ pc = "streaming"
  BY DEF Start, Arrives
<1> QED
  BY <1>2, <1>3, <1>4, <1>5

\* A Delta of a block adds its text to the builder of the block, if there is one.
LEMMA DeltaEffect ==
  ASSUME TypeOK, NEW i \in Index, NEW k \in Kind, Delta(k, i)
  PROVE  /\ UNCHANGED <<pc, content, toolMeta>> /\ pc = "streaming"
         /\ \A j \in Index, t \in Text :
              /\ j # i \/ t # k => builders'[t][j] = builders[t][j]
              /\ builders'[t][j].open = builders[t][j].open
         /\ k \in Text /\ builders[k][i].open =>
              builders'[k][i].text = Append(builders[k][i].text, n + 1)
         /\ Follow(i, k, k, [kind |-> k, data |-> IF k = "tool" THEN expected[i].data
                                                  ELSE Append(expected[i].data, n + 1)])
<1>1. builders \in [Text -> [Index -> Builder]]
  BY DEF TypeOK, Text
<1>2. /\ UNCHANGED <<pc, content, toolMeta>> /\ pc = "streaming"
      /\ Follow(i, k, k, [kind |-> k, data |-> IF k = "tool" THEN expected[i].data
                                               ELSE Append(expected[i].data, n + 1)])
  BY DEF Delta, Arrives
<1>3. CASE k # "tool" /\ builders[k][i].open
  <2>1. k \in Text
    BY <1>3 DEF Kind, Text
  <2> DEFINE b == [builders[k][i] EXCEPT !.text = Append(builders[k][i].text, n + 1)]
  <2>2. builders' = [builders EXCEPT ![k] = [builders[k] EXCEPT ![i] = b]]
    BY <1>3 DEF Delta, OwnBlock
  <2>3. b.open = builders[k][i].open /\ b.text = Append(builders[k][i].text, n + 1)
    <3>1. builders[k][i] \in Builder
      BY <1>1, <2>1
    <3> QED
      BY <3>1 DEF Builder
  <2> HIDE DEF b
  <2> QED
    BY <1>1, <1>2, <2>1, <2>2, <2>3
<1>4. CASE ~(k # "tool" /\ builders[k][i].open)
  <2>1. builders' = builders
    BY <1>4 DEF Delta, OwnBlock
  <2> QED
    BY <1>2, <1>4, <2>1 DEF Text
<1> QED
  BY <1>3, <1>4

\* The End of a text or thinking block puts what its builder holds into its slot.
LEMMA EndTextEffect ==
  ASSUME TypeOK, NEW i \in Index, NEW k \in Text, EndText(k, i)
  PROVE  /\ UNCHANGED <<builders, toolMeta>> /\ pc = "streaming"
         /\ Len(content') = Len(content)
         /\ \A j \in 1..Len(content) : j # i + 1 => content'[j] = content[j]
         /\ builders[k][i].open =>
              \/ /\ i >= 0 /\ i < Len(content) /\ pc' = pc
                 /\ content'[i + 1] = [kind |-> k, data |-> builders[k][i].text]
              \/ ~(i >= 0 /\ i < Len(content)) /\ content' = content /\ pc' = "panicked"
         /\ ~builders[k][i].open => UNCHANGED <<pc, content>>
         /\ Follow(i, k, "closed", expected[i])
<1>1. /\ i \in Int /\ content \in Seq(Block \cup {Nil})
      /\ builders \in [Text -> [Index -> Builder]]
  BY AccumulatorAssumption DEF TypeOK, Index, Text
<1>2. /\ UNCHANGED <<builders, toolMeta>> /\ pc = "streaming"
      /\ Follow(i, k, "closed", expected[i])
  BY DEF EndText, Arrives
<1>3. CASE builders[k][i].open
  <2> DEFINE b == [kind |-> k, data |-> builders[k][i].text]
  <2>1. b \in Block
    BY <1>1 DEF Block, Builder, Kind, Text
  <2>2. Put(i, b)
    BY <1>3 DEF EndText
  <2>3. /\ Len(content') = Len(content)
        /\ \A j \in 1..Len(content) : j # i + 1 => content'[j] = content[j]
        /\ \/ /\ i >= 0 /\ i < Len(content) /\ content'[i + 1] = b
              /\ pc' = pc
           \/ /\ ~(i >= 0 /\ i < Len(content)) /\ content' = content
              /\ pc' = "panicked"
    <3> HIDE DEF b
    <3> QED
      BY <1>1, <2>1, <2>2, PutChanges
  <2> QED
    BY <1>2, <1>3, <2>3
<1>4. CASE ~builders[k][i].open
  <2>1. UNCHANGED <<pc, content>>
    BY <1>4 DEF EndText
  <2> QED
    BY <1>2, <1>4, <2>1
<1> QED
  BY <1>3, <1>4

\* The End of a tool call puts the call into its slot, or the stream is refused.
LEMMA EndToolCallEffect ==
  ASSUME TypeOK, NEW i \in Index, EndToolCall(i)
  PROVE  /\ UNCHANGED <<builders, toolMeta>> /\ pc = "streaming"
         /\ Len(content') = Len(content)
         /\ \A j \in 1..Len(content) : j # i + 1 => content'[j] = content[j]
         /\ \E args \in 0..MaxEvents :
              /\ toolMeta[i] # 0 =>
                   \/ /\ i >= 0 /\ i < Len(content) /\ pc' = pc
                      /\ content'[i + 1] = [kind |-> "tool", data |-> <<toolMeta[i], args>>]
                   \/ /\ ~(i >= 0 /\ i < Len(content)) /\ content' = content
                      /\ pc' = "panicked"
              /\ toolMeta[i] = 0 => pc' = "malformed" /\ content' = content
              /\ Follow(i, "tool", "closed",
                        [kind |-> "tool", data |-> Append(expected[i].data, args)])
<1>1. /\ i \in Int /\ content \in Seq(Block \cup {Nil}) /\ n \in 0..MaxEvents
      /\ toolMeta \in [Index -> 0..MaxEvents]
  BY AccumulatorAssumption DEF TypeOK, Index
<1>2. UNCHANGED <<builders, toolMeta>> /\ pc = "streaming" /\ n < MaxEvents
  BY DEF EndToolCall, Arrives
<1>3. PICK args \in {0, n + 1} :
        /\ IF HasMeta(i)
           THEN Put(i, [kind |-> "tool", data |-> <<toolMeta[i], args>>])
           ELSE pc' = "malformed" /\ UNCHANGED content
        /\ Follow(i, "tool", "closed",
                  [kind |-> "tool", data |-> Append(expected[i].data, args)])
  BY DEF EndToolCall
<1>4. args \in 0..MaxEvents
  BY <1>1, <1>2, AccumulatorAssumption
<1>5. CASE toolMeta[i] # 0
  <2> DEFINE b == [kind |-> "tool", data |-> <<toolMeta[i], args>>]
  <2>1. b \in Block
    BY <1>1, <1>4 DEF Block, Kind
  <2>2. Put(i, b)
    BY <1>3, <1>5 DEF HasMeta
  <2>3. /\ Len(content') = Len(content)
        /\ \A j \in 1..Len(content) : j # i + 1 => content'[j] = content[j]
        /\ \/ /\ i >= 0 /\ i < Len(content) /\ content'[i + 1] = b
              /\ pc' = pc
           \/ /\ ~(i >= 0 /\ i < Len(content)) /\ content' = content
              /\ pc' = "panicked"
    <3> HIDE DEF b
    <3> QED
      BY <1>1, <2>1, <2>2, PutChanges
  <2> QED
    BY <1>2, <1>3, <1>4, <1>5, <2>3
<1>6. CASE toolMeta[i] = 0
  <2>1. pc' = "malformed" /\ content' = content
    BY <1>3, <1>6 DEF HasMeta
  <2> QED
    BY <1>2, <1>3, <1>4, <1>6, <2>1
<1> QED
  BY <1>5, <1>6

\* No event reaches another block: not its builder, its metadata, its slot, nor
\* what the contract says of it.
LEMMA OthersUntouched ==
  ASSUME TypeOK, NEW i \in Index, EventOf(i)
  PROVE  /\ Len(content) <= Len(content')
         /\ Len(content') = Len(content) \/ Len(content') = i + 1
         /\ \A j \in Index : j # i => Untouched(j)
<1>1. /\ Index \subseteq Int /\ Len(content) \in Nat
      /\ phase \in [Index -> {"fresh", "text", "thinking", "tool", "closed", "broken"}]
      /\ expected \in [Index -> Block \cup {Nil}]
  BY AccumulatorAssumption DEF TypeOK, Index
<1> DEFINE Same(j) == phase'[j] = phase[j] /\ expected'[j] = expected[j]
<1>2. ASSUME NEW before, NEW after, NEW data, Follow(i, before, after, data)
      PROVE  \A j \in Index : j # i => Same(j)
  BY <1>1, <1>2, FollowChanges
<1>3. ASSUME NEW k \in Kind, Start(k, i)
      PROVE  /\ Len(content) <= Len(content')
             /\ Len(content') = Len(content) \/ Len(content') = i + 1
             /\ \A j \in Index : j # i => Untouched(j)
  <2>1. /\ Len(content) <= Len(content')
        /\ Len(content') = Len(content) \/ Len(content') = i + 1
        /\ \A j \in 1..Len(content) : content'[j] = content[j]
        /\ \A j \in 1..Len(content') : j > Len(content) => content'[j] = Nil
    BY <1>1, <1>3, EnsureBlockGrows DEF Start, TypeOK
  <2>2. /\ \A j \in Index, t \in Text :
             j # i \/ t # k => builders'[t][j] = builders[t][j]
        /\ \A j \in Index : j # i => toolMeta'[j] = toolMeta[j]
    BY <1>3, StartEffect
  <2>3. \A j \in Index : j # i => Same(j)
    BY <1>2, <1>3 DEF Start
  <2>4. Len(content') \in Nat
    BY <1>1, <2>1
  <2> QED
    <3>1. ASSUME NEW j \in Index, j # i PROVE Untouched(j)
      <4>1. j \in Int
        BY <1>1
      <4>2. j >= 0 /\ j < Len(content) => content'[j + 1] = content[j + 1]
        BY <1>1, <2>1, <4>1
      <4>3. j >= Len(content) /\ j < Len(content') => content'[j + 1] = Nil
        BY <1>1, <2>1, <2>4, <4>1
      <4> QED
        BY <2>2, <2>3, <3>1, <4>2, <4>3 DEF Untouched
    <3> QED
      BY <2>1, <3>1
<1>4. ASSUME NEW k \in Kind, Delta(k, i)
      PROVE  content' = content /\ \A j \in Index : j # i => Untouched(j)
  <2>1. /\ UNCHANGED <<content, toolMeta>>
        /\ \A j \in Index, t \in Text : j # i => builders'[t][j] = builders[t][j]
    BY <1>4, DeltaEffect
  <2>2. \A j \in Index : j # i => Same(j)
    BY <1>2, <1>4 DEF Delta
  <2>3. ASSUME NEW j \in Index, j # i PROVE Untouched(j)
    <3>1. j \in Int /\ Len(content') = Len(content)
      BY <1>1, <2>1
    <3> QED
      BY <1>1, <2>1, <2>2, <2>3, <3>1 DEF Untouched
  <2> QED
    BY <2>1, <2>3
<1>5. ASSUME NEW k \in Text, EndText(k, i)
      PROVE  Len(content') = Len(content) /\ \A j \in Index : j # i => Untouched(j)
  <2>1. /\ UNCHANGED <<builders, toolMeta>> /\ Len(content') = Len(content)
        /\ \A j \in 1..Len(content) : j # i + 1 => content'[j] = content[j]
    BY <1>5, EndTextEffect
  <2>2. \A j \in Index : j # i => Same(j)
    BY <1>2, <1>5 DEF EndText
  <2>3. ASSUME NEW j \in Index, j # i PROVE Untouched(j)
    <3>1. j >= 0 /\ j < Len(content) => content'[j + 1] = content[j + 1]
      BY <1>1, <2>1, <2>3
    <3>2. j >= Len(content) /\ j < Len(content') => content'[j + 1] = Nil
      BY <1>1, <2>1
    <3> QED
      BY <2>1, <2>2, <2>3, <3>1, <3>2 DEF Untouched
  <2> QED
    BY <2>1, <2>3
<1>6. ASSUME EndToolCall(i)
      PROVE  Len(content') = Len(content) /\ \A j \in Index : j # i => Untouched(j)
  <2>1. /\ UNCHANGED <<builders, toolMeta>> /\ Len(content') = Len(content)
        /\ \A j \in 1..Len(content) : j # i + 1 => content'[j] = content[j]
    BY <1>6, EndToolCallEffect
  <2>2. \A j \in Index : j # i => Same(j)
    BY <1>2, <1>6 DEF EndToolCall
  <2>3. ASSUME NEW j \in Index, j # i PROVE Untouched(j)
    <3>1. j >= 0 /\ j < Len(content) => content'[j + 1] = content[j + 1]
      BY <1>1, <2>1, <2>3
    <3>2. j >= Len(content) /\ j < Len(content') => content'[j + 1] = Nil
      BY <1>1, <2>1
    <3> QED
      BY <2>1, <2>2, <2>3, <3>1, <3>2 DEF Untouched
  <2> QED
    BY <2>1, <2>3
<1> QED
  BY <1>1, <1>3, <1>4, <1>5, <1>6 DEF EventOf

-----------------------------------------------------------------------------
(* The inductive invariant *)

\* What OwnEventsOnly says of block i.
OwnAt(i) ==
  pc # "panicked" /\ phase[i] # "broken" =>
    IF phase[i] = "closed"
    THEN i < Len(content) /\ content[i + 1] = expected[i]
    ELSE i < Len(content) => content[i + 1] = Nil

\* An event comes only while the stream goes on, and does not end it.
LEMMA EventsWhileStreaming ==
  ASSUME TypeOK, NEW i \in Index, EventOf(i)
  PROVE  pc = "streaming" /\ pc' # "ended"
<1>1. ASSUME NEW k \in Kind, Start(k, i) \/ Delta(k, i)
      PROVE  pc = "streaming" /\ pc' # "ended"
  BY <1>1 DEF Start, Delta, Arrives
<1>2. ASSUME NEW k \in Text, EndText(k, i) PROVE pc = "streaming" /\ pc' # "ended"
  BY <1>2, EndTextEffect
<1>3. ASSUME EndToolCall(i) PROVE pc = "streaming" /\ pc' # "ended"
  BY <1>3, EndToolCallEffect
<1> QED
  BY <1>1, <1>2, <1>3 DEF EventOf

\* What is collected for a block stays behind a slot.
LEMMA RoomStep == TypeOK /\ Room /\ Bounded /\ [Next]_vars => Room' /\ Bounded'
<1> SUFFICES ASSUME TypeOK, Room, Bounded, [Next]_vars PROVE Room' /\ Bounded'
  OBVIOUS
<1>0. Index \subseteq Int /\ MaxBlock \in Nat /\ Len(content) \in Nat
      /\ \A i \in Index : i <= MaxBlock
  BY AccumulatorAssumption DEF TypeOK, Index
<1>1. ASSUME UNCHANGED <<content, builders, toolMeta, phase, expected>>
      PROVE  Room' /\ Bounded'
  BY <1>1 DEF Room, RoomAt, Bounded
<1>2. ASSUME NEW i \in Index, EventOf(i) PROVE Room' /\ Bounded'
  <2>1. /\ Len(content) <= Len(content')
        /\ Len(content') = Len(content) \/ Len(content') = i + 1
        /\ \A j \in Index : j # i => Untouched(j)
    BY <1>2, OthersUntouched
  <2>2. Bounded'
    BY <1>0, <2>1 DEF Bounded
  <2>3. ASSUME NEW j \in Index, j # i PROVE RoomAt(j)'
    <3>1. Untouched(j) /\ RoomAt(j)
      BY <2>1, <2>3 DEF Room
    <3>2. toolMeta'[j] = toolMeta[j] /\ \A k \in Text : builders'[k][j] = builders[k][j]
      BY <3>1 DEF Untouched
    <3>3. j >= 0 /\ j < Len(content) => j < Len(content')
      BY <1>0, <2>1
    <3> QED
      BY <3>1, <3>2, <3>3 DEF RoomAt, Text
  <2>4. RoomAt(i)'
    <3>0. RoomAt(i)
      BY DEF Room
    <3>1. ASSUME NEW k \in Kind, Start(k, i) PROVE RoomAt(i)'
      <4>1. i < Len(content')
        BY <3>1, StartEffect
      <4> QED
        BY <4>1 DEF RoomAt
    <3>2. ASSUME NEW k \in Kind, Delta(k, i) PROVE RoomAt(i)'
      <4>1. /\ UNCHANGED <<content, toolMeta>>
            /\ \A t \in Text : builders'[t][i].open = builders[t][i].open
        BY <3>2, DeltaEffect
      <4> QED
        BY <3>0, <4>1 DEF RoomAt, Text
    <3>3. ASSUME NEW k \in Text, EndText(k, i) PROVE RoomAt(i)'
      <4>1. UNCHANGED <<builders, toolMeta>> /\ Len(content') = Len(content)
        BY <3>3, EndTextEffect
      <4> QED
        BY <3>0, <4>1 DEF RoomAt
    <3>4. ASSUME EndToolCall(i) PROVE RoomAt(i)'
      <4>1. UNCHANGED <<builders, toolMeta>> /\ Len(content') = Len(content)
        BY <3>4, EndToolCallEffect
      <4> QED
        BY <3>0, <4>1 DEF RoomAt
    <3> QED
      BY <1>2, <3>1, <3>2, <3>3, <3>4 DEF EventOf
  <2>5. Room'
    <3>1. \A j \in Index : RoomAt(j)'
      BY <2>3, <2>4
    <3> QED
      BY <3>1 DEF Room
  <2> QED
    BY <2>2, <2>5
<1> QED
  BY <1>1, <1>2, Steps

\* What is collected for a block is what the contract says of its events so far.
LEMMA CollectedStep == TypeOK /\ Collected /\ [Next]_vars => Collected'
<1> SUFFICES ASSUME TypeOK, Collected, [Next]_vars PROVE Collected'
  OBVIOUS
<1>0. /\ n \in 0..MaxEvents /\ toolMeta \in [Index -> 0..MaxEvents]
      /\ phase \in [Index -> {"fresh", "text", "thinking", "tool", "closed", "broken"}]
      /\ expected \in [Index -> Block \cup {Nil}]
      /\ \A i \in Index : expected'[i] \in Block \cup {Nil}
  BY TypeStep DEF TypeOK
<1>1. ASSUME UNCHANGED <<content, builders, toolMeta, phase, expected>> PROVE Collected'
  BY <1>1 DEF Collected, CollectedAt
<1>2. ASSUME NEW i \in Index, EventOf(i) PROVE Collected'
  <2>1. ASSUME NEW j \in Index, j # i PROVE CollectedAt(j)'
    <3>1. Untouched(j) /\ CollectedAt(j)
      BY <1>2, <2>1, OthersUntouched DEF Collected
    <3> QED
      BY <3>1 DEF Untouched, CollectedAt, Text
  <2>2. CollectedAt(i)'
    <3>0. CollectedAt(i)
      BY DEF Collected
    <3>1. ASSUME NEW k \in Kind, Start(k, i) PROVE CollectedAt(i)'
      <4> DEFINE data == [kind |-> k, data |-> IF k = "tool" THEN <<n + 1>> ELSE <<>>]
      <4>1. /\ k \in Text => builders'[k][i] = NewBuilder
            /\ k = "tool" => toolMeta'[i] = n + 1
            /\ Follow(i, "fresh", k, data)
        BY <3>1, StartEffect
      <4>2. \/ phase'[i] = "broken"
            \/ phase'[i] = k /\ expected'[i] = data
        BY <1>0, <4>1 DEF Follow
      <4>3. n + 1 # 0 /\ k # "closed" /\ k # "broken" /\ (k \in Text \/ k = "tool")
        BY <1>0 DEF Kind, Text
      <4>4. CASE phase'[i] = "broken"
        BY <4>4 DEF CollectedAt
      <4>5. CASE phase'[i] = k /\ expected'[i] = data
        BY <4>1, <4>3, <4>5 DEF CollectedAt, Text, NewBuilder
      <4> QED
        BY <4>2, <4>4, <4>5
    <3>2. ASSUME NEW k \in Kind, Delta(k, i) PROVE CollectedAt(i)'
      <4> DEFINE data == [kind |-> k, data |-> IF k = "tool" THEN expected[i].data
                                               ELSE Append(expected[i].data, n + 1)]
      <4>1. /\ UNCHANGED toolMeta
            /\ \A t \in Text : builders'[t][i].open = builders[t][i].open
            /\ k \in Text /\ builders[k][i].open =>
                 builders'[k][i].text = Append(builders[k][i].text, n + 1)
            /\ Follow(i, k, k, data)
        BY <3>2, DeltaEffect
      <4>2. \/ phase'[i] = "broken"
            \/ phase[i] = k /\ phase'[i] = k /\ expected'[i] = data
        BY <1>0, <4>1 DEF Follow
      <4>3. k # "closed" /\ k # "broken" /\ (k \in Text \/ k = "tool") /\ "tool" \notin Text
        BY DEF Kind, Text
      <4>4. CASE phase'[i] = "broken"
        BY <4>4 DEF CollectedAt
      <4>5. CASE phase[i] = k /\ phase'[i] = k /\ expected'[i] = data
        <5>1. CASE k \in Text
          <6>1. /\ builders[k][i].open
                /\ expected[i].data = builders[k][i].text
            BY <3>0, <4>5, <5>1 DEF CollectedAt, Text
          <6>2. /\ builders'[k][i].open
                /\ expected'[i] = [kind |-> k, data |-> builders'[k][i].text]
            BY <4>1, <4>3, <4>5, <5>1, <6>1
          <6> QED
            BY <4>3, <4>5, <5>1, <6>2 DEF CollectedAt, Text
        <5>2. CASE k = "tool"
          <6>1. toolMeta[i] # 0 /\ expected[i].data = <<toolMeta[i]>>
            BY <3>0, <4>5, <5>2 DEF CollectedAt
          <6> QED
            BY <4>1, <4>5, <5>2, <6>1 DEF CollectedAt
        <5> QED
          BY <4>3, <5>1, <5>2
      <4> QED
        BY <4>2, <4>4, <4>5
    <3>3. ASSUME NEW k \in Text, EndText(k, i) PROVE CollectedAt(i)'
      <4>1. Follow(i, k, "closed", expected[i])
        BY <3>3, EndTextEffect
      <4>2. \/ phase'[i] = "broken"
            \/ phase[i] = k /\ phase'[i] = "closed" /\ expected'[i] = expected[i]
        BY <1>0, <4>1 DEF Follow
      <4>3. CASE phase'[i] = "broken"
        BY <4>3 DEF CollectedAt
      <4>4. CASE phase[i] = k /\ phase'[i] = "closed" /\ expected'[i] = expected[i]
        <5>1. expected[i].kind = k /\ k # "nil"
          BY <3>0, <4>4 DEF CollectedAt, Text
        <5>2. expected'[i] \in Block
          BY <1>0, <4>4, <5>1 DEF Nil
        <5> QED
          BY <4>4, <5>2 DEF CollectedAt
      <4> QED
        BY <4>2, <4>3, <4>4
    <3>4. ASSUME EndToolCall(i) PROVE CollectedAt(i)'
      <4>1. PICK args \in 0..MaxEvents :
              Follow(i, "tool", "closed",
                     [kind |-> "tool", data |-> Append(expected[i].data, args)])
        BY <3>4, EndToolCallEffect
      <4>2. \/ phase'[i] = "broken"
            \/ phase'[i] = "closed" /\ expected'[i].kind = "tool"
        BY <1>0, <4>1 DEF Follow
      <4>3. CASE phase'[i] = "broken"
        BY <4>3 DEF CollectedAt
      <4>4. CASE phase'[i] = "closed" /\ expected'[i].kind = "tool"
        <5>1. expected'[i] \in Block
          BY <1>0, <4>4 DEF Nil
        <5> QED
          BY <4>4, <5>1 DEF CollectedAt
      <4> QED
        BY <4>2, <4>3, <4>4
    <3> QED
      BY <1>2, <3>1, <3>2, <3>3, <3>4 DEF EventOf
  <2>3. \A j \in Index : CollectedAt(j)'
    BY <2>1, <2>2
  <2> QED
    BY <2>3 DEF Collected
<1> QED
  BY <1>1, <1>2, Steps

\* A finished block stays in its slot, and no other slot is filled.
LEMMA OwnStep ==
  TypeOK /\ Room /\ Collected /\ OwnEventsOnly /\ [Next]_vars => OwnEventsOnly'
<1> SUFFICES ASSUME TypeOK, Room, Collected, OwnEventsOnly, [Next]_vars
             PROVE  OwnEventsOnly'
  OBVIOUS
<1>0. /\ 0..MaxBlock \subseteq Index /\ Index \subseteq Int /\ Len(content) \in Nat
      /\ phase \in [Index -> {"fresh", "text", "thinking", "tool", "closed", "broken"}]
      /\ expected \in [Index -> Block \cup {Nil}]
  BY AccumulatorAssumption DEF TypeOK, Index
<1>1. ASSUME UNCHANGED <<content, builders, toolMeta, phase, expected>>
      PROVE  OwnEventsOnly'
  <2>1. pc' # "panicked" => pc # "panicked"
    BY DEF Next, MessageStart, MessageEnd, Start, Delta, EndText, EndToolCall, StreamEnds,
           Finished, Arrives, vars
  <2> QED
    BY <1>1, <2>1 DEF OwnEventsOnly
<1>2. ASSUME NEW i \in Index, EventOf(i) PROVE OwnEventsOnly'
  <2>0. pc = "streaming" /\ Len(content) <= Len(content') /\ Len(content') \in Nat
    BY <1>0, <1>2, EventsWhileStreaming, OthersUntouched
  <2>1. ASSUME NEW j \in 0..MaxBlock, j # i PROVE OwnAt(j)'
    <3>1. Untouched(j)
      BY <1>0, <1>2, <2>1, OthersUntouched
    <3>2. phase[j] # "broken" =>
            IF phase[j] = "closed"
            THEN j < Len(content) /\ content[j + 1] = expected[j]
            ELSE j < Len(content) => content[j + 1] = Nil
      BY <2>0 DEF OwnEventsOnly
    <3> QED
      BY <2>0, <1>0, <3>1, <3>2 DEF Untouched, OwnAt
  <2>2. ASSUME i \in 0..MaxBlock PROVE OwnAt(i)'
    <3>0. /\ RoomAt(i) /\ CollectedAt(i) /\ i \in Nat
          /\ phase[i] # "broken" =>
               IF phase[i] = "closed"
               THEN i < Len(content) /\ content[i + 1] = expected[i]
               ELSE i < Len(content) => content[i + 1] = Nil
      BY <2>0, <2>2 DEF OwnEventsOnly, Room, Collected
    <3>1. ASSUME NEW k \in Kind, Start(k, i) PROVE OwnAt(i)'
      <4>1. /\ \A j \in 1..Len(content) : content'[j] = content[j]
            /\ \A j \in 1..Len(content') : j > Len(content) => content'[j] = Nil
        BY <3>1, StartEffect
      <4>2. phase'[i] = "broken" \/ (phase[i] = "fresh" /\ phase'[i] = k)
        BY <1>0, <3>1 DEF Start, Follow
      <4>3. k # "closed"
        BY DEF Kind
      <4>4. CASE phase'[i] = "broken"
        BY <4>4 DEF OwnAt
      <4>5. CASE phase[i] = "fresh" /\ phase'[i] = k
        <5>1. i < Len(content') => content'[i + 1] = Nil
          BY <1>0, <2>0, <3>0, <4>1, <4>5
        <5> QED
          BY <4>3, <4>5, <5>1 DEF OwnAt
      <4> QED
        BY <4>2, <4>4, <4>5
    <3>2. ASSUME NEW k \in Kind, Delta(k, i) PROVE OwnAt(i)'
      <4>1. UNCHANGED content
        BY <3>2, DeltaEffect
      <4>2. phase'[i] = "broken" \/ (phase[i] = k /\ phase'[i] = k)
        BY <1>0, <3>2 DEF Delta, Follow
      <4>3. k # "closed" /\ k # "broken"
        BY DEF Kind
      <4> QED
        BY <3>0, <4>1, <4>2, <4>3 DEF OwnAt
    <3>3. ASSUME NEW k \in Text, EndText(k, i) PROVE OwnAt(i)'
      <4>1. /\ Len(content') = Len(content)
            /\ builders[k][i].open =>
                 \/ /\ i >= 0 /\ i < Len(content) /\ pc' = pc
                    /\ content'[i + 1] = [kind |-> k, data |-> builders[k][i].text]
                 \/ ~(i >= 0 /\ i < Len(content)) /\ content' = content /\ pc' = "panicked"
            /\ Follow(i, k, "closed", expected[i])
        BY <3>3, EndTextEffect
      <4>2. \/ phase'[i] = "broken"
            \/ phase[i] = k /\ phase'[i] = "closed" /\ expected'[i] = expected[i]
        BY <1>0, <4>1 DEF Follow
      <4>3. CASE phase'[i] = "broken"
        BY <4>3 DEF OwnAt
      <4>4. CASE phase[i] = k /\ phase'[i] = "closed" /\ expected'[i] = expected[i]
        <5>1. /\ builders[k][i].open
              /\ expected[i] = [kind |-> k, data |-> builders[k][i].text]
          BY <3>0, <4>4 DEF CollectedAt, Text
        <5>2. i >= 0 /\ i < Len(content)
          BY <3>0, <5>1 DEF RoomAt, Text
        <5>3. i < Len(content') /\ content'[i + 1] = expected'[i]
          BY <4>1, <4>4, <5>1, <5>2
        <5> QED
          BY <4>4, <5>3 DEF OwnAt
      <4> QED
        BY <4>2, <4>3, <4>4
    <3>4. ASSUME EndToolCall(i) PROVE OwnAt(i)'
      <4>1. /\ Len(content') = Len(content)
            /\ \E args \in 0..MaxEvents :
                 /\ toolMeta[i] # 0 =>
                      \/ /\ i >= 0 /\ i < Len(content) /\ pc' = pc
                         /\ content'[i + 1] =
                              [kind |-> "tool", data |-> <<toolMeta[i], args>>]
                      \/ /\ ~(i >= 0 /\ i < Len(content)) /\ content' = content
                         /\ pc' = "panicked"
                 /\ Follow(i, "tool", "closed",
                           [kind |-> "tool", data |-> Append(expected[i].data, args)])
        BY <3>4, EndToolCallEffect
      <4>2. PICK args \in 0..MaxEvents :
              /\ toolMeta[i] # 0 =>
                   \/ /\ i >= 0 /\ i < Len(content) /\ pc' = pc
                      /\ content'[i + 1] = [kind |-> "tool", data |-> <<toolMeta[i], args>>]
                   \/ /\ ~(i >= 0 /\ i < Len(content)) /\ content' = content
                      /\ pc' = "panicked"
              /\ Follow(i, "tool", "closed",
                        [kind |-> "tool", data |-> Append(expected[i].data, args)])
        BY <4>1
      <4>3. \/ phase'[i] = "broken"
            \/ /\ phase[i] = "tool" /\ phase'[i] = "closed"
               /\ expected'[i] = [kind |-> "tool", data |-> Append(expected[i].data, args)]
        BY <1>0, <4>2 DEF Follow
      <4>4. CASE phase'[i] = "broken"
        BY <4>4 DEF OwnAt
      <4>5. CASE /\ phase[i] = "tool" /\ phase'[i] = "closed"
                 /\ expected'[i] = [kind |-> "tool", data |-> Append(expected[i].data, args)]
        <5>1. toolMeta[i] # 0 /\ expected[i].data = <<toolMeta[i]>>
          BY <3>0, <4>5 DEF CollectedAt
        <5>2. i >= 0 /\ i < Len(content)
          BY <3>0, <5>1 DEF RoomAt
        <5>3. content'[i + 1] = [kind |-> "tool", data |-> <<toolMeta[i], args>>]
          BY <4>2, <5>1, <5>2
        <5>4. Append(expected[i].data, args) = <<toolMeta[i], args>>
          <6>1. toolMeta[i] \in 0..MaxEvents
            BY DEF TypeOK
          <6> QED
            BY <5>1, <6>1, AppendToOne
        <5>5. i < Len(content') /\ content'[i + 1] = expected'[i]
          BY <4>1, <4>5, <5>2, <5>3, <5>4
        <5> QED
          BY <4>5, <5>5 DEF OwnAt
      <4> QED
        BY <4>3, <4>4, <4>5
    <3> QED
      BY <1>2, <3>1, <3>2, <3>3, <3>4 DEF EventOf
  <2>3. \A j \in 0..MaxBlock : OwnAt(j)'
    BY <2>1, <2>2
  <2> QED
    BY <2>3 DEF OwnEventsOnly, OwnAt
<1> QED
  BY <1>1, <1>2, Steps

\* A step panics only at an index below zero, and refuses a stream only where it
\* breaks the contract.
LEMMA StopStep ==
  /\ TypeOK /\ Room /\ Collected /\ OnlyBelowZeroPanics /\ Refused /\ [Next]_vars
  => OnlyBelowZeroPanics' /\ Refused'
<1> SUFFICES ASSUME TypeOK, Room, Collected, OnlyBelowZeroPanics, Refused, [Next]_vars
             PROVE  OnlyBelowZeroPanics' /\ Refused'
  OBVIOUS
<1>0. /\ Index \subseteq Int
      /\ phase \in [Index -> {"fresh", "text", "thinking", "tool", "closed", "broken"}]
      /\ expected \in [Index -> Block \cup {Nil}]
  BY AccumulatorAssumption DEF TypeOK, Index
<1>1. ASSUME UNCHANGED <<pc, phase>> PROVE OnlyBelowZeroPanics' /\ Refused'
  BY <1>1 DEF OnlyBelowZeroPanics, Refused, WellFormed
<1>2. ASSUME pc' = "streaming" \/ pc' = "ended" PROVE OnlyBelowZeroPanics' /\ Refused'
  BY <1>2 DEF OnlyBelowZeroPanics, Refused
<1>3. ASSUME NEW i \in Index, i < 0, phase'[i] # "fresh", pc' # "malformed"
      PROVE  OnlyBelowZeroPanics' /\ Refused'
  BY <1>3 DEF OnlyBelowZeroPanics, Refused
<1>4. ASSUME NEW k \in Text, NEW i \in Index, EndText(k, i)
      PROVE  OnlyBelowZeroPanics' /\ Refused'
  <2>1. /\ pc = "streaming"
        /\ builders[k][i].open =>
             \/ pc' = pc
             \/ ~(i >= 0 /\ i < Len(content)) /\ pc' = "panicked"
        /\ ~builders[k][i].open => pc' = pc
        /\ Follow(i, k, "closed", expected[i])
    BY <1>4, EndTextEffect
  <2>2. CASE pc' = pc
    BY <1>2, <2>1, <2>2
  <2>3. CASE pc' # pc
    <3>1. builders[k][i].open /\ ~(i >= 0 /\ i < Len(content)) /\ pc' = "panicked"
      BY <2>1, <2>3
    <3>2. i < 0
      BY <1>0, <3>1 DEF Room, RoomAt, Text
    <3>3. phase'[i] # "fresh"
      BY <1>0, <2>1 DEF Follow
    <3> QED
      BY <1>3, <3>1, <3>2, <3>3
  <2> QED
    BY <2>2, <2>3
<1>5. ASSUME NEW i \in Index, EndToolCall(i) PROVE OnlyBelowZeroPanics' /\ Refused'
  <2>1. pc = "streaming" /\
        \E args \in 0..MaxEvents :
          /\ toolMeta[i] # 0 =>
               pc' = pc \/ (~(i >= 0 /\ i < Len(content)) /\ pc' = "panicked")
          /\ toolMeta[i] = 0 => pc' = "malformed"
          /\ Follow(i, "tool", "closed",
                    [kind |-> "tool", data |-> Append(expected[i].data, args)])
    BY <1>5, EndToolCallEffect
  <2>2. /\ phase'[i] # "fresh"
        /\ phase[i] # "tool" => phase'[i] = "broken"
    BY <1>0, <2>1 DEF Follow
  <2>3. CASE toolMeta[i] = 0
    <3>1. pc' = "malformed" /\ phase[i] # "tool"
      BY <2>1, <2>3 DEF Collected, CollectedAt
    <3> QED
      BY <2>2, <3>1 DEF OnlyBelowZeroPanics, Refused, WellFormed
  <2>4. CASE toolMeta[i] # 0 /\ pc' = pc
    BY <1>2, <2>1, <2>4
  <2>5. CASE toolMeta[i] # 0 /\ pc' # pc
    <3>1. ~(i >= 0 /\ i < Len(content)) /\ pc' = "panicked"
      BY <2>1, <2>5
    <3>2. i < 0
      BY <1>0, <2>5, <3>1 DEF Room, RoomAt
    <3> QED
      BY <1>3, <2>2, <3>1, <3>2
  <2> QED
    BY <2>3, <2>4, <2>5
<1>6. ASSUME NEW k \in Kind, NEW i \in Index, Start(k, i) \/ Delta(k, i)
      PROVE  OnlyBelowZeroPanics' /\ Refused'
  BY <1>2, <1>6 DEF Start, Delta, Arrives
<1>7. ASSUME MessageStart \/ MessageEnd PROVE OnlyBelowZeroPanics' /\ Refused'
  BY <1>1, <1>7 DEF MessageStart, MessageEnd
<1>8. ASSUME StreamEnds PROVE OnlyBelowZeroPanics' /\ Refused'
  BY <1>2, <1>8 DEF StreamEnds
<1>9. ASSUME UNCHANGED vars PROVE OnlyBelowZeroPanics' /\ Refused'
  BY <1>1, <1>9 DEF vars
<1> QED
  BY <1>4, <1>5, <1>6, <1>7, <1>8, <1>9, Zenon DEF Next, Finished, Text

\* Only final makes a message, and nothing changes it or the slots afterwards.
LEMMA ReturnedStep == TypeOK /\ Returned /\ [Next]_vars => Returned'
<1> SUFFICES ASSUME TypeOK, Returned, [Next]_vars PROVE Returned'
  OBVIOUS
<1>1. ASSUME NEW i \in Index, EventOf(i) PROVE Returned'
  BY <1>1, EventsWhileStreaming DEF Returned
<1>2. ASSUME StreamEnds PROVE Returned'
  <2>1. message'.content = Kept(content) /\ content' = content
    BY <1>2 DEF StreamEnds, Final
  <2> QED
    BY <2>1 DEF Returned
<1>3. ASSUME MessageStart \/ MessageEnd PROVE Returned'
  BY <1>3 DEF Returned, MessageStart, MessageEnd, Arrives
<1>4. ASSUME UNCHANGED vars PROVE Returned'
  BY <1>4 DEF Returned, vars
<1> QED
  BY <1>1, <1>2, <1>3, <1>4, Zenon DEF Next, Finished, EventOf, Text

\* IInv holds initially and every step preserves it: the inductive invariant of the
\* accumulator, for streams of any length.
THEOREM AccumulatorInvariant == Spec => []IInv
<1>1. Init => IInv
  <2> SUFFICES ASSUME Init PROVE IInv
    OBVIOUS
  <2> USE AccumulatorAssumption
  <2>1. TypeOK
    <3>1. NoBuilder \in Builder
      BY DEF NoBuilder, Builder
    <3> QED
      BY <3>1 DEF Init, TypeOK
  <2>2. Room /\ Bounded
    <3>1. content = <<>> /\ Len(<<>>) = 0 /\ ~NoBuilder.open
      BY DEF Init, NoBuilder
    <3> QED
      BY <3>1 DEF Init, Room, RoomAt, Bounded
  <2>3. Collected
    BY DEF Init, Collected, CollectedAt
  <2>4. OwnEventsOnly
    <3>1. content = <<>> /\ Len(<<>>) = 0 /\ 0..MaxBlock \subseteq Index
      BY DEF Init, Index
    <3> QED
      BY <3>1 DEF Init, OwnEventsOnly
  <2>5. Returned /\ Refused /\ OnlyBelowZeroPanics
    BY DEF Init, Returned, Refused, OnlyBelowZeroPanics
  <2> QED
    BY <2>1, <2>2, <2>3, <2>4, <2>5 DEF IInv
<1>2. IInv /\ [Next]_vars => IInv'
  BY TypeStep, RoomStep, CollectedStep, OwnStep, StopStep, ReturnedStep DEF IInv
<1> QED
  BY <1>1, <1>2, PTL DEF Spec

\* Whatever the order and the indices of the events, an assignment to msg.Content
\* is out of range only at an index below zero.
THEOREM PanicsBelowZero == Spec => []OnlyBelowZeroPanics
<1>1. IInv => OnlyBelowZeroPanics
  BY DEF IInv
<1> QED
  BY <1>1, AccumulatorInvariant, PTL

\* A block that keeps the contract is made of its own events and of no others,
\* however the provider interleaves its blocks.
THEOREM BlocksAreTheirOwn == Spec => []OwnEventsOnly
<1>1. IInv => OwnEventsOnly
  BY DEF IInv
<1> QED
  BY <1>1, AccumulatorInvariant, PTL

\* The message has no nil block, and of a stream that keeps the contract exactly
\* the finished blocks in the order of their indices.
THEOREM MessagesAreComplete == Spec => []MessageComplete
<1>1. IInv => MessageComplete
  <2> SUFFICES ASSUME IInv PROVE MessageComplete
    OBVIOUS
  <2>0. /\ content \in Seq(Block \cup {Nil}) /\ Len(content) <= MaxBlock + 1
        /\ MaxBlock \in Nat /\ Len(content) \in Nat /\ 0..MaxBlock \subseteq Index
        /\ \A i \in Index : phase[i] = "closed" => expected[i] \in Block
    BY AccumulatorAssumption DEF IInv, TypeOK, Bounded, Collected, CollectedAt, Index
  <2>1. SUFFICES ASSUME pc = "ended"
                 PROVE  /\ \A j \in DOMAIN message.content : message.content[j] # Nil
                        /\ WellFormed =>
                             LET closed == {i \in 0..MaxBlock : phase[i] = "closed"}
                             IN  \E at \in [DOMAIN message.content -> closed] :
                                   /\ \A j, k \in DOMAIN at : j < k => at[j] < at[k]
                                   /\ \A i \in closed : \E k \in DOMAIN at : at[k] = i
                                   /\ \A k \in DOMAIN at :
                                        message.content[k] = expected[at[k]]
    BY DEF IInv, Refused, MessageComplete
  <2> DEFINE list == message.content
             closed == {i \in 0..MaxBlock : phase[i] = "closed"}
  <2>2. list \in Seq(Block) /\ Lists(list, content, Len(content))
    BY <2>0, <2>1, KeptLists DEF IInv, Returned
  <2> HIDE DEF list
  <2>3. DOMAIN list = 1..Len(list) /\ \A k \in 1..Len(list) : list[k] # Nil
    BY <2>2, NilIsNoBlock
  <2>4. ASSUME WellFormed
        PROVE  \E at \in [DOMAIN list -> closed] :
                 /\ \A j, k \in DOMAIN at : j < k => at[j] < at[k]
                 /\ \A i \in closed : \E k \in DOMAIN at : at[k] = i
                 /\ \A k \in DOMAIN at : list[k] = expected[at[k]]
    <3>1. PICK slot \in [1..Len(list) -> 1..Len(content)] :
            /\ \A j, k \in 1..Len(list) : j < k => slot[j] < slot[k]
            /\ \A i \in 1..Len(content) :
                 content[i] # Nil => \E k \in 1..Len(list) : slot[k] = i
            /\ \A k \in 1..Len(list) : content[slot[k]] # Nil /\ list[k] = content[slot[k]]
      BY <2>2 DEF Lists
    <3>2. \A i \in 0..MaxBlock :
            IF phase[i] = "closed"
            THEN i < Len(content) /\ content[i + 1] = expected[i]
            ELSE i < Len(content) => content[i + 1] = Nil
      BY <2>0, <2>1, <2>4 DEF IInv, OwnEventsOnly, WellFormed
    <3>3. \A k \in 1..Len(list) :
            /\ slot[k] \in 1..Len(content) /\ slot[k] - 1 \in 0..MaxBlock
            /\ slot[k] - 1 + 1 = slot[k] /\ slot[k] - 1 < Len(content)
      BY <2>0, <3>1
    <3>4. \A k \in 1..Len(list) :
            slot[k] - 1 \in closed /\ list[k] = expected[slot[k] - 1]
      <4> TAKE k \in 1..Len(list)
      <4>1. PICK i \in 0..MaxBlock :
              i = slot[k] - 1 /\ i + 1 = slot[k] /\ i < Len(content)
        BY <3>3
      <4>2. content[i + 1] # Nil /\ list[k] = content[i + 1]
        BY <3>1, <4>1
      <4>3. phase[i] = "closed" /\ content[i + 1] = expected[i]
        BY <3>2, <4>1, <4>2
      <4> QED
        BY <4>1, <4>2, <4>3
    <3>5. \A i \in closed : \E k \in 1..Len(list) : slot[k] = i + 1
      <4> TAKE i \in closed
      <4>1. i < Len(content) /\ content[i + 1] # Nil
        BY <2>0, <3>2, NilIsNoBlock
      <4>2. i + 1 \in 1..Len(content)
        BY <2>0, <4>1
      <4> QED
        BY <3>1, <4>1, <4>2
    <3> DEFINE at == [k \in 1..Len(list) |-> slot[k] - 1]
    <3>6. at \in [DOMAIN list -> closed] /\ DOMAIN at = 1..Len(list)
      BY <2>3, <3>4
    <3>7. \A j, k \in DOMAIN at : j < k => at[j] < at[k]
      BY <3>1, <3>3
    <3>8. \A i \in closed : \E k \in DOMAIN at : at[k] = i
      <4> TAKE i \in closed
      <4>1. PICK k \in 1..Len(list) : slot[k] = i + 1
        BY <3>5
      <4>2. i \in Nat /\ i + 1 - 1 = i
        OBVIOUS
      <4>3. at[k] = i
        BY <4>1, <4>2
      <4> QED
        BY <3>6, <4>3
    <3>9. \A k \in DOMAIN at : list[k] = expected[at[k]]
      BY <3>4
    <3> HIDE DEF at, closed
    <3> QED
      BY <3>6, <3>7, <3>8, <3>9
  <2> QED
    BY <2>3, <2>4 DEF list
<1> QED
  BY <1>1, AccumulatorInvariant, PTL
=============================================================================

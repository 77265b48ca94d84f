--------------------------- MODULE SliceOwnership ---------------------------
(***************************************************************************)
(* Who may write where.  The transcript of an agent is a Go slice: a view  *)
(* of an array that append extends in place while there is room, and that  *)
(* every other slice of the same array sees.  Snapshot, buildRequest and   *)
(* runContextLocked hand the transcript out, to callers and hooks that may *)
(* keep, change and extend what they got, while the agent goes on; Restore *)
(* takes a snapshot in, which its owner keeps and may restore again.  The  *)
(* tool log is a slice that is handed out and taken in the same way.       *)
(*                                                                         *)
(* The element of a slice is the name of whoever wrote it last.  The copies*)
(* are of messages, not of the blocks in them.                             *)
(***************************************************************************)
EXTENDS Naturals, Sequences, FiniteSets

CONSTANTS Agents,     \* agents in the process, new or restored
          Snapshots,  \* RunSnapshots that callers keep
          Lent,       \* slices given to TransformContext and to hooks
          MaxCap      \* bound: elements of an array

Outside == Snapshots \cup Lent
Holders == Agents \cup Outside

ASSUME OwnershipAssumption ==
  /\ IsFiniteSet(Holders)
  /\ Agents \cap Outside = {}
  /\ MaxCap \in Nat

\* One array more than there are slices: the garbage collector finds the rest.
Arrays == 1..Cardinality(Holders) + 1
Nil == [array |-> 0, len |-> 0]
Slice == [array : Arrays, len : 0..MaxCap] \cup {Nil}

\* What an element was before anybody wrote it.
Zero == "zero"
Array == {els \in Seq(Holders \cup {Zero}) : Len(els) <= MaxCap}

VARIABLES heap,   \* the arrays, as long as their capacity
          slice,  \* the slice each holder has
          meant   \* history: what each holder put, or was given, into its slice

vars == <<heap, slice, meant>>

Init ==
  /\ heap = [a \in Arrays |-> <<>>]
  /\ slice = [h \in Holders |-> Nil]
  /\ meant = [h \in Holders |-> <<>>]

-----------------------------------------------------------------------------
Cap(s) == IF s.array = 0 THEN 0 ELSE Len(heap[s.array])
Elements(s) == [i \in 1..s.len |-> heap[s.array][i]]
Free == {a \in Arrays : \A h \in Holders : slice[h].array # a}

\* A new array of capacity n that begins with the elements els.
Allocate(h, els, n) ==
  \E a \in Free :
    /\ \A b \in Free : a <= b
    /\ heap' = [heap EXCEPT ![a] = [i \in 1..n |-> IF i <= Len(els) THEN els[i] ELSE Zero]]
    /\ slice' = [slice EXCEPT ![h] = [array |-> a, len |-> Len(els)]]

\* h = append(h, w): in place if there is room, or in a larger array.
AppendTo(h, w) ==
  LET s == slice[h]
  IN  /\ s.len < MaxCap
      /\ \/ /\ s.len < Cap(s)
            /\ heap' = [heap EXCEPT ![s.array][s.len + 1] = w]
            /\ slice' = [slice EXCEPT ![h].len = @ + 1]
         \/ /\ s.len = Cap(s)
            /\ \E n \in s.len + 1 .. MaxCap : Allocate(h, Append(Elements(s), w), n)
      /\ meant' = [meant EXCEPT ![h] = Append(@, w)]

\* The loop appends a prompt, an answer, steering or results.
Say(a) == AppendTo(a, a)

\* Reset: the transcript is nil.
Reset(a) ==
  /\ slice' = [slice EXCEPT ![a] = Nil]
  /\ meant' = [meant EXCEPT ![a] = <<>>]
  /\ UNCHANGED heap

SameArray(h, k, n) ==
  /\ slice' = [slice EXCEPT ![h] = slice[k]]
  /\ UNCHANGED heap
Copy(h, k, n) == Allocate(h, Elements(slice[k]), n)

\* Snapshot: make and copy; an empty transcript stays nil.
Snapshot(a, k) ==
  /\ meant' = [meant EXCEPT ![k] = meant[a]]
  /\ IF slice[a].len = 0
     THEN slice' = [slice EXCEPT ![k] = Nil] /\ UNCHANGED heap
     ELSE Copy(k, a, slice[a].len)

\* buildRequest copies for TransformContext, runContextLocked for a hook; what
\* either does with its slice, now or later, are steps of the holder.
Lend(a, q) ==
  /\ meant' = [meant EXCEPT ![q] = meant[a]]
  /\ Copy(q, a, slice[a].len)

\* Restore: append to a slice without capacity, which rounds the capacity up.
Restore(a, k) ==
  /\ meant' = [meant EXCEPT ![a] = meant[k]]
  /\ IF slice[k].len = 0
     THEN slice' = [slice EXCEPT ![a] = Nil] /\ UNCHANGED heap
     ELSE \E n \in slice[k].len .. MaxCap : Copy(a, k, n)

-----------------------------------------------------------------------------
(* What the owner of a handed out slice may do with it.                    *)

Overwrite(h, i) ==
  /\ i <= slice[h].len
  /\ heap' = [heap EXCEPT ![slice[h].array][i] = h]
  /\ meant' = [meant EXCEPT ![h][i] = h]
  /\ UNCHANGED slice

Truncate(h, n) ==
  /\ n < slice[h].len
  /\ slice' = [slice EXCEPT ![h].len = n]
  /\ meant' = [meant EXCEPT ![h] = SubSeq(@, 1, n)]
  /\ UNCHANGED heap

Next ==
  \/ \E a \in Agents :
       \/ Say(a) \/ Reset(a)
       \/ \E k \in Snapshots : Snapshot(a, k) \/ Restore(a, k)
       \/ \E q \in Lent : Lend(a, q)
  \/ \E h \in Outside :
       \/ AppendTo(h, h)
       \/ \E i \in 1..MaxCap : Overwrite(h, i)
       \/ \E n \in 0..MaxCap : Truncate(h, n)

Spec == Init /\ [][Next]_vars

-----------------------------------------------------------------------------
\* Arrays, slices and histories are well formed.
TypeOK ==
  /\ heap \in [Arrays -> Array]
  /\ slice \in [Holders -> Slice]
  /\ \A h \in Holders : slice[h].len <= Cap(slice[h])
  /\ meant \in [Holders -> Seq(Holders)]

\* Everybody sees what they wrote or were given and nothing else: whatever hooks,
\* holders of snapshots and other agents restored from them write or append, the
\* transcript is what its run said; and a snapshot stays as it was taken.
ViewsArePrivate == \A h \in Holders : Elements(slice[h]) = meant[h]
=============================================================================

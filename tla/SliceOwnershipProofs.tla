------------------------ MODULE SliceOwnershipProofs ------------------------
(***************************************************************************)
(* Proofs about SliceOwnership, for any number of agents, snapshots and    *)
(* lent slices and any capacity.  That views are private is inductive only *)
(* together with Apart: no two holders have slices of one array.           *)
(***************************************************************************)
EXTENDS SliceOwnership, TLAPS

\* No two holders share an array.
Apart == \A h, k \in Holders :
  h # k /\ slice[h].array # 0 => slice[h].array # slice[k].array

\* ViewsArePrivate, of one holder and element by element.
Faithful(h) ==
  /\ Len(meant[h]) = slice[h].len
  /\ \A i \in 1..slice[h].len : heap[slice[h].array][i] = meant[h][i]

IInv == TypeOK /\ Apart /\ \A h \in Holders : Faithful(h)

\* A step of h leaves the others what they have.
OnlyOf(h) ==
  \A k \in Holders \ {h} :
    /\ slice'[k] = slice[k]
    /\ meant'[k] = meant[k]
    /\ slice[k].array # 0 => heap'[slice[k].array] = heap[slice[k].array]
    /\ slice'[h].array # 0 => slice'[h].array # slice[k].array

\* What TypeOK says of the slice of one holder.
LEMMA SliceType ==
  ASSUME TypeOK, NEW h \in Holders
  PROVE  /\ slice[h].array \in Arrays \cup {0}
         /\ slice[h].len \in 0..MaxCap
         /\ slice[h].array = 0 => slice[h].len = 0
         /\ slice[h].array # 0 => /\ heap[slice[h].array] \in Array
                                  /\ slice[h].len <= Len(heap[slice[h].array])
         /\ meant[h] \in Seq(Holders)
<1>1. slice[h] \in Slice
  BY DEF TypeOK
<1>2. slice[h].array \in Arrays \cup {0} /\ slice[h].len \in 0..MaxCap
      /\ (slice[h].array = 0 => slice[h].len = 0)
  BY <1>1, OwnershipAssumption DEF OwnershipAssumption, Slice, Nil, Arrays
<1> QED
  BY <1>2 DEF TypeOK, Cap

\* The elements of a slice are a sequence as long as the slice.
LEMMA ElementsType ==
  ASSUME TypeOK, NEW h \in Holders
  PROVE  /\ Elements(slice[h]) \in Seq(Holders \cup {Zero})
         /\ Len(Elements(slice[h])) = slice[h].len
         /\ \A i \in 1..slice[h].len : Elements(slice[h])[i] = heap[slice[h].array][i]
<1>1. slice[h].len \in Nat
  BY SliceType, OwnershipAssumption DEF OwnershipAssumption
<1>2. \A i \in 1..slice[h].len : heap[slice[h].array][i] \in Holders \cup {Zero}
  BY SliceType, <1>1 DEF Array
<1> QED
  BY <1>1, <1>2 DEF Elements

\* A step that leaves the others alone keeps the invariant if it does so for h.
LEMMA FrameStep ==
  ASSUME IInv, NEW h \in Holders, TypeOK', OnlyOf(h), Faithful(h)'
  PROVE  IInv'
<1>1. Apart'
  <2>1. ASSUME NEW k \in Holders, NEW l \in Holders, k # l, slice'[k].array # 0
        PROVE  slice'[k].array # slice'[l].array
    <3>1. CASE k = h
      BY <2>1, <3>1 DEF OnlyOf
    <3>2. CASE l = h
      BY <2>1, <3>2 DEF OnlyOf
    <3>3. CASE k # h /\ l # h
      BY <2>1, <3>3 DEF OnlyOf, IInv, Apart
    <3> QED
      BY <3>1, <3>2, <3>3
  <2> QED
    BY <2>1 DEF Apart
<1>2. ASSUME NEW k \in Holders, k # h PROVE Faithful(k)'
  <2>1. Faithful(k) /\ TypeOK
    BY DEF IInv
  <2>2. slice'[k] = slice[k] /\ meant'[k] = meant[k]
    BY <1>2 DEF OnlyOf
  <2>3. CASE slice[k].array = 0
    <3>1. slice[k].len = 0
      BY <2>1, <2>3, SliceType
    <3> QED
      BY <2>1, <2>2, <3>1 DEF Faithful
  <2>4. CASE slice[k].array # 0
    <3>1. heap'[slice[k].array] = heap[slice[k].array]
      BY <1>2, <2>4 DEF OnlyOf
    <3> QED
      BY <2>1, <2>2, <3>1 DEF Faithful
  <2> QED
    BY <2>3, <2>4
<1> QED
  BY <1>1, <1>2 DEF IInv

\* The element that a new array of els has at index i.
LEMMA NewArrayType ==
  ASSUME NEW els \in Seq(Holders \cup {Zero}), NEW n \in 0..MaxCap, Len(els) <= n
  PROVE  LET new == [i \in 1..n |-> IF i <= Len(els) THEN els[i] ELSE Zero]
         IN  new \in Array /\ Len(new) = n /\ \A i \in 1..Len(els) : new[i] = els[i]
<1> DEFINE new == [i \in 1..n |-> IF i <= Len(els) THEN els[i] ELSE Zero]
<1>1. n \in Nat /\ n <= MaxCap
  BY OwnershipAssumption DEF OwnershipAssumption
<1>2. \A i \in 1..n : new[i] \in Holders \cup {Zero}
  OBVIOUS
<1>3. new \in Seq(Holders \cup {Zero}) /\ Len(new) = n
  BY <1>1, <1>2
<1> QED
  BY <1>1, <1>3 DEF Array

\* Allocating an array for h that begins with what h means keeps the invariant.
LEMMA AllocateStep ==
  ASSUME IInv, NEW h \in Holders, NEW els \in Seq(Holders \cup {Zero}),
         NEW n \in 0..MaxCap, Len(els) <= n, Allocate(h, els, n),
         NEW told \in Seq(Holders), meant' = [meant EXCEPT ![h] = told],
         Len(told) = Len(els), \A i \in 1..Len(els) : els[i] = told[i]
  PROVE  IInv'
<1> DEFINE new == [i \in 1..n |-> IF i <= Len(els) THEN els[i] ELSE Zero]
<1>1. PICK a \in Free : /\ heap' = [heap EXCEPT ![a] = new]
                        /\ slice' = [slice EXCEPT ![h] = [array |-> a, len |-> Len(els)]]
  BY DEF Allocate
<1>2. new \in Array /\ Len(new) = n /\ \A i \in 1..Len(els) : new[i] = els[i]
  BY NewArrayType
<1> HIDE DEF new
<1>3. TypeOK
  BY DEF IInv
<1>4. a \in Arrays /\ a # 0 /\ \A k \in Holders : slice[k].array # a
  BY DEF Free, Arrays
<1>5. slice'[h] = [array |-> a, len |-> Len(els)] /\ heap'[a] = new /\ meant'[h] = told
  BY <1>1, <1>3, <1>4 DEF TypeOK
<1>6. OnlyOf(h)
  BY <1>1, <1>3, <1>4, <1>5 DEF TypeOK, OnlyOf
<1>7. Faithful(h)'
  BY <1>2, <1>5 DEF Faithful
<1>8. TypeOK'
  <2>1. heap' \in [Arrays -> Array] /\ meant' \in [Holders -> Seq(Holders)]
    BY <1>1, <1>2, <1>3 DEF TypeOK
  <2>2. Len(els) \in 0..MaxCap
    BY OwnershipAssumption DEF OwnershipAssumption
  <2>3. slice' \in [Holders -> Slice]
    BY <1>1, <1>3, <1>4, <2>2 DEF TypeOK, Slice
  <2>4. ASSUME NEW k \in Holders PROVE slice'[k].len <= Cap(slice[k])'
    <3>1. CASE k = h
      BY <1>2, <1>4, <1>5, <3>1 DEF Cap
    <3>2. CASE k # h
      BY <1>3, <1>6, <2>4, <3>2, SliceType DEF OnlyOf, Cap, TypeOK
    <3> QED
      BY <3>1, <3>2
  <2> QED
    BY <2>1, <2>3, <2>4 DEF TypeOK
<1> QED
  BY <1>6, <1>7, <1>8, FrameStep

\* Copying k's slice for h keeps the invariant.
LEMMA CopyStep ==
  ASSUME IInv, NEW h \in Holders, NEW k \in Holders, NEW n \in 0..MaxCap,
         slice[k].len <= n, Copy(h, k, n), meant' = [meant EXCEPT ![h] = meant[k]]
  PROVE  IInv'
<1>1. Elements(slice[k]) \in Seq(Holders \cup {Zero})
      /\ Len(Elements(slice[k])) = slice[k].len
      /\ \A i \in 1..slice[k].len : Elements(slice[k])[i] = heap[slice[k].array][i]
  BY ElementsType DEF IInv
<1>2. Faithful(k) /\ meant[k] \in Seq(Holders)
  BY SliceType DEF IInv
<1>3. Len(meant[k]) = slice[k].len
      /\ \A i \in 1..slice[k].len : Elements(slice[k])[i] = meant[k][i]
  BY <1>1, <1>2 DEF Faithful
<1> QED
  BY <1>1, <1>2, <1>3, AllocateStep DEF Copy

\* A slice that becomes nil, and means nothing, keeps the invariant.
LEMMA NilStep ==
  ASSUME IInv, NEW h \in Holders, slice' = [slice EXCEPT ![h] = Nil],
         meant' = [meant EXCEPT ![h] = <<>>], UNCHANGED heap
  PROVE  IInv'
<1>1. TypeOK
  BY DEF IInv
<1>2. slice'[h] = Nil /\ meant'[h] = <<>>
  BY <1>1 DEF TypeOK
<1>3. OnlyOf(h)
  BY <1>1, <1>2 DEF TypeOK, OnlyOf, Nil
<1>4. Faithful(h)'
  BY <1>2 DEF Faithful, Nil
<1>5. TypeOK'
  <2>1. slice' \in [Holders -> Slice] /\ meant' \in [Holders -> Seq(Holders)]
    BY <1>1 DEF TypeOK, Slice
  <2>2. ASSUME NEW k \in Holders PROVE slice'[k].len <= Cap(slice[k])'
    <3>1. CASE k = h
      BY <1>2, <3>1 DEF Cap, Nil
    <3>2. CASE k # h
      BY <1>1, <3>2 DEF Cap, TypeOK
    <3> QED
      BY <3>1, <3>2
  <2> QED
    BY <1>1, <2>1, <2>2 DEF TypeOK
<1> QED
  BY <1>3, <1>4, <1>5, FrameStep

\* Writing w at index i of h's own array, and seeing it, keeps the invariant; i
\* may be one past the end of the slice.
LEMMA WriteStep ==
  ASSUME IInv, NEW h \in Holders, slice[h].array # 0,
         NEW i \in 1..Len(heap[slice[h].array]), i <= slice[h].len + 1,
         heap' = [heap EXCEPT ![slice[h].array][i] = h],
         NEW len \in {slice[h].len, i}, i <= len, slice[h].len <= len,
         slice' = [slice EXCEPT ![h].len = len],
         NEW told \in Seq(Holders), meant' = [meant EXCEPT ![h] = told],
         Len(told) = len, told[i] = h,
         \A j \in 1..slice[h].len : j # i => told[j] = meant[h][j]
  PROVE  IInv'
<1> DEFINE a == slice[h].array
<1>1. TypeOK /\ Faithful(h)
  BY DEF IInv
<1>2. a \in Arrays /\ heap[a] \in Array /\ slice[h].len \in 0..MaxCap
      /\ slice[h].len <= Len(heap[a])
  BY <1>1, SliceType
<1>3. heap' = [heap EXCEPT ![a] = [heap[a] EXCEPT ![i] = h]]
  BY DEF TypeOK
<1>4. [heap[a] EXCEPT ![i] = h] \in Array /\ Len([heap[a] EXCEPT ![i] = h]) = Len(heap[a])
  BY <1>2 DEF Array
<1>5. heap'[a] = [heap[a] EXCEPT ![i] = h] /\ heap' \in [Arrays -> Array]
  BY <1>1, <1>2, <1>3, <1>4 DEF TypeOK
<1>6. len \in 0..MaxCap /\ len <= Len(heap[a])
  BY <1>2, OwnershipAssumption DEF OwnershipAssumption, Array
<1>7. slice[h] = [array |-> a, len |-> slice[h].len] /\ slice'[h] = [array |-> a, len |-> len]
  BY <1>1 DEF TypeOK, Slice, Nil
<1>8. meant'[h] = told
  BY <1>1 DEF TypeOK
<1>9. OnlyOf(h)
  BY <1>1, <1>3, <1>7 DEF IInv, TypeOK, Apart, OnlyOf
<1>10. Faithful(h)'
  <2>1. slice'[h].array = a /\ slice'[h].len = len
    BY <1>7
  <2>2. ASSUME NEW j \in 1..len PROVE heap'[a][j] = told[j]
    <3>1. CASE j = i
      BY <1>2, <1>5, <3>1 DEF Array
    <3>2. CASE j # i
      <4>1. j \in 1..slice[h].len /\ j \in 1..Len(heap[a])
        BY <1>2, <1>6, <3>2
      <4>2. heap'[a][j] = heap[a][j]
        BY <1>2, <1>5, <3>2, <4>1 DEF Array
      <4> QED
        BY <1>1, <3>2, <4>1, <4>2 DEF Faithful
    <3> QED
      BY <3>1, <3>2
  <2> QED
    BY <1>8, <2>1, <2>2 DEF Faithful
<1>11. TypeOK'
  <2>1. slice' \in [Holders -> Slice]
    BY <1>1, <1>2, <1>6, <1>7 DEF TypeOK, Slice
  <2>2. meant' \in [Holders -> Seq(Holders)]
    BY <1>1 DEF TypeOK
  <2>3. ASSUME NEW k \in Holders PROVE slice'[k].len <= Cap(slice[k])'
    <3>1. CASE k = h
      BY <1>2, <1>4, <1>5, <1>6, <1>7, <3>1 DEF Cap, Arrays
    <3>2. CASE k # h
      BY <1>1, <1>9, <2>3, <3>2, SliceType DEF OnlyOf, Cap, TypeOK
    <3> QED
      BY <3>1, <3>2
  <2> QED
    BY <1>5, <2>1, <2>2, <2>3 DEF TypeOK
<1> QED
  BY <1>9, <1>10, <1>11, FrameStep

\* append, in place or in a larger array.
LEMMA AppendStep ==
  ASSUME IInv, NEW h \in Holders, AppendTo(h, h)
  PROVE  IInv'
<1> DEFINE s == slice[h]
           told == Append(meant[h], h)
<1>1. TypeOK /\ Faithful(h)
  BY DEF IInv
<1>2. s.len \in Nat /\ s.len + 1 \in 0..MaxCap /\ meant[h] \in Seq(Holders)
      /\ Len(meant[h]) = s.len
  BY <1>1, SliceType, OwnershipAssumption DEF AppendTo, Faithful, OwnershipAssumption
<1>3. told \in Seq(Holders) /\ Len(told) = s.len + 1 /\ told[s.len + 1] = h
      /\ \A j \in 1..s.len : told[j] = meant[h][j]
  BY <1>2
<1>4. meant' = [meant EXCEPT ![h] = told]
  BY DEF AppendTo
<1>5. CASE s.len < Cap(s) /\ heap' = [heap EXCEPT ![s.array][s.len + 1] = h]
           /\ slice' = [slice EXCEPT ![h].len = @ + 1]
  <2>1. s.array # 0 /\ s.len + 1 \in 1..Len(heap[s.array])
    BY <1>1, <1>2, <1>5, SliceType DEF Cap, Array
  <2>2. slice' = [slice EXCEPT ![h].len = s.len + 1]
    BY <1>5
  <2> HIDE DEF told
  <2>3. /\ s.len + 1 <= s.len + 1 /\ s.len <= s.len + 1
        /\ s.len + 1 \in {s.len, s.len + 1}
        /\ \A j \in 1..s.len : j # s.len + 1 => told[j] = meant[h][j]
    BY <1>2, <1>3
  <2>4. heap' = [heap EXCEPT ![s.array][s.len + 1] = h]
    BY <1>5
  <2> QED
    BY <1>3, <1>4, <2>1, <2>2, <2>3, <2>4, WriteStep
<1>6. ASSUME NEW n \in s.len + 1 .. MaxCap, Allocate(h, Append(Elements(s), h), n)
      PROVE  IInv'
  <2> DEFINE els == Append(Elements(s), h)
  <2>1. Elements(s) \in Seq(Holders \cup {Zero}) /\ Len(Elements(s)) = s.len
        /\ \A i \in 1..s.len : Elements(s)[i] = meant[h][i]
    BY <1>1, ElementsType DEF Faithful
  <2>2. els \in Seq(Holders \cup {Zero}) /\ Len(els) = s.len + 1
        /\ \A i \in 1..s.len + 1 : els[i] = told[i]
    BY <1>2, <1>3, <2>1
  <2>3. n \in 0..MaxCap /\ Len(els) <= n
    BY <1>2, <2>2, OwnershipAssumption DEF OwnershipAssumption
  <2> HIDE DEF els, told
  <2>4. Allocate(h, els, n)
    BY <1>6 DEF els
  <2> QED
    BY <1>3, <1>4, <2>2, <2>3, <2>4, AllocateStep
<1> QED
  BY <1>5, <1>6 DEF AppendTo

\* An owner of a handed out slice cuts it short.
LEMMA TruncateStep ==
  ASSUME IInv, NEW h \in Holders, NEW n \in 0..MaxCap, Truncate(h, n)
  PROVE  IInv'
<1>1. TypeOK /\ Faithful(h)
  BY DEF IInv
<1>2. n \in Nat /\ n < slice[h].len /\ slice[h].len \in 0..MaxCap
      /\ meant[h] \in Seq(Holders) /\ Len(meant[h]) = slice[h].len
  BY <1>1, SliceType, OwnershipAssumption DEF Truncate, Faithful, OwnershipAssumption
<1>3. slice[h] = [array |-> slice[h].array, len |-> slice[h].len]
      /\ slice'[h] = [array |-> slice[h].array, len |-> n] /\ slice[h].array \in Arrays
  BY <1>1, <1>2 DEF TypeOK, Slice, Nil, Truncate
<1>4. SubSeq(meant[h], 1, n) \in Seq(Holders) /\ Len(SubSeq(meant[h], 1, n)) = n
      /\ \A i \in 1..n : SubSeq(meant[h], 1, n)[i] = meant[h][i]
  BY <1>2
<1>5. meant'[h] = SubSeq(meant[h], 1, n) /\ meant' \in [Holders -> Seq(Holders)]
  BY <1>1, <1>4 DEF Truncate, TypeOK
<1>6. OnlyOf(h)
  BY <1>1, <1>3 DEF Truncate, IInv, TypeOK, Apart, OnlyOf
<1>7. Faithful(h)'
  BY <1>1, <1>2, <1>3, <1>4, <1>5 DEF Truncate, Faithful
<1>8. TypeOK'
  <2>1. slice' \in [Holders -> Slice]
    BY <1>1, <1>3 DEF Truncate, TypeOK, Slice
  <2>2. ASSUME NEW k \in Holders PROVE slice'[k].len <= Cap(slice[k])'
    <3>1. slice[k].len <= Cap(slice[k])
      BY <1>1 DEF TypeOK
    <3>2. CASE k = h
      BY <1>1, <1>2, <1>3, <3>2, SliceType DEF Truncate, Cap
    <3>3. CASE k # h
      BY <1>1, <3>1, <3>3 DEF Truncate, Cap, TypeOK
    <3> QED
      BY <3>2, <3>3
  <2> QED
    BY <1>1, <1>5, <2>1, <2>2 DEF Truncate, TypeOK
<1> QED
  BY <1>6, <1>7, <1>8, FrameStep

\* Nobody has a slice at first.
LEMMA InitIInv == Init => IInv
<1> SUFFICES ASSUME Init PROVE IInv
  OBVIOUS
<1>1. TypeOK
  BY OwnershipAssumption DEF OwnershipAssumption, Init, TypeOK, Array, Slice, Nil, Cap
<1>2. Apart /\ \A h \in Holders : Faithful(h)
  BY DEF Init, Apart, Faithful, Nil
<1> QED
  BY <1>1, <1>2 DEF IInv

\* What the owner of a handed out slice writes, it writes to its own array.
LEMMA OverwriteStep ==
  ASSUME IInv, NEW h \in Holders, NEW i \in 1..MaxCap, Overwrite(h, i)
  PROVE  IInv'
<1> DEFINE told == [meant[h] EXCEPT ![i] = h]
<1>1. TypeOK /\ Faithful(h)
  BY DEF IInv
<1>2. meant[h] \in Seq(Holders) /\ Len(meant[h]) = slice[h].len /\ i <= slice[h].len
      /\ slice[h].len \in 0..MaxCap
  BY <1>1, SliceType DEF Overwrite, Faithful
<1>3. slice[h].array # 0 /\ i \in 1..Len(heap[slice[h].array])
  BY <1>1, <1>2, SliceType, OwnershipAssumption DEF Array, OwnershipAssumption
<1>4. told \in Seq(Holders) /\ Len(told) = slice[h].len /\ told[i] = h
      /\ \A j \in 1..slice[h].len : j # i => told[j] = meant[h][j]
  BY <1>2
<1>5. meant' = [meant EXCEPT ![h] = told] /\ heap' = [heap EXCEPT ![slice[h].array][i] = h]
  BY <1>1 DEF Overwrite, TypeOK
<1>6. slice' = [slice EXCEPT ![h].len = slice[h].len]
  <2>1. slice[h] = [slice[h] EXCEPT !.len = slice[h].len]
    BY <1>1 DEF TypeOK, Slice, Nil
  <2> QED
    BY <1>1, <2>1 DEF Overwrite, TypeOK
<1>7. i <= slice[h].len + 1 /\ slice[h].len <= slice[h].len
  BY <1>2
<1> HIDE DEF told
<1> QED
  BY <1>2, <1>3, <1>4, <1>5, <1>6, <1>7, WriteStep

\* Every step keeps the invariant.
LEMMA NextIInv == IInv /\ [Next]_vars => IInv'
<1> SUFFICES ASSUME IInv, [Next]_vars PROVE IInv'
  OBVIOUS
<1>1. Agents \subseteq Holders /\ Snapshots \subseteq Holders /\ Lent \subseteq Holders
      /\ Outside \subseteq Holders
  BY DEF Holders, Outside
<1>2. \A h \in Holders : slice[h].len \in 0..MaxCap
  BY SliceType DEF IInv
<1>3. ASSUME NEW a \in Agents, Say(a) PROVE IInv'
  BY <1>1, <1>3, AppendStep DEF Say
<1>4. ASSUME NEW a \in Agents, Reset(a) PROVE IInv'
  BY <1>1, <1>4, NilStep DEF Reset
<1>5. ASSUME NEW a \in Agents, NEW k \in Snapshots, Snapshot(a, k) PROVE IInv'
  <2>1. CASE slice[a].len = 0
    <3>1. meant[a] = <<>>
      BY <1>1, <2>1, SliceType DEF IInv, Faithful
    <3> QED
      BY <1>1, <1>5, <2>1, <3>1, NilStep DEF Snapshot
  <2>2. CASE slice[a].len # 0
    <3>1. slice[a].len <= slice[a].len
      BY <1>1, <1>2, OwnershipAssumption DEF OwnershipAssumption
    <3> QED
      BY <1>1, <1>2, <1>5, <2>2, <3>1, CopyStep DEF Snapshot
  <2> QED
    BY <2>1, <2>2
<1>6. ASSUME NEW a \in Agents, NEW k \in Snapshots, Restore(a, k) PROVE IInv'
  <2>1. CASE slice[k].len = 0
    <3>1. meant[k] = <<>>
      BY <1>1, <2>1, SliceType DEF IInv, Faithful
    <3> QED
      BY <1>1, <1>6, <2>1, <3>1, NilStep DEF Restore
  <2>2. CASE slice[k].len # 0
    <3>1. PICK n \in slice[k].len .. MaxCap : Copy(a, k, n)
      BY <1>6, <2>2 DEF Restore
    <3>2. n \in 0..MaxCap /\ slice[k].len <= n
      BY <1>1, <1>2, <3>1, OwnershipAssumption DEF OwnershipAssumption
    <3> QED
      BY <1>1, <1>6, <3>1, <3>2, CopyStep DEF Restore
  <2> QED
    BY <2>1, <2>2
<1>7. ASSUME NEW a \in Agents, NEW q \in Lent, Lend(a, q) PROVE IInv'
  <2>1. slice[a].len <= slice[a].len
    BY <1>1, <1>2, OwnershipAssumption DEF OwnershipAssumption
  <2> QED
    BY <1>1, <1>2, <1>7, <2>1, CopyStep DEF Lend
<1>8. ASSUME NEW h \in Outside, AppendTo(h, h) PROVE IInv'
  BY <1>1, <1>8, AppendStep
<1>9. ASSUME NEW h \in Outside, NEW i \in 1..MaxCap, Overwrite(h, i) PROVE IInv'
  BY <1>1, <1>9, OverwriteStep
<1>10. ASSUME NEW h \in Outside, NEW n \in 0..MaxCap, Truncate(h, n) PROVE IInv'
  BY <1>1, <1>10, TruncateStep
<1>11. CASE UNCHANGED vars
  BY <1>11 DEF vars, IInv, TypeOK, Apart, Faithful, Cap
<1> QED
  BY <1>3, <1>4, <1>5, <1>6, <1>7, <1>8, <1>9, <1>10, <1>11 DEF Next

\* What a holder sees, element by element, is its slice as a whole.
LEMMA FaithfulView ==
  ASSUME TypeOK, NEW h \in Holders, Faithful(h)
  PROVE  Elements(slice[h]) = meant[h]
<1>1. Elements(slice[h]) \in Seq(Holders \cup {Zero})
      /\ Len(Elements(slice[h])) = Len(meant[h])
      /\ \A i \in 1..Len(meant[h]) : Elements(slice[h])[i] = meant[h][i]
  BY ElementsType DEF Faithful
<1>2. meant[h] \in Seq(Holders)
  BY SliceType
<1> QED
  BY <1>1, <1>2

\* Whatever anybody who was handed a slice of the transcript does with it, and
\* whatever becomes of snapshots restored into any number of agents, everybody
\* sees what they wrote or were given and nothing else.
THEOREM NobodySeesOthersWrites == Spec => []ViewsArePrivate
<1>1. IInv => ViewsArePrivate
  BY FaithfulView DEF IInv, ViewsArePrivate
<1> QED
  BY InitIInv, NextIInv, <1>1, PTL DEF Spec

\* Arrays, slices and histories stay well formed.
THEOREM SlicesTypeCorrect == Spec => []TypeOK
<1>1. IInv => TypeOK
  BY DEF IInv
<1> QED
  BY InitIInv, NextIInv, <1>1, PTL DEF Spec
=============================================================================

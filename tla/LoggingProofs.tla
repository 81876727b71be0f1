--------------------------- MODULE LoggingProofs ---------------------------
(***************************************************************************)
(* Proofs about the parts of spdlog: the ring CircularQueue, for every      *)
(* capacity and all items; the pool AsyncLogging, for all clients, workers, *)
(* policies and queues; the files of RotatingFile and of CalendarFiles, for *)
(* all sizes and periods and any number of files; and the invariants of     *)
(* MCLogging, where the parts are put side by side.                        *)
(***************************************************************************)
EXTENDS MCLogging, SequenceTheorems, FiniteSetTheorems, WellFoundedInduction, TLAPS

-----------------------------------------------------------------------------
(* Sequences, and how many of their elements have one of some types.        *)

LEMMA TailIs ==
    ASSUME NEW S, NEW s \in Seq(S), s # <<>>
    PROVE  Tail(s) = [i \in 1..(Len(s) - 1) |-> s[i + 1]]
<1> DEFINE t == [i \in 1..(Len(s) - 1) |-> s[i + 1]]
<1>1. Len(s) \in Nat \ {0} /\ \A i \in 1..Len(s) : s[i] \in S
  OBVIOUS
<1>2. t \in Seq(S) /\ Len(t) = Len(s) - 1
  BY <1>1
<1>3. /\ Tail(s) \in Seq(S) /\ Len(Tail(s)) = Len(s) - 1
      /\ \A i \in 1..Len(Tail(s)) : Tail(s)[i] = s[i + 1]
  BY HeadTailProperties
<1>4. \A i \in 1..Len(Tail(s)) : Tail(s)[i] = t[i]
  BY <1>3
<1> QED BY <1>2, <1>3, <1>4, SeqEqual

LEMMA AppendIs ==
    ASSUME NEW S, NEW s \in Seq(S), NEW x \in S
    PROVE  /\ Append(s, x) \in Seq(S) /\ Append(s, x) # <<>>
           /\ Len(Append(s, x)) = Len(s) + 1
           /\ \A i \in 1..(Len(s) + 1) : Append(s, x)[i] = IF i <= Len(s) THEN s[i] ELSE x
           /\ Append(s, x) = [i \in 1..(Len(s) + 1) |-> IF i <= Len(s) THEN s[i] ELSE x]
<1> DEFINE t == [i \in 1..(Len(s) + 1) |-> IF i <= Len(s) THEN s[i] ELSE x]
<1>1. Len(s) \in Nat /\ \A i \in 1..Len(s) : s[i] \in S
  OBVIOUS
<1>2. t \in Seq(S) /\ Len(t) = Len(s) + 1
  BY <1>1
<1>3. /\ Append(s, x) \in Seq(S) /\ Append(s, x) # <<>> /\ Len(Append(s, x)) = Len(s) + 1
      /\ \A i \in 1..Len(s) : Append(s, x)[i] = s[i]
      /\ Append(s, x)[Len(s) + 1] = x
  BY AppendProperties
<1>4. \A i \in 1..(Len(s) + 1) : Append(s, x)[i] = IF i <= Len(s) THEN s[i] ELSE x
  BY <1>1, <1>3
<1>5. Append(s, x) = t
  BY <1>2, <1>3, <1>4, SeqEqual
<1> QED BY <1>3, <1>4, <1>5

(* What push_back makes of a queue. *)
LEMMA Pushed ==
    ASSUME NEW M, NEW sq \in Seq(M), NEW m \in M, NEW n \in Nat \ {0}, Len(sq) <= n
    PROVE  /\ Len(sq) < n => /\ Append(sq, m) \in Seq(M) /\ Len(Append(sq, m)) = Len(sq) + 1
                             /\ \A i \in 1..Len(sq) : Append(sq, m)[i] = sq[i]
                             /\ Append(sq, m)[Len(sq) + 1] = m
           /\ Len(sq) = n => /\ sq # <<>> /\ Tail(sq) \in Seq(M)
                             /\ Append(Tail(sq), m) \in Seq(M) /\ Len(Append(Tail(sq), m)) = n
                             /\ \A i \in 1..(n - 1) : Append(Tail(sq), m)[i] = sq[i + 1]
                             /\ Append(Tail(sq), m)[n] = m
<1>1. /\ Append(sq, m) \in Seq(M) /\ Len(Append(sq, m)) = Len(sq) + 1
      /\ \A i \in 1..(Len(sq) + 1) : Append(sq, m)[i] = IF i <= Len(sq) THEN sq[i] ELSE m
  BY AppendIs
<1>2. ASSUME Len(sq) = n
      PROVE  /\ sq # <<>> /\ Tail(sq) \in Seq(M)
             /\ Append(Tail(sq), m) \in Seq(M) /\ Len(Append(Tail(sq), m)) = n
             /\ \A i \in 1..(n - 1) : Append(Tail(sq), m)[i] = sq[i + 1]
             /\ Append(Tail(sq), m)[n] = m
  <2>1. sq # <<>>
    BY <1>2
  <2>2. /\ Tail(sq) \in Seq(M) /\ Len(Tail(sq)) = n - 1
        /\ \A i \in 1..(n - 1) : Tail(sq)[i] = sq[i + 1]
    BY <1>2, <2>1, HeadTailProperties
  <2> DEFINE t == Tail(sq)
  <2> HIDE DEF t
  <2>3. /\ Append(t, m) \in Seq(M) /\ Len(Append(t, m)) = Len(t) + 1
        /\ \A i \in 1..(Len(t) + 1) : Append(t, m)[i] = IF i <= Len(t) THEN t[i] ELSE m
    BY <2>2, AppendIs DEF t
  <2>4. Len(t) = n - 1 /\ \A i \in 1..(n - 1) : t[i] = sq[i + 1]
    BY <2>2 DEF t
  <2>5. /\ Len(Append(t, m)) = n /\ Append(t, m)[n] = m
        /\ \A i \in 1..(n - 1) : Append(t, m)[i] = sq[i + 1]
    BY <2>3, <2>4
  <2> QED BY <2>1, <2>2, <2>3, <2>5 DEF t
<1>3. Len(sq) \in Nat
  OBVIOUS
<1> QED BY <1>1, <1>2, <1>3

OfType(sq, S) == {i \in 1..Len(sq) : sq[i].type \in S}

LEMMA OfTypeFinite ==
    ASSUME NEW M, NEW sq \in Seq(M), NEW S
    PROVE  IsFiniteSet(OfType(sq, S)) /\ Cardinality(OfType(sq, S)) \in Nat
<1>1. Len(sq) \in Nat
  OBVIOUS
<1>2. IsFiniteSet(1..Len(sq))
  BY <1>1, FS_Interval
<1>3. OfType(sq, S) \in SUBSET (1..Len(sq))
  BY DEF OfType
<1>4. IsFiniteSet(OfType(sq, S))
  BY <1>2, <1>3, FS_Subset
<1> QED BY <1>4, FS_CardinalityType

LEMMA OfTypeAppend ==
    ASSUME NEW M, NEW sq \in Seq(M), NEW m \in M, NEW S
    PROVE  Cardinality(OfType(Append(sq, m), S))
             = Cardinality(OfType(sq, S)) + (IF m.type \in S THEN 1 ELSE 0)
<1> DEFINE k == Len(sq) + 1
           a == Append(sq, m)
<1>1. k \in Nat /\ Len(a) = k /\ a[k] = m /\ \A i \in 1..Len(sq) : a[i] = sq[i]
  <2>1. Len(sq) \in Nat
    OBVIOUS
  <2>2. /\ Len(a) = Len(sq) + 1
        /\ \A i \in 1..(Len(sq) + 1) : a[i] = IF i <= Len(sq) THEN sq[i] ELSE m
    BY AppendIs
  <2> HIDE DEF a
  <2> QED BY <2>1, <2>2
<1> HIDE DEF a
<1>2. IsFiniteSet(OfType(sq, S)) /\ Cardinality(OfType(sq, S)) \in Nat
  BY OfTypeFinite
<1>5. k \notin OfType(sq, S)
  BY <1>1 DEF OfType
<1>3. CASE m.type \in S
  <2>1. OfType(a, S) = OfType(sq, S) \cup {k}
    BY <1>1, <1>3 DEF OfType
  <2> QED BY <1>2, <1>3, <1>5, <2>1, FS_AddElement DEF a
<1>4. CASE m.type \notin S
  <2>1. OfType(a, S) = OfType(sq, S)
    BY <1>1, <1>4 DEF OfType
  <2> QED BY <1>2, <1>4, <2>1 DEF a
<1> QED BY <1>3, <1>4

LEMMA OfTypeTail ==
    ASSUME NEW M, NEW sq \in Seq(M), NEW S, sq # <<>>
    PROVE  Cardinality(OfType(sq, S))
             = Cardinality(OfType(Tail(sq), S)) + (IF sq[1].type \in S THEN 1 ELSE 0)
<1> DEFINE t == Tail(sq)
           later == OfType(sq, S) \ {1}
           up == [i \in OfType(t, S) |-> i + 1]
<1>1. /\ Len(sq) \in Nat /\ Len(sq) > 0 /\ t \in Seq(M) /\ Len(t) = Len(sq) - 1
      /\ \A i \in 1..(Len(sq) - 1) : t[i] = sq[i + 1]
  BY HeadTailProperties
<1> HIDE DEF t
<1>2. IsFiniteSet(OfType(t, S)) /\ IsFiniteSet(OfType(sq, S))
  BY <1>1, OfTypeFinite
<1>3. up \in Bijection(OfType(t, S), later)
  <2>1. \A i \in OfType(t, S) : i \in Int /\ up[i] = i + 1 /\ i + 1 \in later
    BY <1>1 DEF OfType
  <2>2. \A j \in later : j - 1 \in OfType(t, S) /\ up[j - 1] = j
    BY <1>1 DEF OfType
  <2>3. up \in [OfType(t, S) -> later]
    BY <2>1
  <2>4. \A i, j \in OfType(t, S) : up[i] = up[j] => i = j
    BY <2>1
  <2> HIDE DEF up, later
  <2> QED BY <2>2, <2>3, <2>4 DEF Bijection, Injection, Surjection, IsInjective
<1>4. IsFiniteSet(later) /\ Cardinality(later) = Cardinality(OfType(t, S))
  BY <1>2, <1>3, FS_Bijection DEF ExistsBijection
<1>5. 1 \in OfType(sq, S) <=> sq[1].type \in S
  BY <1>1 DEF OfType
<1>6. Cardinality(later) = IF 1 \in OfType(sq, S) THEN Cardinality(OfType(sq, S)) - 1
                                                 ELSE Cardinality(OfType(sq, S))
  BY <1>2, FS_RemoveElement
<1>7. Cardinality(OfType(sq, S)) \in Nat /\ Cardinality(OfType(t, S)) \in Nat
  BY <1>2, FS_CardinalityType
<1> HIDE DEF later, up
<1> QED BY <1>4, <1>5, <1>6, <1>7 DEF t

-----------------------------------------------------------------------------
(* The ring *)

(* The cells of the items have been written. *)
Written == \A i \in 0..(size - 1) : at(i) \in Items

RingInv == TypeOK /\ Written

(* One wrap at most. *)
LEMMA Wrap ==
    ASSUME NEW a \in Nat, a < 2 * max_items_
    PROVE  a % max_items_ = IF a < max_items_ THEN a ELSE a - max_items_
BY MaxItemsIsNat DEF max_items_

LEMMA AfterCell ==
    ASSUME NEW i \in Cells
    PROVE  /\ After(i) \in Cells
           /\ After(i) = IF i = MaxItems THEN 0 ELSE i + 1
BY MaxItemsIsNat, Wrap DEF max_items_, Cells, After

(* The cell i behind h, or that far from the start again. *)
CellAt(h, i) == IF h + i < max_items_ THEN h + i ELSE h + i - max_items_

LEMMA CellAtIs ==
    ASSUME NEW h \in Cells, NEW i \in 0..MaxItems
    PROVE  (h + i) % max_items_ = CellAt(h, i) /\ CellAt(h, i) \in Cells
<1>1. /\ h \in Nat /\ i \in Nat /\ max_items_ \in Nat
      /\ h + i \in Nat /\ h + i < 2 * max_items_
  BY MaxItemsIsNat DEF Cells, max_items_
<1>2. (h + i) % max_items_ = CellAt(h, i)
  BY <1>1, Wrap DEF CellAt
<1>3. CellAt(h, i) \in Cells
  BY <1>1, MaxItemsIsNat DEF CellAt, Cells, max_items_
<1> QED BY <1>2, <1>3

LEMMA SizeRange ==
    ASSUME TypeOK
    PROVE  size \in 0..MaxItems /\ (full <=> size = MaxItems) /\ (empty <=> size = 0)
<1>1. After(tail_) = IF tail_ = MaxItems THEN 0 ELSE tail_ + 1
  BY AfterCell DEF TypeOK
<1> QED BY <1>1, MaxItemsIsNat DEF TypeOK, Cells, size, full, empty, max_items_

LEMMA InitType == Init => TypeOK
BY MaxItemsIsNat DEF Init, TypeOK, Cells

LEMMA NextType == TypeOK /\ [Next]_vars => TypeOK'
<1> SUFFICES ASSUME TypeOK, [Next]_vars PROVE TypeOK'
  OBVIOUS
<1>1. After(head_) \in Cells /\ After(tail_) \in Cells
  BY AfterCell DEF TypeOK
<1>2. CASE \E x \in Items : push_back(x)
  BY <1>1, <1>2 DEF TypeOK, push_back
<1>3. CASE pop_front
  BY <1>1, <1>3 DEF TypeOK, pop_front
<1>4. CASE reset_overrun_counter
  BY <1>4 DEF TypeOK, reset_overrun_counter
<1>5. CASE UNCHANGED vars
  BY <1>5 DEF TypeOK, vars
<1> QED BY <1>2, <1>3, <1>4, <1>5 DEF Next

(* An item that fits is the last one. *)
LEMMA PushFits ==
    ASSUME TypeOK, NEW x \in Items, push_back(x), size < MaxItems
    PROVE  /\ size' = size + 1 /\ overrun_counter_' = overrun_counter_
           /\ \A i \in 0..(size - 1) : at(i)' = at(i)
           /\ \A i \in 0..MaxItems : i = size => at(i)' = x
<1>2. tail_' = IF tail_ = MaxItems THEN 0 ELSE tail_ + 1
  BY AfterCell DEF push_back, TypeOK
<1>3. tail_' # head_
  BY <1>2, MaxItemsIsNat DEF TypeOK, Cells, size, max_items_
<1>4. head_' = head_ /\ v_' = [v_ EXCEPT ![tail_] = x] /\ overrun_counter_' = overrun_counter_
  BY <1>3 DEF push_back
<1>5. size' = size + 1
  BY <1>2, <1>3, <1>4, MaxItemsIsNat DEF TypeOK, Cells, size, max_items_
<1>6. \A i \in 0..MaxItems : at(i) = v_[CellAt(head_, i)] /\ at(i)' = v_'[CellAt(head_, i)]
  BY <1>4, CellAtIs DEF at, TypeOK
<1>7. size \in 0..MaxItems
  BY SizeRange
<1>8. ASSUME NEW i \in 0..(size - 1)
      PROVE  at(i)' = at(i)
  <2>1. CellAt(head_, i) \in Cells /\ CellAt(head_, i) # tail_
    BY <1>7, MaxItemsIsNat DEF CellAt, TypeOK, Cells, size, max_items_
  <2>2. v_'[CellAt(head_, i)] = v_[CellAt(head_, i)]
    BY <1>4, <2>1 DEF TypeOK
  <2> QED BY <1>6, <1>7, <2>2, MaxItemsIsNat
<1>9. ASSUME NEW i \in 0..MaxItems, i = size PROVE at(i)' = x
  <2>1. CellAt(head_, i) = tail_
    BY <1>9, MaxItemsIsNat DEF CellAt, TypeOK, Cells, size, max_items_
  <2>2. v_'[tail_] = x
    BY <1>4 DEF TypeOK
  <2> QED BY <1>6, <2>1, <2>2
<1> QED BY <1>4, <1>5, <1>8, <1>9

(* In a full ring the others move up, and the item is the last one. *)
LEMMA PushOverruns ==
    ASSUME TypeOK, NEW x \in Items, push_back(x), size = MaxItems
    PROVE  /\ size' = size /\ overrun_counter_' = overrun_counter_ + 1
           /\ \A i \in 0..(size - 2) : at(i)' = at(i + 1)
           /\ \A i \in 0..MaxItems : i = size - 1 => at(i)' = x
<1>1. tail_' = IF tail_ = MaxItems THEN 0 ELSE tail_ + 1
  BY AfterCell DEF push_back, TypeOK
<1>2. tail_' = head_
  BY <1>1, MaxItemsIsNat DEF TypeOK, Cells, size, max_items_
<1>3. /\ head_' = IF head_ = MaxItems THEN 0 ELSE head_ + 1
      /\ v_' = [v_ EXCEPT ![tail_] = x] /\ overrun_counter_' = overrun_counter_ + 1
  BY <1>2, AfterCell DEF push_back, TypeOK
<1>4. size' = size
  BY <1>1, <1>2, <1>3, MaxItemsIsNat DEF TypeOK, Cells, size, max_items_
<1>5. head_' \in Cells
  BY <1>3, MaxItemsIsNat DEF TypeOK, Cells
<1>6. \A i \in 0..MaxItems : at(i) = v_[CellAt(head_, i)] /\ at(i)' = v_'[CellAt(head_', i)]
  BY <1>5, CellAtIs DEF at, TypeOK
<1>7. ASSUME NEW i \in 0..(size - 2)
      PROVE  at(i)' = at(i + 1)
  <2>1. /\ CellAt(head_', i) = CellAt(head_, i + 1)
        /\ CellAt(head_', i) \in Cells /\ CellAt(head_', i) # tail_
    BY <1>1, <1>2, <1>3, MaxItemsIsNat DEF CellAt, TypeOK, Cells, max_items_
  <2>2. v_'[CellAt(head_', i)] = v_[CellAt(head_', i)]
    BY <1>3, <2>1 DEF TypeOK
  <2>3. i \in 0..MaxItems /\ i + 1 \in 0..MaxItems
    BY MaxItemsIsNat
  <2> QED BY <1>6, <2>1, <2>2, <2>3
<1>8. ASSUME NEW i \in 0..MaxItems, i = size - 1
      PROVE  at(i)' = x
  <2>1. CellAt(head_', i) = tail_
    BY <1>1, <1>2, <1>3, <1>8, MaxItemsIsNat DEF CellAt, TypeOK, Cells, max_items_
  <2>2. v_'[tail_] = x
    BY <1>3 DEF TypeOK
  <2> QED BY <1>6, <2>1, <2>2
<1> QED BY <1>3, <1>4, <1>7, <1>8

LEMMA PopShifts ==
    ASSUME TypeOK, pop_front
    PROVE  /\ size > 0 /\ size' = size - 1
           /\ \A i \in 0..(size - 2) : at(i)' = at(i + 1)
<1>1. /\ head_' = IF head_ = MaxItems THEN 0 ELSE head_ + 1
      /\ UNCHANGED <<tail_, v_>> /\ head_ # tail_
  BY AfterCell DEF pop_front, empty, TypeOK
<1>2. size > 0 /\ size' = size - 1
  BY <1>1, MaxItemsIsNat DEF TypeOK, Cells, size, max_items_
<1>3. head_' \in Cells
  BY <1>1, MaxItemsIsNat DEF TypeOK, Cells
<1>4. \A i \in 0..MaxItems : at(i) = v_[CellAt(head_, i)] /\ at(i)' = v_[CellAt(head_', i)]
  BY <1>1, <1>3, CellAtIs DEF at, TypeOK
<1>5. ASSUME NEW i \in 0..(size - 2)
      PROVE  at(i)' = at(i + 1)
  <2>2. i \in 0..MaxItems /\ i + 1 \in 0..MaxItems
    BY SizeRange, MaxItemsIsNat
  <2>1. CellAt(head_', i) = CellAt(head_, i + 1)
    BY <1>1, <2>2, MaxItemsIsNat DEF CellAt, TypeOK, Cells, max_items_
  <2> QED BY <1>4, <2>1, <2>2
<1> QED BY <1>2, <1>5

-----------------------------------------------------------------------------
LEMMA RingInit == Init => RingInv
<1> SUFFICES ASSUME Init PROVE RingInv
  OBVIOUS
<1>1. TypeOK
  BY InitType
<1>2. size = 0
  BY DEF Init, size
<1> QED BY <1>1, <1>2 DEF RingInv, Written

LEMMA ResetKeeps ==
    ASSUME reset_overrun_counter
    PROVE  size' = size /\ \A i \in 0..(size - 1) : at(i)' = at(i)
BY DEF reset_overrun_counter, size, at

LEMMA RingNext == RingInv /\ [Next]_vars => RingInv'
<1> SUFFICES ASSUME RingInv, [Next]_vars PROVE RingInv'
  OBVIOUS
<1>1. TypeOK /\ TypeOK'
  BY NextType DEF RingInv
<1>2. size \in 0..MaxItems
  BY <1>1, SizeRange
<1>3. \A i \in 0..(size - 1) : at(i) \in Items
  BY DEF RingInv, Written
<1> SUFFICES ASSUME NEW i \in 0..(size' - 1)
             PROVE  at(i)' \in Items
  BY <1>1 DEF RingInv, Written
<1>4. ASSUME NEW x \in Items, push_back(x) PROVE at(i)' \in Items
  <2>1. CASE size < MaxItems
    BY <1>1, <1>2, <1>3, <1>4, <2>1, PushFits, MaxItemsIsNat
  <2>2. CASE size = MaxItems
    BY <1>1, <1>2, <1>3, <1>4, <2>2, PushOverruns, MaxItemsIsNat
  <2> QED BY <1>2, <2>1, <2>2, MaxItemsIsNat
<1>5. CASE pop_front
  BY <1>1, <1>2, <1>3, <1>5, PopShifts, MaxItemsIsNat
<1>6. CASE reset_overrun_counter
  BY <1>2, <1>3, <1>6, ResetKeeps, MaxItemsIsNat
<1>7. CASE UNCHANGED vars
  BY <1>3, <1>7 DEF vars, size, at
<1> QED BY <1>4, <1>5, <1>6, <1>7 DEF Next

(* TypeOK, for every capacity. *)
THEOREM TypeCorrect == Spec => []TypeOK
BY InitType, NextType, PTL DEF Spec

(* full(), empty() and size() agree, and no blank cell is read. *)
THEOREM SizesAlwaysAgree == Spec => []SizesAgree
<1>1. RingInv => SizesAgree
  BY SizeRange DEF RingInv, Written, SizesAgree
<1> QED BY <1>1, RingInit, RingNext, PTL DEF Spec

-----------------------------------------------------------------------------
(* The refinement: each operation of the ring is that of the sequence. *)

LEMMA ContentIs ==
    ASSUME RingInv
    PROVE  /\ Content \in Seq(Items) /\ Len(Content) = size
           /\ \A i \in 1..size : Content[i] = at(i - 1)
<1>1. size \in Nat
  BY SizeRange, MaxItemsIsNat DEF RingInv
<1>2. \A i \in 1..size : at(i - 1) \in Items
  BY <1>1 DEF RingInv, Written
<1> QED BY <1>1, <1>2 DEF Content

LEMMA PushRefines ==
    ASSUME RingInv, NEW x \in Items, push_back(x)
    PROVE  Bounded!Push(x)
<1>1. TypeOK /\ size \in 0..MaxItems
  BY SizeRange DEF RingInv
<1>2. /\ Content \in Seq(Items) /\ Len(Content) = size
      /\ \A i \in 1..size : Content[i] = at(i - 1)
  BY ContentIs
<1>3. CASE size < MaxItems
  <2>1. size' = size + 1 /\ overrun_counter_' = overrun_counter_
    BY <1>1, <1>3, PushFits
  <2>2. \A i \in 1..size : at(i - 1)' = Content[i]
    BY <1>1, <1>2, <1>3, PushFits
  <2>3. \A i \in 1..(size + 1) : i = size + 1 => at(i - 1)' = x
    BY <1>1, <1>3, PushFits, MaxItemsIsNat
  <2>4. Content' = [i \in 1..(size + 1) |-> at(i - 1)']
    BY <2>1 DEF Content
  <2>5. Append(Content, x) = [i \in 1..(size + 1) |-> IF i <= size THEN Content[i] ELSE x]
    BY <1>2, AppendIs
  <2>6. \A i \in 1..(size + 1) : at(i - 1)' = IF i <= size THEN Content[i] ELSE x
    BY <1>1, <2>2, <2>3
  <2>7. Content' = Append(Content, x)
    BY <2>4, <2>5, <2>6
  <2> QED BY <1>2, <1>3, <2>1, <2>7 DEF Bounded!Push
<1>4. CASE size = MaxItems
  <2>1. size' = size /\ overrun_counter_' = overrun_counter_ + 1
    BY <1>1, <1>4, PushOverruns
  <2>2. \A i \in 1..(size - 1) : at(i - 1)' = Content[i + 1]
    BY <1>1, <1>2, <1>4, PushOverruns
  <2>3. \A i \in 1..size : i = size => at(i - 1)' = x
    BY <1>1, <1>4, PushOverruns, MaxItemsIsNat
  <2>4. Content' = [i \in 1..size |-> at(i - 1)']
    BY <2>1 DEF Content
  <2>5. Tail(Append(Content, x)) = [i \in 1..size |-> IF i < size THEN Content[i + 1] ELSE x]
    <3> DEFINE a == Append(Content, x)
    <3>1. /\ a \in Seq(Items) /\ a # <<>> /\ Len(a) = size + 1
          /\ \A i \in 1..(size + 1) : a[i] = IF i <= size THEN Content[i] ELSE x
      BY <1>2, AppendIs
    <3>2. Tail(a) = [i \in 1..(Len(a) - 1) |-> a[i + 1]]
      BY <3>1, TailIs
    <3> HIDE DEF a
    <3>3. Len(a) - 1 = size /\ \A i \in 1..size : a[i + 1] = IF i < size THEN Content[i + 1] ELSE x
      BY <1>1, <3>1
    <3>4. Tail(a) = [i \in 1..size |-> IF i < size THEN Content[i + 1] ELSE x]
      BY <3>2, <3>3
    <3> QED BY <3>4 DEF a
  <2>6. \A i \in 1..size : at(i - 1)' = IF i < size THEN Content[i + 1] ELSE x
    BY <1>1, <2>2, <2>3
  <2>7. Content' = Tail(Append(Content, x))
    BY <2>4, <2>5, <2>6
  <2> QED BY <1>2, <1>4, <2>1, <2>7 DEF Bounded!Push
<1> QED BY <1>1, <1>3, <1>4, MaxItemsIsNat

LEMMA PopRefines ==
    ASSUME RingInv, pop_front
    PROVE  Bounded!Pop
<1>1. TypeOK /\ size \in 0..MaxItems
  BY SizeRange DEF RingInv
<1>2. /\ Content \in Seq(Items) /\ Len(Content) = size
      /\ \A i \in 1..size : Content[i] = at(i - 1)
  BY ContentIs
<1>3. size > 0 /\ size' = size - 1
  BY <1>1, PopShifts
<1>4. \A i \in 1..(size - 1) : at(i - 1)' = Content[i + 1]
  BY <1>1, <1>2, PopShifts
<1>5. Content' = [i \in 1..(size - 1) |-> at(i - 1)']
  BY <1>3 DEF Content
<1>6. Tail(Content) = [i \in 1..(size - 1) |-> Content[i + 1]]
  <2>1. Content # <<>>
    BY <1>2, <1>3
  <2> QED BY <1>2, <2>1, TailIs
<1>7. Content' = Tail(Content)
  BY <1>4, <1>5, <1>6
<1> QED BY <1>2, <1>3, <1>7 DEF Bounded!Pop, pop_front

LEMMA StepRefines == RingInv /\ [Next]_vars => [Bounded!Next]_(Bounded!vars)
<1> SUFFICES ASSUME RingInv, [Next]_vars PROVE [Bounded!Next]_(Bounded!vars)
  OBVIOUS
<1>1. CASE \E x \in Items : push_back(x)
  BY <1>1, PushRefines DEF Bounded!Next
<1>2. CASE pop_front
  BY <1>2, PopRefines DEF Bounded!Next
<1>3. CASE reset_overrun_counter
  <2>1. Content' = Content
    BY <1>3 DEF reset_overrun_counter, Content, size, at
  <2> QED BY <1>3, <2>1 DEF Bounded!Next, Bounded!ResetOverruns, reset_overrun_counter
<1>4. CASE UNCHANGED vars
  BY <1>4 DEF vars, Bounded!vars, Content, size, at
<1> QED BY <1>1, <1>2, <1>3, <1>4 DEF Next

LEMMA InitRefines == Init => Bounded!Init
<1> SUFFICES ASSUME Init PROVE Bounded!Init
  OBVIOUS
<1>1. size = 0
  BY DEF Init, size
<1>2. Content = <<>>
  BY <1>1 DEF Content
<1> QED BY <1>2 DEF Init, Bounded!Init

(* The ring is a bounded sequence that makes room by dropping the oldest.    *)
THEOREM Refines == Spec => ImplementsBoundedQueue
BY RingInit, RingNext, InitRefines, StepRefines, PTL DEF Spec, Bounded!Spec, ImplementsBoundedQueue

-----------------------------------------------------------------------------
(* The pool: what the settings are, and the invariant of its threads.       *)

Setting(s) ==
    /\ s.main \notin s.clients
    /\ IsFiniteSet(s.workers) /\ s.workers # {}
    /\ s.size \in Nat \ {0} /\ s.posts \in Nat

ThreadsOf(s) == s.clients \union {s.main}
Message(s)   == [type: {"log", "flush"}, from: s.clients, n: 1..s.posts]
Terminate    == [type |-> "terminate"]
Nothing      == [type |-> "none"]

PoolType(s) ==
    /\ q \in Seq(Message(s) \union {Terminate}) /\ Len(q) <= s.size
    /\ overruns \in Nat /\ posted \in Nat /\ handled \in Nat
    /\ terminates \in Nat /\ terminates <= Cardinality(s.workers)
    /\ owners \subseteq ThreadsOf(s)
    /\ pc \in [ThreadsOf(s) -> {"idle", "try", "waiting", "notify", "join", "done"}]
    /\ msg \in [ThreadsOf(s) -> Message(s) \union {Terminate, Nothing}]
    /\ wpc \in [s.workers -> {"idle", "waiting", "notify", "work", "exit"}]
    /\ held \in [s.workers -> Message(s) \union {Terminate, Nothing}]
    /\ file \in Seq(Message(s))
    /\ sent \in [s.clients -> 0..s.posts]

(* A thread owns the pool as long as it has a message of its own to post; the *)
(* last owner, and no other thread, posts the terminate messages.            *)
Posting(s) ==
    /\ \A t \in ThreadsOf(s) : msg[t] = Nothing <=> pc[t] \in {"idle", "done"}
    /\ \A c \in s.clients : pc[c] # "done" /\ (msg[c] \in Message(s) <=> c \in owners)
    /\ \A c \in s.clients : msg[c] \in Message(s) => msg[c].from = c /\ msg[c].n = sent[c]
    /\ msg[s.main] \notin Message(s)
    /\ \A t \in ThreadsOf(s) : pc[t] = "join" => msg[t] = Terminate

OneEnds(s) ==
    /\ terminates = 0 <=> owners # {}
    /\ \A t \in ThreadsOf(s) : msg[t] = Terminate => owners = {}
    /\ \A t, u \in ThreadsOf(s) : msg[t] = Terminate /\ msg[u] = Terminate => t = u

Holds(s) == \A w \in s.workers : held[w] # Nothing <=> wpc[w] \in {"notify", "work"}

(* The terminate messages are posted behind all others. *)
Exiting(s)   == \E w \in s.workers : wpc[w] = "exit" \/ held[w] = Terminate
EndsLast(s) ==
    /\ \A i \in 1..Len(q) : q[i] = Terminate => owners = {}
    /\ \A i, j \in 1..Len(q) : i < j /\ q[i] = Terminate => q[j] = Terminate
    /\ Exiting(s) => owners = {} /\ \A i \in 1..Len(q) : q[i] = Terminate

(* Where they are: still to be enqueued, in the queue, with a worker, obeyed. *)
WithWorker(s, S) == {w \in s.workers : held[w].type \in S}
Exited(s)     == {w \in s.workers : wpc[w] = "exit"}
ToEnqueue(s)  == \E t \in ThreadsOf(s) : msg[t] = Terminate /\ pc[t] \in {"try", "waiting"}
EndsCounted(s) ==
    terminates = Cardinality(OfType(q, {"terminate"})) + Cardinality(WithWorker(s, {"terminate"}))
                   + Cardinality(Exited(s)) + (IF ToEnqueue(s) THEN 1 ELSE 0)

PostsCounted(s) ==
    posted = handled + overruns + Cardinality(OfType(q, {"log", "flush"}))
                                + Cardinality(WithWorker(s, {"log", "flush"}))

Ended(s) == owners = {} /\ \A t \in ThreadsOf(s) : msg[t] # Terminate
AllEnd(s) ==
    /\ (\E t \in ThreadsOf(s) : pc[t] = "join") \/ Ended(s) => terminates = Cardinality(s.workers)
    /\ Ended(s) => \A w \in s.workers : wpc[w] = "exit"

PoolInv(s) ==
    /\ PoolType(s) /\ Posting(s) /\ OneEnds(s) /\ Holds(s) /\ EndsLast(s)
    /\ EndsCounted(s) /\ PostsCounted(s) /\ AllEnd(s)

(* What a client posts goes through the queue and the worker in its order.   *)
Earlier(s, a, b) == a \in Message(s) /\ b \in Message(s) /\ a.from = b.from => a.n < b.n
Begun(s) == [c \in s.clients |-> IF pc[c] \in {"try", "waiting"} /\ msg[c] # Terminate
                                  THEN sent[c] - 1 ELSE sent[c]]
Past(s, m) == m \in Message(s) => m.n <= Begun(s)[m.from]
InOrder(s) ==
    /\ \A i, j \in 1..Len(file) : i < j => Earlier(s, file[i], file[j])
    /\ \A i \in 1..Len(file), w \in s.workers : Earlier(s, file[i], held[w])
    /\ \A i \in 1..Len(file), j \in 1..Len(q) : Earlier(s, file[i], q[j])
    /\ \A w \in s.workers, j \in 1..Len(q) : Earlier(s, held[w], q[j])
    /\ \A i, j \in 1..Len(q) : i < j => Earlier(s, q[i], q[j])
    /\ \A i \in 1..Len(file) : Past(s, file[i])
    /\ \A w \in s.workers : Past(s, held[w])
    /\ \A i \in 1..Len(q) : Past(s, q[i])

-----------------------------------------------------------------------------
LEMMA Names ==
    ASSUME NEW s
    PROVE  /\ Pool(s)!Terminate = Terminate /\ Pool(s)!None = Nothing
           /\ Pool(s)!Message = Message(s) /\ Pool(s)!Messages = Message(s) \union {Terminate}
           /\ Pool(s)!Threads = ThreadsOf(s)
BY DEF Pool!Terminate, Pool!None, Pool!Message, Pool!Messages, Pool!Threads, Terminate, Nothing,
       Message, ThreadsOf

LEMMA Kinds ==
    ASSUME NEW s
    PROVE  /\ Terminate # Nothing /\ Terminate \notin Message(s) /\ Nothing \notin Message(s)
           /\ Terminate.type = "terminate" /\ Nothing.type = "none"
           /\ \A m \in Message(s) : m.type \in {"log", "flush"} /\ m.from \in s.clients /\ m.n \in Nat
BY DEF Terminate, Nothing, Message

LEMMA SameCardinality ==
    ASSUME NEW s, NEW S
    PROVE  Pool(s)!Cardinality(S) = Cardinality(S)
BY DEF Cardinality, Pool!Cardinality

(* A worker takes a message, or is done with it. *)
LEMMA HeldUpdate ==
    ASSUME NEW s, Setting(s), PoolType(s), NEW w \in s.workers, NEW x,
           held' = [held EXCEPT ![w] = x], NEW S
    PROVE  Cardinality(WithWorker(s, S))'
             = Cardinality(WithWorker(s, S)) + (IF x.type \in S THEN 1 ELSE 0)
                                             - (IF held[w].type \in S THEN 1 ELSE 0)
<1> DEFINE before == WithWorker(s, S)
           rest == {v \in s.workers \ {w} : held[v].type \in S}
           after == {v \in s.workers : held'[v].type \in S}
<1>1. IsFiniteSet(s.workers) /\ rest \in SUBSET s.workers /\ w \notin rest
  BY DEF Setting
<1>2. IsFiniteSet(rest) /\ Cardinality(rest) \in Nat
  BY <1>1, FS_Subset, FS_CardinalityType
<1>3. Cardinality(rest \cup {w}) = Cardinality(rest) + 1
  BY <1>1, <1>2, FS_AddElement
<1>4. before = IF held[w].type \in S THEN rest \cup {w} ELSE rest
  BY DEF WithWorker
<1>5. held'[w] = x /\ \A v \in s.workers \ {w} : held'[v] = held[v]
  BY DEF PoolType
<1>6. after = IF x.type \in S THEN rest \cup {w} ELSE rest
  BY <1>5
<1>7. WithWorker(s, S)' = after
  BY DEF WithWorker
<1> HIDE DEF before, rest, after
<1>8. Cardinality(WithWorker(s, S))' = Cardinality(after)
  BY <1>7
<1>9. Cardinality(before) = Cardinality(rest) + (IF held[w].type \in S THEN 1 ELSE 0)
  BY <1>2, <1>3, <1>4
<1>10. Cardinality(after) = Cardinality(rest) + (IF x.type \in S THEN 1 ELSE 0)
  BY <1>2, <1>3, <1>6
<1> QED BY <1>2, <1>8, <1>9, <1>10 DEF before

LEMMA CountsAreNat ==
    ASSUME NEW s, Setting(s), PoolType(s), NEW S
    PROVE  /\ Cardinality(OfType(q, S)) \in Nat
           /\ Cardinality(WithWorker(s, S)) \in Nat /\ IsFiniteSet(WithWorker(s, S))
           /\ Cardinality(Exited(s)) \in Nat /\ IsFiniteSet(Exited(s))
           /\ Cardinality(s.workers) \in Nat \ {0}
<1>1. q \in Seq(Message(s) \union {Terminate})
  BY DEF PoolType
<1>2. IsFiniteSet(s.workers) /\ s.workers # {}
  BY DEF Setting
<1>3. WithWorker(s, S) \in SUBSET s.workers /\ Exited(s) \in SUBSET s.workers
  BY DEF WithWorker, Exited
<1>4. IsFiniteSet(WithWorker(s, S)) /\ IsFiniteSet(Exited(s))
  BY <1>2, <1>3, FS_Subset
<1>5. Cardinality(OfType(q, S)) \in Nat
  BY <1>1, OfTypeFinite
<1>6. Cardinality(s.workers) \in Nat \ {0}
  BY <1>2, FS_CardinalityType, FS_EmptySet
<1> QED BY <1>4, <1>5, <1>6, FS_CardinalityType

LEMMA PoolInit ==
    ASSUME NEW s, Setting(s), Pool(s)!Init
    PROVE  PoolInv(s) /\ InOrder(s)
<1>1. /\ q = <<>> /\ overruns = 0 /\ owners = {s.main} /\ terminates = 0
      /\ pc = [t \in ThreadsOf(s) |-> "idle"] /\ msg = [t \in ThreadsOf(s) |-> Nothing]
      /\ wpc = [w \in s.workers |-> "idle"] /\ held = [w \in s.workers |-> Nothing]
      /\ file = <<>> /\ sent = [c \in s.clients |-> 0] /\ posted = 0 /\ handled = 0
  BY Names DEF Pool!Init
<1>2. Len(q) = 0 /\ Len(file) = 0
  BY <1>1
<1>3. /\ s.main \notin s.clients /\ s.main \in ThreadsOf(s) /\ s.posts \in Nat /\ s.size \in Nat \ {0}
      /\ Cardinality(s.workers) \in Nat
  BY FS_CardinalityType DEF Setting, ThreadsOf
<1>4. PoolType(s)
  BY <1>1, <1>2, <1>3 DEF PoolType
<1>5. Posting(s)
  BY <1>1, <1>3, Kinds DEF Posting, ThreadsOf
<1>6. OneEnds(s) /\ Holds(s)
  BY <1>1, <1>3, Kinds DEF OneEnds, Holds
<1>7. EndsLast(s)
  BY <1>1, <1>2, Kinds DEF EndsLast, Exiting
<1>8. \A S : "none" \notin S => OfType(q, S) = {} /\ WithWorker(s, S) = {}
  BY <1>1, <1>2, Kinds DEF OfType, WithWorker
<1>9. Exited(s) = {} /\ ~ToEnqueue(s) /\ ~Ended(s)
  BY <1>1, Kinds DEF Exited, ToEnqueue, Ended
<1>10. EndsCounted(s) /\ PostsCounted(s)
  <2>1. "none" \notin {"terminate"} /\ "none" \notin {"log", "flush"}
    OBVIOUS
  <2>2. /\ OfType(q, {"terminate"}) = {} /\ WithWorker(s, {"terminate"}) = {}
        /\ OfType(q, {"log", "flush"}) = {} /\ WithWorker(s, {"log", "flush"}) = {}
    BY <1>8, <2>1
  <2>3. Cardinality({}) = 0
    BY FS_EmptySet
  <2>7. posted = 0 /\ handled = 0 /\ overruns = 0 /\ terminates = 0
    BY <1>1
  <2>4. PostsCounted(s)
    BY <2>2, <2>3, <2>7 DEF PostsCounted
  <2>5. Cardinality(Exited(s)) = 0
    BY <1>9, <2>3
  <2>6. EndsCounted(s)
    BY <1>9, <2>2, <2>3, <2>5, <2>7 DEF EndsCounted
  <2> QED BY <2>4, <2>6
<1>11. AllEnd(s)
  BY <1>1, <1>9 DEF AllEnd
<1>12. InOrder(s)
  BY <1>1, <1>2, Kinds DEF InOrder, Earlier, Past
<1> QED BY <1>4, <1>5, <1>6, <1>7, <1>10, <1>11, <1>12 DEF PoolInv

LEMMA PostKeeps ==
    ASSUME NEW s, Setting(s), PoolInv(s), NEW c \in s.clients, NEW type \in {"log", "flush"},
           Pool(s)!Post(c, type)
    PROVE  PoolInv(s)'
<1> DEFINE m == [type |-> type, from |-> c, n |-> sent[c] + 1]
<1>1. /\ PoolType(s) /\ Posting(s) /\ OneEnds(s) /\ Holds(s) /\ EndsLast(s)
      /\ EndsCounted(s) /\ PostsCounted(s) /\ AllEnd(s)
  BY DEF PoolInv
<1>2. /\ pc[c] = "idle" /\ sent[c] < s.posts /\ sent' = [sent EXCEPT ![c] = @ + 1]
      /\ UNCHANGED <<q, overruns, terminates, wpc, held, file, posted, handled>>
  BY DEF Pool!Post, Pool!sink
<1>3. \/ owners = {} /\ UNCHANGED <<owners, pc, msg>>
      \/ /\ owners # {} /\ owners' = owners \union {c} /\ pc' = [pc EXCEPT ![c] = "try"]
         /\ msg' = [msg EXCEPT ![c] = m]
  BY DEF Pool!Post
<1>4. c \in ThreadsOf(s) /\ s.main \in ThreadsOf(s) /\ c # s.main
  BY DEF ThreadsOf, Setting
<1>5. m \in Message(s) /\ m.from = c /\ m.n = sent[c] + 1
  BY <1>1, <1>2 DEF PoolType, Message, Setting
<1> HIDE DEF m
<1>6. PoolType(s)'
  <2>1. sent' \in [s.clients -> 0..s.posts]
    BY <1>1, <1>2 DEF PoolType, Setting
  <2>2. /\ owners' \subseteq ThreadsOf(s)
        /\ pc' \in [ThreadsOf(s) -> {"idle", "try", "waiting", "notify", "join", "done"}]
        /\ msg' \in [ThreadsOf(s) -> Message(s) \union {Terminate, Nothing}]
    BY <1>1, <1>3, <1>4, <1>5, SMTT(60) DEF PoolType
  <2> QED BY <1>1, <1>2, <2>1, <2>2 DEF PoolType
<1>7. Posting(s)'
  <2>1. msg[c] = Nothing
    BY <1>1, <1>2, <1>4 DEF Posting
  <2>2. sent'[c] = sent[c] + 1 /\ \A d \in s.clients \ {c} : sent'[d] = sent[d]
    BY <1>1, <1>2 DEF PoolType
  <2>3. CASE owners = {}
    BY <1>1, <1>3, <2>1, <2>2, <2>3, Kinds DEF Posting
  <2>4. CASE owners # {}
    <3>1. /\ pc'[c] = "try" /\ msg'[c] = m
          /\ \A t \in ThreadsOf(s) \ {c} : pc'[t] = pc[t] /\ msg'[t] = msg[t]
      BY <1>1, <1>3, <1>4, <2>4 DEF PoolType
    <3> QED BY <1>1, <1>3, <1>4, <1>5, <2>2, <2>4, <3>1, Kinds DEF Posting, ThreadsOf
  <2> QED BY <2>3, <2>4
<1>8. OneEnds(s)' /\ ToEnqueue(s)' = ToEnqueue(s) /\ AllEnd(s)'
  <2>3. CASE owners = {}
    <3>1. UNCHANGED <<owners, pc, msg, terminates, wpc>>
      BY <1>2, <1>3, <2>3
    <3> QED BY <1>1, <3>1 DEF OneEnds, ToEnqueue, AllEnd, Ended
  <2>4. CASE owners # {}
    <3>1. /\ pc'[c] = "try" /\ msg'[c] = m
          /\ \A t \in ThreadsOf(s) \ {c} : pc'[t] = pc[t] /\ msg'[t] = msg[t]
      BY <1>1, <1>3, <1>4, <2>4 DEF PoolType
    <3>2. \A t \in ThreadsOf(s) : msg[t] # Terminate
      BY <1>1, <2>4 DEF OneEnds
    <3>3. \A t \in ThreadsOf(s) : msg'[t] # Terminate
      BY <1>5, <3>1, <3>2, Kinds
    <3>4. owners' # {} /\ terminates' = 0 /\ terminates = 0
      BY <1>1, <1>2, <1>3, <2>4 DEF OneEnds
    <3>5. ~ToEnqueue(s) /\ ~ToEnqueue(s)' /\ OneEnds(s)'
      BY <3>2, <3>3, <3>4 DEF ToEnqueue, OneEnds
    <3>6. \A t \in ThreadsOf(s) : pc'[t] # "join"
      BY <1>1, <3>1, <3>2 DEF Posting
    <3>7. ToEnqueue(s)' = ToEnqueue(s)
      BY <3>2, <3>3 DEF ToEnqueue
    <3>8. AllEnd(s)'
      BY <3>4, <3>6 DEF AllEnd, Ended
    <3> QED BY <3>5, <3>7, <3>8
  <2> QED BY <2>3, <2>4
<1>9. Holds(s)' /\ PostsCounted(s)' /\ EndsCounted(s)'
  BY <1>1, <1>2, <1>8 DEF Holds, PostsCounted, EndsCounted, OfType, WithWorker, Exited
<1>10. EndsLast(s)'
  <2>1. owners = {} => owners' = {}
    BY <1>3
  <2> QED BY <1>1, <1>2, <2>1 DEF EndsLast, Exiting
<1> QED BY <1>6, <1>7, <1>8, <1>9, <1>10 DEF PoolInv

(* What Enqueue does: a blocking thread waits for room; a message that does  *)
(* not block takes the place of the oldest.                                 *)
LEMMA EnqueueIs ==
    ASSUME NEW s, Setting(s), PoolInv(s), NEW t \in ThreadsOf(s), Pool(s)!Enqueue(t)
    PROVE  /\ pc[t] = "try" /\ msg[t] \in Message(s) \union {Terminate}
           /\ UNCHANGED <<owners, terminates, msg, wpc, held, file, sent, handled>>
           /\ \/ /\ Len(q) = s.size /\ pc' = [pc EXCEPT ![t] = "waiting"]
                 /\ UNCHANGED <<q, overruns, posted>>
              \/ /\ pc' = [pc EXCEPT ![t] = "notify"]
                 /\ posted' = IF msg[t] = Terminate THEN posted ELSE posted + 1
                 /\ \/ Len(q) < s.size /\ q' = Append(q, msg[t]) /\ UNCHANGED overruns
                    \/ /\ Len(q) = s.size /\ msg[t] # Terminate
                       /\ q' = Append(Tail(q), msg[t]) /\ overruns' = overruns + 1
<1>1. PoolType(s) /\ Posting(s)
  BY DEF PoolInv
<1>2. pc[t] = "try" /\ UNCHANGED <<owners, terminates, msg, wpc, held, file, sent, handled>>
  BY DEF Pool!Enqueue, Pool!sink
<1>3. msg[t] \in Message(s) \union {Terminate}
  <2>1. msg[t] \in Message(s) \union {Terminate, Nothing}
    BY <1>1 DEF PoolType
  <2>2. msg[t] # Nothing
    BY <1>1, <1>2 DEF Posting
  <2> QED BY <2>1, <2>2
<1>4. Len(q) \in Nat /\ Len(q) <= s.size /\ s.size \in Nat
  BY <1>1 DEF PoolType, Setting
<1>5. msg[t] = Terminate => Pool(s)!Blocks(t)
  BY Kinds DEF Pool!Blocks
<1>6. \/ /\ Pool(s)!Blocks(t) /\ Len(q) = s.size /\ pc' = [pc EXCEPT ![t] = "waiting"]
         /\ UNCHANGED <<q, overruns, posted>>
      \/ /\ ~(Pool(s)!Blocks(t) /\ Len(q) = s.size)
         /\ IF Len(q) = s.size THEN q' = Append(Tail(q), msg[t]) /\ overruns' = overruns + 1
                               ELSE q' = Append(q, msg[t]) /\ UNCHANGED overruns
         /\ posted' = IF msg[t] = Terminate THEN posted ELSE posted + 1
         /\ pc' = [pc EXCEPT ![t] = "notify"]
  BY Names DEF Pool!Enqueue, Pool!push_back
<1> QED BY <1>2, <1>3, <1>4, <1>5, <1>6

LEMMA EnqueueKeeps ==
    ASSUME NEW s, Setting(s), PoolInv(s), NEW t \in ThreadsOf(s), Pool(s)!Enqueue(t)
    PROVE  PoolInv(s)'
<1> DEFINE m == msg[t]
           M == Message(s) \union {Terminate}
<1>1. /\ PoolType(s) /\ Posting(s) /\ OneEnds(s) /\ Holds(s) /\ EndsLast(s)
      /\ EndsCounted(s) /\ PostsCounted(s) /\ AllEnd(s)
  BY DEF PoolInv
<1>2. /\ pc[t] = "try" /\ m \in M
      /\ UNCHANGED <<owners, terminates, msg, wpc, held, file, sent, handled>>
  BY EnqueueIs
<1>3. \/ /\ Len(q) = s.size /\ pc' = [pc EXCEPT ![t] = "waiting"]
         /\ UNCHANGED <<q, overruns, posted>>
      \/ /\ pc' = [pc EXCEPT ![t] = "notify"]
         /\ posted' = IF m = Terminate THEN posted ELSE posted + 1
         /\ \/ Len(q) < s.size /\ q' = Append(q, m) /\ UNCHANGED overruns
            \/ /\ Len(q) = s.size /\ m # Terminate
               /\ q' = Append(Tail(q), m) /\ overruns' = overruns + 1
  BY EnqueueIs
<1>4. s.size \in Nat \ {0} /\ q \in Seq(M) /\ Len(q) \in Nat /\ Len(q) <= s.size
  BY <1>1 DEF PoolType, Setting
<1> HIDE DEF m
(* The queue afterwards *)
<1>5. ASSUME Len(q) < s.size, q' = Append(q, m)
      PROVE  /\ q' \in Seq(M) /\ Len(q') = Len(q) + 1 /\ q'[Len(q) + 1] = m
             /\ \A i \in 1..Len(q) : q'[i] = q[i]
             /\ \A S : Cardinality(OfType(q', S)) = Cardinality(OfType(q, S)) + (IF m.type \in S THEN 1 ELSE 0)
  <2>1. \A S : Cardinality(OfType(q', S)) = Cardinality(OfType(q, S)) + (IF m.type \in S THEN 1 ELSE 0)
    BY <1>2, <1>4, <1>5, OfTypeAppend
  <2> QED BY <1>2, <1>4, <1>5, <2>1, Pushed
<1>6. ASSUME Len(q) = s.size, q' = Append(Tail(q), m)
      PROVE  /\ q' \in Seq(M) /\ Len(q') = Len(q) /\ q'[Len(q)] = m
             /\ \A i \in 1..(Len(q) - 1) : q'[i] = q[i + 1]
             /\ \A S : Cardinality(OfType(q', S)) = Cardinality(OfType(q, S)) + (IF m.type \in S THEN 1 ELSE 0)
                                                       - (IF q[1].type \in S THEN 1 ELSE 0)
  <2>1. q # <<>> /\ Tail(q) \in Seq(M)
    BY <1>2, <1>4, <1>6, Pushed
  <2>2. ASSUME NEW S
        PROVE  Cardinality(OfType(q', S)) = Cardinality(OfType(q, S)) + (IF m.type \in S THEN 1 ELSE 0)
                                              - (IF q[1].type \in S THEN 1 ELSE 0)
    <3>1. Cardinality(OfType(q', S)) = Cardinality(OfType(Tail(q), S)) + (IF m.type \in S THEN 1 ELSE 0)
      BY <1>2, <1>6, <2>1, OfTypeAppend, ZenonT(60)
    <3>2. Cardinality(OfType(q, S)) = Cardinality(OfType(Tail(q), S)) + (IF q[1].type \in S THEN 1 ELSE 0)
      BY <1>4, <2>1, OfTypeTail
    <3>3. Cardinality(OfType(q, S)) \in Nat /\ Cardinality(OfType(Tail(q), S)) \in Nat
      BY <1>4, <2>1, OfTypeFinite
    <3> QED BY <3>1, <3>2, <3>3
  <2>3. /\ q' \in Seq(M) /\ Len(q') = Len(q) /\ q'[Len(q)] = m
        /\ \A i \in 1..(Len(q) - 1) : q'[i] = q[i + 1]
    BY <1>2, <1>4, <1>6, Pushed
  <2> QED BY <2>2, <2>3
(* The threads afterwards *)
<1>7. /\ pc' \in [ThreadsOf(s) -> {"idle", "try", "waiting", "notify", "join", "done"}]
      /\ pc'[t] \in {"waiting", "notify"} /\ \A u \in ThreadsOf(s) \ {t} : pc'[u] = pc[u]
  BY <1>1, <1>3 DEF PoolType
<1>8. PoolType(s)'
  <2>1. q' \in Seq(M) /\ Len(q') <= s.size
    BY <1>3, <1>4, <1>5, <1>6
  <2>2. overruns' \in Nat /\ posted' \in Nat
    BY <1>1, <1>3 DEF PoolType
  <2> QED BY <1>1, <1>2, <1>7, <2>1, <2>2 DEF PoolType
<1>9. Posting(s)'
  <2>1. \A u \in ThreadsOf(s) :
           /\ pc'[u] \in {"idle", "done"} <=> pc[u] \in {"idle", "done"}
           /\ pc'[u] = "join" => pc[u] = "join"
           /\ pc'[u] = "done" => pc[u] = "done"
    BY <1>2, <1>7
  <2>2. \A c \in s.clients : c \in ThreadsOf(s)
    BY DEF ThreadsOf
  <2>3. s.main \in ThreadsOf(s) /\ msg' = msg /\ owners' = owners /\ sent' = sent /\ Posting(s)
    BY <1>1, <1>2 DEF ThreadsOf
  <2> QED BY <2>1, <2>2, <2>3 DEF Posting
<1>10. OneEnds(s)' /\ Holds(s)'
  BY <1>1, <1>2 DEF OneEnds, Holds
<1>11. AllEnd(s)'
  <2>1. (\E u \in ThreadsOf(s) : pc'[u] = "join") => (\E u \in ThreadsOf(s) : pc[u] = "join")
    BY <1>2, <1>7
  <2> QED BY <1>1, <1>2, <2>1 DEF AllEnd, Ended
<1>12. m = Terminate => owners = {}
  BY <1>1 DEF OneEnds, m
<1>13. m # Terminate => /\ owners # {} /\ m \in Message(s)
                        /\ \A i \in 1..Len(q) : q[i] # Terminate
                        /\ ~Exiting(s)
  <2>1. SUFFICES ASSUME m # Terminate PROVE owners # {} /\ m \in Message(s)
    BY <1>1 DEF EndsLast
  <2>2. m \in Message(s)
    BY <1>2, <2>1
  <2>3. t \in s.clients
    BY <1>1, <2>2 DEF Posting, ThreadsOf, m
  <2> QED BY <1>1, <2>2, <2>3 DEF Posting, m
<1>14. EndsLast(s)'
  <2>1. CASE UNCHANGED q
    BY <1>1, <1>2, <2>1 DEF EndsLast, Exiting
  <2>2. CASE Len(q) < s.size /\ q' = Append(q, m)
    BY <1>1, <1>2, <1>4, <1>5, <1>12, <1>13, <2>2 DEF EndsLast, Exiting
  <2>3. CASE Len(q) = s.size /\ m # Terminate /\ q' = Append(Tail(q), m)
    <3>1. Len(q') = Len(q) /\ \A i \in 1..Len(q) : q'[i] # Terminate
      BY <1>4, <1>6, <1>13, <2>3
    <3> QED BY <1>2, <1>13, <2>3, <3>1 DEF EndsLast, Exiting
  <2> QED BY <1>3, <2>1, <2>2, <2>3
<1>15. PostsCounted(s)' /\ EndsCounted(s)'
  <2>1. WithWorker(s, {"log", "flush"})' = WithWorker(s, {"log", "flush"})
        /\ WithWorker(s, {"terminate"})' = WithWorker(s, {"terminate"}) /\ Exited(s)' = Exited(s)
    BY <1>2 DEF WithWorker, Exited
  <2> DEFINE A == Cardinality(OfType(q, {"log", "flush"}))
             B == Cardinality(OfType(q, {"terminate"}))
  <2>2. A \in Nat /\ B \in Nat /\ Cardinality(WithWorker(s, {"log", "flush"})) \in Nat
        /\ Cardinality(WithWorker(s, {"terminate"})) \in Nat /\ Cardinality(Exited(s)) \in Nat
    BY <1>1, CountsAreNat
  <2>3. m = Terminate => m.type = "terminate"
    BY Kinds
  <2>4. m # Terminate => m.type \in {"log", "flush"}
    BY <1>13, Kinds
  <2>5. overruns \in Nat /\ posted \in Nat /\ handled \in Nat
    BY <1>1 DEF PoolType
  <2>6. ToEnqueue(s) <=> m = Terminate
    <3>1. m = Terminate => ToEnqueue(s)
      BY <1>2 DEF ToEnqueue, m
    <3>2. ToEnqueue(s) => m = Terminate
      BY <1>1, <1>13 DEF ToEnqueue, OneEnds
    <3> QED BY <3>1, <3>2
  <2>7. CASE UNCHANGED <<q, overruns, posted>> /\ pc' = [pc EXCEPT ![t] = "waiting"]
    <3>1. ToEnqueue(s)' <=> m = Terminate
      <4>1. pc'[t] = "waiting"
        BY <1>1, <2>7 DEF PoolType
      <4>2. m = Terminate => ToEnqueue(s)'
        BY <1>2, <4>1 DEF ToEnqueue, m
      <4>3. ToEnqueue(s)' => m = Terminate
        BY <1>1, <1>2, <1>13 DEF ToEnqueue, OneEnds
      <4> QED BY <4>2, <4>3
    <3>2. PostsCounted(s)'
      BY <1>1, <1>2, <2>1, <2>7 DEF PostsCounted
    <3>3. (IF ToEnqueue(s)' THEN 1 ELSE 0) = (IF ToEnqueue(s) THEN 1 ELSE 0)
      BY <2>6, <3>1
    <3>4. EndsCounted(s)'
      BY <1>1, <1>2, <2>1, <2>7, <3>3 DEF EndsCounted
    <3> QED BY <3>2, <3>4
  <2>8. CASE /\ pc' = [pc EXCEPT ![t] = "notify"]
             /\ posted' = IF m = Terminate THEN posted ELSE posted + 1
             /\ \/ Len(q) < s.size /\ q' = Append(q, m) /\ UNCHANGED overruns
                \/ /\ Len(q) = s.size /\ m # Terminate
                   /\ q' = Append(Tail(q), m) /\ overruns' = overruns + 1
    <3>1. ~ToEnqueue(s)'
      <4>1. pc'[t] = "notify"
        BY <1>1, <2>8 DEF PoolType
      <4>2. \A u \in ThreadsOf(s) : u # t => msg[u] # Terminate \/ owners # {}
        BY <1>1, <1>12, <1>13 DEF OneEnds, m
      <4>3. \A u \in ThreadsOf(s) : msg[u] = Terminate => u = t
        BY <1>1, <1>13 DEF OneEnds, m
      <4> QED BY <1>2, <4>1, <4>3 DEF ToEnqueue
    <3>2. PICK d \in {0, 1} :
             /\ overruns' = overruns + d
             /\ Cardinality(OfType(q', {"log", "flush"})) = A + (IF m = Terminate THEN 0 ELSE 1) - d
             /\ Cardinality(OfType(q', {"terminate"})) = B + (IF m = Terminate THEN 1 ELSE 0)
             /\ posted' = IF m = Terminate THEN posted ELSE posted + 1
      <4>1. m = Terminate => m.type \notin {"log", "flush"} /\ m.type \in {"terminate"}
        BY <2>3
      <4>2. m # Terminate => m.type \in {"log", "flush"} /\ m.type \notin {"terminate"}
        BY <2>4
      <4>3. CASE Len(q) < s.size /\ q' = Append(q, m) /\ UNCHANGED overruns
        <5>1. /\ Cardinality(OfType(q', {"log", "flush"})) = A + (IF m.type \in {"log", "flush"} THEN 1 ELSE 0)
              /\ Cardinality(OfType(q', {"terminate"})) = B + (IF m.type \in {"terminate"} THEN 1 ELSE 0)
          BY <1>5, <4>3
        <5>2. posted' = IF m = Terminate THEN posted ELSE posted + 1
          BY <2>8
        <5>3. overruns' = overruns + 0
          BY <2>5, <4>3
        <5> WITNESS 0 \in {0, 1}
        <5> HIDE DEF A, B
        <5> QED BY <2>2, <4>1, <4>2, <5>1, <5>2, <5>3
      <4>4. CASE Len(q) = s.size /\ m # Terminate /\ q' = Append(Tail(q), m) /\ overruns' = overruns + 1
        <5>1. /\ Cardinality(OfType(q', {"log", "flush"})) = A + (IF m.type \in {"log", "flush"} THEN 1 ELSE 0)
                                                            - (IF q[1].type \in {"log", "flush"} THEN 1 ELSE 0)
              /\ Cardinality(OfType(q', {"terminate"})) = B + (IF m.type \in {"terminate"} THEN 1 ELSE 0)
                                                         - (IF q[1].type \in {"terminate"} THEN 1 ELSE 0)
          BY <1>6, <4>4
        <5>2. q[1] \in Message(s)
          <6>1. 1 \in 1..Len(q)
            BY <1>4, <4>4
          <6>2. q[1] \in M /\ q[1] # Terminate
            BY <1>4, <1>13, <4>4, <6>1
          <6> QED BY <6>2
        <5>3. q[1].type \in {"log", "flush"} /\ q[1].type \notin {"terminate"}
          BY <5>2, Kinds
        <5>4. posted' = IF m = Terminate THEN posted ELSE posted + 1
          BY <2>8
        <5> WITNESS 1 \in {0, 1}
        <5> HIDE DEF A, B
        <5> QED BY <2>2, <4>2, <4>4, <5>1, <5>3, <5>4
      <4> QED BY <2>8, <4>3, <4>4
    <3> HIDE DEF A, B
    <3>3. PostsCounted(s)'
      <4>1. posted = handled + overruns + A + Cardinality(WithWorker(s, {"log", "flush"}))
        BY <1>1 DEF PostsCounted, A
      <4>2. posted' = handled + overruns' + Cardinality(OfType(q', {"log", "flush"}))
                        + Cardinality(WithWorker(s, {"log", "flush"}))
        BY <2>2, <2>5, <3>2, <4>1
      <4> QED BY <1>2, <2>1, <4>2 DEF PostsCounted
    <3>4. EndsCounted(s)'
      <4>1. terminates = B + Cardinality(WithWorker(s, {"terminate"})) + Cardinality(Exited(s))
                           + (IF m = Terminate THEN 1 ELSE 0)
        BY <1>1, <2>6 DEF EndsCounted, B
      <4>2. terminates = Cardinality(OfType(q', {"terminate"})) + Cardinality(WithWorker(s, {"terminate"}))
                           + Cardinality(Exited(s)) + 0
        BY <2>2, <3>2, <4>1
      <4> QED BY <1>2, <2>1, <3>1, <4>2 DEF EndsCounted
    <3> QED BY <3>3, <3>4
  <2> QED BY <1>3, <2>7, <2>8
<1> QED BY <1>8, <1>9, <1>10, <1>11, <1>14, <1>15 DEF PoolInv

(* A worker that waited looks at the queue again, or none does. *)
WorkersWoken(s) ==
    /\ wpc' \in [s.workers -> {"idle", "waiting", "notify", "work", "exit"}]
    /\ \A w \in s.workers : wpc'[w] = wpc[w] \/ (wpc[w] = "waiting" /\ wpc'[w] = "idle")

LEMMA WokenKeeps ==
    ASSUME NEW s, WorkersWoken(s), UNCHANGED held
    PROVE  /\ Holds(s) => Holds(s)'
           /\ Exited(s)' = Exited(s) /\ Exiting(s)' = Exiting(s)
           /\ \A S : WithWorker(s, S)' = WithWorker(s, S)
<1>1. \A w \in s.workers :
         /\ wpc'[w] = "exit" <=> wpc[w] = "exit"
         /\ wpc'[w] \in {"notify", "work"} <=> wpc[w] \in {"notify", "work"}
  BY DEF WorkersWoken
<1>2. Holds(s) => Holds(s)'
  BY <1>1 DEF Holds
<1>3. Exited(s)' = Exited(s)
  BY <1>1 DEF Exited
<1>4. Exiting(s)' = Exiting(s)
  BY <1>1 DEF Exiting
<1> QED BY <1>2, <1>3, <1>4 DEF WithWorker

(* An owner lets go of the pool; the last one has the terminate messages to  *)
(* post, and none was posted before.                                        *)
LEMMA ReleaseKeeps ==
    ASSUME NEW s, Setting(s), PoolInv(s), NEW t \in ThreadsOf(s), t \in owners,
           pc[t] \in {"idle", "notify"}, Pool(s)!Release(t), WorkersWoken(s),
           UNCHANGED <<q, overruns, held, file, sent, posted, handled>>
    PROVE  PoolInv(s)'
<1>1. /\ PoolType(s) /\ Posting(s) /\ OneEnds(s) /\ Holds(s) /\ EndsLast(s)
      /\ EndsCounted(s) /\ PostsCounted(s) /\ AllEnd(s)
  BY DEF PoolInv
<1>2. /\ owners' = owners \ {t}
      /\ owners' = {} => /\ pc' = [pc EXCEPT ![t] = "try"] /\ msg' = [msg EXCEPT ![t] = Terminate]
                         /\ terminates' = 1
      /\ owners' # {} => /\ pc' = [pc EXCEPT ![t] = IF t = s.main THEN "done" ELSE "idle"]
                         /\ msg' = [msg EXCEPT ![t] = Nothing] /\ UNCHANGED terminates
  BY Names DEF Pool!Release, Pool!After
<1>3. /\ terminates = 0 /\ owners # {}
      /\ \A u \in ThreadsOf(s) : msg[u] # Terminate /\ pc[u] # "join"
      /\ \A i \in 1..Len(q) : q[i] # Terminate
      /\ ~Exiting(s) /\ ~ToEnqueue(s)
  <2>1. owners # {}
    OBVIOUS
  <2>2. \A u \in ThreadsOf(s) : msg[u] # Terminate
    BY <1>1, <2>1 DEF OneEnds
  <2> QED BY <1>1, <2>1, <2>2 DEF OneEnds, Posting, EndsLast, ToEnqueue
<1>4. \A u \in ThreadsOf(s) \ {t} : pc'[u] = pc[u] /\ msg'[u] = msg[u]
  BY <1>1, <1>2 DEF PoolType
<1>5. /\ owners' = {} => pc'[t] = "try" /\ msg'[t] = Terminate
      /\ owners' # {} => pc'[t] = (IF t = s.main THEN "done" ELSE "idle") /\ msg'[t] = Nothing
  BY <1>1, <1>2 DEF PoolType
<1>6. Cardinality(s.workers) \in Nat \ {0}
  BY <1>1, CountsAreNat
<1>7. s.main \notin s.clients
  BY DEF Setting
<1>8. PoolType(s)'
  <2>1. terminates' \in Nat /\ terminates' <= Cardinality(s.workers)
    BY <1>2, <1>3, <1>6
  <2>2. /\ pc' \in [ThreadsOf(s) -> {"idle", "try", "waiting", "notify", "join", "done"}]
        /\ msg' \in [ThreadsOf(s) -> Message(s) \union {Terminate, Nothing}]
        /\ owners' \subseteq ThreadsOf(s)
    BY <1>1, <1>2 DEF PoolType
  <2> QED BY <1>1, <2>1, <2>2 DEF PoolType, WorkersWoken
<1>9. Posting(s)'
  <2>1. \A c \in s.clients : c \in ThreadsOf(s)
    BY DEF ThreadsOf
  <2>2. \A u \in ThreadsOf(s) : msg'[u] = Nothing <=> pc'[u] \in {"idle", "done"}
    BY <1>1, <1>4, <1>5, Kinds DEF Posting
  <2>3. \A c \in s.clients : pc'[c] # "done" /\ (msg'[c] \in Message(s) <=> c \in owners')
    BY <1>1, <1>2, <1>4, <1>5, <1>7, <2>1, Kinds DEF Posting
  <2>4. \A c \in s.clients : msg'[c] \in Message(s) => msg'[c].from = c /\ msg'[c].n = sent'[c]
    BY <1>1, <1>4, <1>5, <2>1, Kinds DEF Posting
  <2>5. msg'[s.main] \notin Message(s)
    BY <1>1, <1>4, <1>5, Kinds DEF Posting, ThreadsOf
  <2>6. \A u \in ThreadsOf(s) : pc'[u] # "join"
    BY <1>3, <1>4, <1>5
  <2> QED BY <2>2, <2>3, <2>4, <2>5, <2>6 DEF Posting
<1>10. OneEnds(s)'
  <2>1. terminates' = 0 <=> owners' # {}
    BY <1>2, <1>3
  <2>2. \A u \in ThreadsOf(s) : msg'[u] = Terminate => owners' = {} /\ u = t
    BY <1>3, <1>4, <1>5, Kinds
  <2> QED BY <2>1, <2>2 DEF OneEnds
<1>11. Holds(s)' /\ Exited(s)' = Exited(s) /\ Exiting(s)' = Exiting(s)
       /\ \A S : WithWorker(s, S)' = WithWorker(s, S)
  BY <1>1, WokenKeeps
<1>12. EndsLast(s)'
  BY <1>3, <1>11 DEF EndsLast
<1>13. PostsCounted(s)'
  BY <1>1, <1>11 DEF PostsCounted
<1>14. EndsCounted(s)'
  <2>1. terminates' = terminates + (IF owners' = {} THEN 1 ELSE 0)
    BY <1>2, <1>3
  <2>2. ToEnqueue(s)' <=> owners' = {}
    <3>1. owners' = {} => ToEnqueue(s)'
      BY <1>5 DEF ToEnqueue
    <3>2. owners' # {} => ~ToEnqueue(s)'
      BY <1>10 DEF OneEnds, ToEnqueue
    <3> QED BY <3>1, <3>2
  <2>3. /\ Cardinality(OfType(q, {"terminate"})) \in Nat
        /\ Cardinality(WithWorker(s, {"terminate"})) \in Nat /\ Cardinality(Exited(s)) \in Nat
    BY <1>1, CountsAreNat
  <2>4. terminates = Cardinality(OfType(q, {"terminate"})) + Cardinality(WithWorker(s, {"terminate"}))
                       + Cardinality(Exited(s))
    BY <1>1, <1>3, <2>3 DEF EndsCounted
  <2>5. (IF ToEnqueue(s)' THEN 1 ELSE 0) = (IF owners' = {} THEN 1 ELSE 0)
    BY <2>2
  <2>6. terminates' = Cardinality(OfType(q, {"terminate"})) + Cardinality(WithWorker(s, {"terminate"}))
                       + Cardinality(Exited(s)) + (IF ToEnqueue(s)' THEN 1 ELSE 0)
    BY <2>1, <2>4, <2>5
  <2>7. q' = q
    OBVIOUS
  <2> QED BY <1>11, <2>6, <2>7 DEF EndsCounted
<1>15. AllEnd(s)'
  <2>1. \A u \in ThreadsOf(s) : pc'[u] # "join"
    BY <1>3, <1>4, <1>5
  <2>2. ~Ended(s)'
    BY <1>5 DEF Ended
  <2> QED BY <2>1, <2>2 DEF AllEnd
<1> QED BY <1>8, <1>9, <1>10, <1>11, <1>12, <1>13, <1>14, <1>15 DEF PoolInv

LEMMA ShutdownKeeps ==
    ASSUME NEW s, Setting(s), PoolInv(s), Pool(s)!Shutdown
    PROVE  PoolInv(s)'
<1>1. /\ s.main \in ThreadsOf(s) /\ s.main \in owners /\ pc[s.main] = "idle" /\ Pool(s)!Release(s.main)
      /\ UNCHANGED <<q, overruns, wpc, held, file, sent, posted, handled>>
  BY DEF Pool!Shutdown, Pool!sink, ThreadsOf
<1>2. WorkersWoken(s)
  BY <1>1 DEF PoolInv, PoolType, WorkersWoken
<1> QED BY <1>1, <1>2, ReleaseKeeps

LEMMA NotifyKeeps ==
    ASSUME NEW s, Setting(s), PoolInv(s), NEW t \in ThreadsOf(s), Pool(s)!Notify(t)
    PROVE  PoolInv(s)'
<1>1. /\ PoolType(s) /\ Posting(s) /\ OneEnds(s) /\ Holds(s) /\ EndsLast(s)
      /\ EndsCounted(s) /\ PostsCounted(s) /\ AllEnd(s)
  BY DEF PoolInv
<1>2. pc[t] = "notify" /\ UNCHANGED <<q, overruns, held, file, sent, posted, handled>>
  BY DEF Pool!Notify, Pool!sink
<1>3. WorkersWoken(s)
  <2>1. Pool(s)!NotifyOne(wpc, wpc', "idle")
    BY DEF Pool!Notify
  <2> DEFINE X == {"idle", "waiting", "notify", "work", "exit"}
  <2>2. wpc \in [s.workers -> X] /\ "idle" \in X
    BY <1>1 DEF PoolType
  <2> HIDE DEF X
  <2>3. wpc' \in [s.workers -> X]
        /\ \A w \in s.workers : wpc'[w] = wpc[w] \/ (wpc[w] = "waiting" /\ wpc'[w] = "idle")
    BY <2>1, <2>2 DEF Pool!NotifyOne
  <2> QED BY <2>3 DEF WorkersWoken, X
<1>4. msg[t] \in Message(s) \union {Terminate}
  <2>1. msg[t] \in Message(s) \union {Terminate, Nothing}
    BY <1>1 DEF PoolType
  <2>2. msg[t] # Nothing
    BY <1>1, <1>2 DEF Posting
  <2> QED BY <2>1, <2>2
<1>5. CASE msg[t] # Terminate
  <2>1. t \in owners
    BY <1>1, <1>4, <1>5 DEF Posting, ThreadsOf
  <2>2. Pool(s)!Release(t)
    BY <1>5, Names DEF Pool!Notify
  <2> QED BY <1>2, <1>3, <2>1, <2>2, ReleaseKeeps
<1>6. CASE msg[t] = Terminate
  <2>1. /\ UNCHANGED <<owners, msg>>
        /\ \/ /\ terminates < Cardinality(s.workers)
              /\ pc' = [pc EXCEPT ![t] = "try"] /\ terminates' = terminates + 1
           \/ /\ terminates >= Cardinality(s.workers)
              /\ pc' = [pc EXCEPT ![t] = "join"] /\ UNCHANGED terminates
    <3>1. /\ UNCHANGED <<owners, msg>>
          /\ IF terminates < Cardinality(s.workers)
             THEN pc' = [pc EXCEPT ![t] = "try"] /\ terminates' = terminates + 1
             ELSE pc' = [pc EXCEPT ![t] = "join"] /\ UNCHANGED terminates
      BY <1>6, Names, SameCardinality DEF Pool!Notify
    <3>2. terminates \in Nat /\ Cardinality(s.workers) \in Nat
      BY <1>1, CountsAreNat DEF PoolType
    <3> QED BY <3>1, <3>2
  <2>2. owners = {} /\ \A u \in ThreadsOf(s) : msg[u] = Terminate => u = t
    BY <1>1, <1>6 DEF OneEnds
  <2>3. pc'[t] \in {"try", "join"} /\ \A u \in ThreadsOf(s) \ {t} : pc'[u] = pc[u]
    BY <1>1, <2>1 DEF PoolType
  <2>4. terminates \in Nat \ {0} /\ terminates <= Cardinality(s.workers) /\ Cardinality(s.workers) \in Nat
    BY <1>1, <2>2, CountsAreNat DEF PoolType, OneEnds
  <2>5. PoolType(s)'
    <3>1. pc' \in [ThreadsOf(s) -> {"idle", "try", "waiting", "notify", "join", "done"}]
      BY <1>1, <2>1 DEF PoolType
    <3>2. terminates' \in Nat /\ terminates' <= Cardinality(s.workers)
      BY <2>1, <2>4
    <3> QED BY <1>1, <1>2, <1>3, <2>1, <3>1, <3>2 DEF PoolType, WorkersWoken
  <2>6. Posting(s)'
    <3>1. \A u \in ThreadsOf(s) :
             /\ pc'[u] \in {"idle", "done"} <=> pc[u] \in {"idle", "done"}
             /\ pc'[u] = "join" => pc[u] = "join" \/ u = t
             /\ pc'[u] = "done" => pc[u] = "done"
      BY <1>2, <2>3
    <3>2. /\ \A c \in s.clients : c \in ThreadsOf(s)
          /\ UNCHANGED <<msg, owners, sent>> /\ Posting(s) /\ msg[t] = Terminate
      BY <1>1, <1>2, <1>6, <2>1 DEF ThreadsOf
    <3> QED BY <3>1, <3>2 DEF Posting
  <2>7. OneEnds(s)'
    BY <1>1, <2>1, <2>2, <2>4 DEF OneEnds
  <2>8. Holds(s)' /\ Exited(s)' = Exited(s) /\ Exiting(s)' = Exiting(s)
        /\ \A S : WithWorker(s, S)' = WithWorker(s, S)
    BY <1>1, <1>2, <1>3, WokenKeeps
  <2>9. EndsLast(s)' /\ PostsCounted(s)'
    BY <1>1, <1>2, <2>1, <2>8 DEF EndsLast, PostsCounted
  <2>10. EndsCounted(s)'
    <3>1. ~ToEnqueue(s)
      BY <1>2, <2>2 DEF ToEnqueue
    <3>2. ToEnqueue(s)' <=> pc'[t] = "try"
      BY <1>6, <2>1, <2>2, <2>3 DEF ToEnqueue
    <3>3. terminates' = terminates + (IF pc'[t] = "try" THEN 1 ELSE 0)
      BY <1>1, <2>1, <2>4 DEF PoolType
    <3>4. (IF ToEnqueue(s)' THEN 1 ELSE 0) = (IF pc'[t] = "try" THEN 1 ELSE 0)
      BY <3>2
    <3>5. /\ Cardinality(OfType(q, {"terminate"})) \in Nat
          /\ Cardinality(WithWorker(s, {"terminate"})) \in Nat /\ Cardinality(Exited(s)) \in Nat
      BY <1>1, CountsAreNat
    <3>6. terminates = Cardinality(OfType(q, {"terminate"})) + Cardinality(WithWorker(s, {"terminate"}))
                         + Cardinality(Exited(s))
      BY <1>1, <3>1, <3>5 DEF EndsCounted
    <3>7. terminates' = Cardinality(OfType(q, {"terminate"})) + Cardinality(WithWorker(s, {"terminate"}))
                         + Cardinality(Exited(s)) + (IF ToEnqueue(s)' THEN 1 ELSE 0)
      BY <3>3, <3>4, <3>6
    <3> QED BY <1>2, <2>8, <3>7 DEF EndsCounted
  <2>11. AllEnd(s)'
    <3>1. ~Ended(s)'
      BY <1>6, <2>1 DEF Ended
    <3>2. \A u \in ThreadsOf(s) : pc'[u] = "join" => u = t
      BY <1>1, <2>2, <2>3 DEF Posting
    <3>3. pc'[t] = "join" => terminates' = Cardinality(s.workers)
      BY <1>1, <2>1, <2>4 DEF PoolType
    <3> QED BY <3>1, <3>2, <3>3 DEF AllEnd
  <2> QED BY <2>5, <2>6, <2>7, <2>8, <2>9, <2>10, <2>11 DEF PoolInv
<1> QED BY <1>5, <1>6

LEMMA JoinKeeps ==
    ASSUME NEW s, Setting(s), PoolInv(s), NEW t \in ThreadsOf(s), Pool(s)!Join(t)
    PROVE  PoolInv(s)'
<1>1. /\ PoolType(s) /\ Posting(s) /\ OneEnds(s) /\ Holds(s) /\ EndsLast(s)
      /\ EndsCounted(s) /\ PostsCounted(s) /\ AllEnd(s)
  BY DEF PoolInv
<1>2. /\ pc[t] = "join" /\ (\A w \in s.workers : wpc[w] = "exit")
      /\ pc' = [pc EXCEPT ![t] = IF t = s.main THEN "done" ELSE "idle"]
      /\ msg' = [msg EXCEPT ![t] = Nothing]
      /\ UNCHANGED <<q, overruns, owners, terminates, wpc, held, file, sent, posted, handled>>
  BY Names DEF Pool!Join, Pool!After, Pool!pool, Pool!sink
<1>3. /\ msg[t] = Terminate /\ owners = {} /\ terminates = Cardinality(s.workers)
      /\ \A u \in ThreadsOf(s) : msg[u] = Terminate => u = t
  BY <1>1, <1>2 DEF Posting, OneEnds, AllEnd
<1>4. /\ pc'[t] = (IF t = s.main THEN "done" ELSE "idle") /\ msg'[t] = Nothing
      /\ \A u \in ThreadsOf(s) \ {t} : pc'[u] = pc[u] /\ msg'[u] = msg[u]
  BY <1>1, <1>2 DEF PoolType
<1>5. PoolType(s)'
  <2>1. /\ pc' \in [ThreadsOf(s) -> {"idle", "try", "waiting", "notify", "join", "done"}]
        /\ msg' \in [ThreadsOf(s) -> Message(s) \union {Terminate, Nothing}]
    BY <1>1, <1>2 DEF PoolType
  <2> QED BY <1>1, <1>2, <2>1 DEF PoolType
<1>6. Posting(s)'
  <2>1. (\A c \in s.clients : c \in ThreadsOf(s) /\ c # s.main) /\ s.main \in ThreadsOf(s)
    BY DEF ThreadsOf, Setting
  <2>2. \A u \in ThreadsOf(s) :
           /\ msg'[u] = Nothing <=> pc'[u] \in {"idle", "done"}
           /\ pc'[u] = "join" => msg'[u] = Terminate
    BY <1>1, <1>4 DEF Posting
  <2>3. \A c \in s.clients : pc'[c] # "done" /\ (msg'[c] \in Message(s) <=> c \in owners)
    BY <1>1, <1>3, <1>4, <2>1, Kinds DEF Posting
  <2>4. \A c \in s.clients : msg'[c] \in Message(s) => msg'[c].from = c /\ msg'[c].n = sent[c]
    BY <1>1, <1>4, <2>1, Kinds DEF Posting
  <2>5. msg'[s.main] \notin Message(s)
    BY <1>1, <1>4, <2>1, Kinds DEF Posting
  <2> QED BY <1>2, <2>2, <2>3, <2>4, <2>5 DEF Posting
<1>7. \A u \in ThreadsOf(s) : msg'[u] # Terminate /\ pc'[u] # "join"
  <2>1. \A u \in ThreadsOf(s) : msg'[u] # Terminate
    BY <1>3, <1>4, Kinds
  <2> QED BY <1>6, <2>1 DEF Posting
<1>8. OneEnds(s)'
  BY <1>1, <1>2, <1>7 DEF OneEnds
<1>9. Holds(s)' /\ EndsLast(s)' /\ PostsCounted(s)'
  BY <1>1, <1>2 DEF Holds, EndsLast, Exiting, PostsCounted, WithWorker, OfType
<1>10. EndsCounted(s)'
  <2>1. ~ToEnqueue(s)
    BY <1>2, <1>3 DEF ToEnqueue
  <2>2. ~ToEnqueue(s)'
    BY <1>7 DEF ToEnqueue
  <2>3. (IF ToEnqueue(s) THEN 1 ELSE 0) = (IF ToEnqueue(s)' THEN 1 ELSE 0)
    BY <2>1, <2>2
  <2> QED BY <1>1, <1>2, <2>3 DEF EndsCounted, WithWorker, Exited
<1>11. AllEnd(s)'
  BY <1>2, <1>3 DEF AllEnd
<1> QED BY <1>5, <1>6, <1>8, <1>9, <1>10, <1>11 DEF PoolInv

LEMMA DequeueKeeps ==
    ASSUME NEW s, Setting(s), PoolInv(s), NEW w \in s.workers, Pool(s)!Dequeue(w)
    PROVE  PoolInv(s)'
<1> DEFINE M == Message(s) \union {Terminate}
<1>1. /\ PoolType(s) /\ Posting(s) /\ OneEnds(s) /\ Holds(s) /\ EndsLast(s)
      /\ EndsCounted(s) /\ PostsCounted(s) /\ AllEnd(s)
  BY DEF PoolInv
<1>2. wpc[w] = "idle" /\ UNCHANGED <<overruns, owners, terminates, pc, msg, file, sent, posted, handled>>
  BY DEF Pool!Dequeue, Pool!sink
<1>3. held[w] = Nothing /\ held \in [s.workers -> M \union {Nothing}]
  BY <1>1, <1>2 DEF Holds, PoolType
<1>4. q \in Seq(M) /\ Len(q) \in Nat /\ Len(q) <= s.size /\ s.size \in Nat
  BY <1>1 DEF PoolType, Setting
<1>5. Posting(s)' /\ OneEnds(s)' /\ ToEnqueue(s)' = ToEnqueue(s) /\ Ended(s)' = Ended(s)
  BY <1>1, <1>2 DEF Posting, OneEnds, ToEnqueue, Ended
<1>6. ~Ended(s)
  BY <1>1, <1>2 DEF AllEnd
<1>7. AllEnd(s)'
  BY <1>1, <1>2, <1>5, <1>6 DEF AllEnd
<1>8. CASE q = <<>>
  <2>1. wpc' = [wpc EXCEPT ![w] = "waiting"] /\ UNCHANGED <<q, held>>
    BY <1>8 DEF Pool!Dequeue
  <2>2. /\ wpc' \in [s.workers -> {"idle", "waiting", "notify", "work", "exit"}]
        /\ wpc'[w] = "waiting" /\ \A v \in s.workers \ {w} : wpc'[v] = wpc[v]
    BY <1>1, <2>1 DEF PoolType
  <2>3. PoolType(s)'
    BY <1>1, <1>2, <2>1, <2>2 DEF PoolType
  <2>4. Holds(s)'
    BY <1>1, <1>3, <2>1, <2>2 DEF Holds
  <2>5. Exited(s)' = Exited(s) /\ Exiting(s)' = Exiting(s)
    BY <1>2, <2>1, <2>2 DEF Exited, Exiting
  <2>6. EndsLast(s)' /\ PostsCounted(s)' /\ EndsCounted(s)'
    BY <1>1, <1>2, <1>5, <2>1, <2>5 DEF EndsLast, PostsCounted, EndsCounted, WithWorker
  <2> QED BY <1>5, <1>7, <2>3, <2>4, <2>6 DEF PoolInv
<1>9. CASE q # <<>>
  <2> DEFINE x == q[1]
  <2>1. /\ wpc' = [wpc EXCEPT ![w] = "notify"] /\ held' = [held EXCEPT ![w] = x] /\ q' = Tail(q)
    BY <1>4, <1>9 DEF Pool!Dequeue
  <2>2. /\ wpc' \in [s.workers -> {"idle", "waiting", "notify", "work", "exit"}]
        /\ wpc'[w] = "notify" /\ \A v \in s.workers \ {w} : wpc'[v] = wpc[v]
    BY <1>1, <2>1 DEF PoolType
  <2>3. /\ q' \in Seq(M) /\ Len(q) > 0 /\ Len(q') = Len(q) - 1 /\ x \in M
        /\ \A i \in 1..(Len(q) - 1) : q'[i] = q[i + 1]
    BY <1>4, <1>9, <2>1, HeadTailProperties
  <2> HIDE DEF x
  <2>4. /\ held' \in [s.workers -> M \union {Nothing}]
        /\ held'[w] = x /\ \A v \in s.workers \ {w} : held'[v] = held[v]
    BY <1>3, <2>1, <2>3
  <2>5. x # Nothing
    BY <2>3, Kinds
  <2>6. PoolType(s)'
    BY <1>1, <1>2, <1>4, <2>2, <2>3, <2>4 DEF PoolType
  <2>7. Holds(s)'
    BY <1>1, <2>2, <2>4, <2>5 DEF Holds
  <2>8. EndsLast(s)'
    <3>1. x = Terminate => owners = {} /\ \A i \in 1..Len(q) : q[i] = Terminate
      <4>1. 1 \in 1..Len(q)
        BY <1>4, <2>3
      <4>2. \A i \in 1..Len(q) : i = 1 \/ 1 < i
        BY <1>4
      <4> QED BY <1>1, <4>1, <4>2 DEF EndsLast, x
    <3>2. Exiting(s)' => Exiting(s) \/ x = Terminate
      BY <2>2, <2>4 DEF Exiting
    <3>3. Exiting(s) => owners = {} /\ \A i \in 1..Len(q) : q[i] = Terminate
      BY <1>1 DEF EndsLast
    <3>4. \A i \in 1..Len(q') : i + 1 \in 1..Len(q) /\ q'[i] = q[i + 1]
      BY <1>4, <2>3
    <3>5. Exiting(s)' => owners' = {} /\ \A i \in 1..Len(q') : q'[i] = Terminate
      BY <1>2, <3>1, <3>2, <3>3, <3>4
    <3>6. \A i \in 1..Len(q') : q'[i] = Terminate => owners' = {}
      BY <1>1, <1>2, <3>4 DEF EndsLast
    <3>7. \A i, j \in 1..Len(q') : i < j /\ q'[i] = Terminate => q'[j] = Terminate
      <4>1. \A i, j \in 1..Len(q') : i < j => i + 1 < j + 1
        BY <1>4, <2>3
      <4> QED BY <1>1, <3>4, <4>1 DEF EndsLast
    <3> QED BY <3>5, <3>6, <3>7 DEF EndsLast
  <2>9. ASSUME NEW S, "none" \notin S
        PROVE  /\ Cardinality(WithWorker(s, S))' \in Int
               /\ Cardinality(OfType(q, S)) + Cardinality(WithWorker(s, S))
                    = Cardinality(OfType(q', S)) + Cardinality(WithWorker(s, S))'
    <3>1. Cardinality(WithWorker(s, S))'
             = Cardinality(WithWorker(s, S)) + (IF x.type \in S THEN 1 ELSE 0)
                                             - (IF held[w].type \in S THEN 1 ELSE 0)
      BY <1>1, <2>1, HeldUpdate
    <3>2. held[w].type \notin S
      BY <1>3, <2>9, Kinds
    <3>3. Cardinality(OfType(q, S)) = Cardinality(OfType(q', S)) + (IF x.type \in S THEN 1 ELSE 0)
      BY <1>4, <1>9, <2>1, OfTypeTail DEF x
    <3>4. Cardinality(OfType(q, S)) \in Nat /\ Cardinality(WithWorker(s, S)) \in Nat
      BY <1>1, CountsAreNat
    <3>5. Cardinality(OfType(q', S)) \in Nat
      BY <2>3, OfTypeFinite
    <3> QED BY <3>1, <3>2, <3>3, <3>4, <3>5
  <2>10. /\ Cardinality(OfType(q, {"log", "flush"})) + Cardinality(WithWorker(s, {"log", "flush"}))
              = Cardinality(OfType(q', {"log", "flush"})) + Cardinality(WithWorker(s, {"log", "flush"}))'
         /\ Cardinality(OfType(q, {"terminate"})) + Cardinality(WithWorker(s, {"terminate"}))
              = Cardinality(OfType(q', {"terminate"})) + Cardinality(WithWorker(s, {"terminate"}))'
         /\ Cardinality(WithWorker(s, {"log", "flush"}))' \in Int
         /\ Cardinality(WithWorker(s, {"terminate"}))' \in Int
    <3>1. "none" \notin {"log", "flush"} /\ "none" \notin {"terminate"}
      OBVIOUS
    <3> QED BY <2>9, <3>1
  <2>11. /\ Cardinality(OfType(q', {"log", "flush"})) \in Nat /\ Cardinality(OfType(q', {"terminate"})) \in Nat
         /\ Cardinality(OfType(q, {"log", "flush"})) \in Nat /\ Cardinality(OfType(q, {"terminate"})) \in Nat
         /\ Cardinality(WithWorker(s, {"log", "flush"})) \in Nat
         /\ Cardinality(WithWorker(s, {"terminate"})) \in Nat /\ Cardinality(Exited(s)) \in Nat
    BY <1>1, <1>4, <2>3, CountsAreNat, OfTypeFinite
  <2>12. PostsCounted(s)'
    <3>1. /\ posted = handled + overruns + Cardinality(OfType(q, {"log", "flush"}))
                        + Cardinality(WithWorker(s, {"log", "flush"}))
          /\ overruns \in Nat /\ handled \in Nat
      BY <1>1 DEF PostsCounted, PoolType
    <3>2. posted = handled + overruns + Cardinality(OfType(q', {"log", "flush"}))
                     + Cardinality(WithWorker(s, {"log", "flush"}))'
      BY <2>10, <2>11, <3>1
    <3> QED BY <1>2, <3>2 DEF PostsCounted
  <2>13. EndsCounted(s)'
    <3>1. Exited(s)' = Exited(s)
      BY <1>2, <2>2 DEF Exited
    <3>2. terminates = Cardinality(OfType(q, {"terminate"})) + Cardinality(WithWorker(s, {"terminate"}))
                         + Cardinality(Exited(s)) + (IF ToEnqueue(s) THEN 1 ELSE 0)
      BY <1>1 DEF EndsCounted
    <3>4. terminates = Cardinality(OfType(q', {"terminate"})) + Cardinality(WithWorker(s, {"terminate"}))'
                         + Cardinality(Exited(s)) + (IF ToEnqueue(s) THEN 1 ELSE 0)
      BY <2>10, <2>11, <3>2
    <3> QED BY <1>2, <1>5, <3>1, <3>4 DEF EndsCounted
  <2> QED BY <1>5, <1>7, <2>6, <2>7, <2>8, <2>12, <2>13 DEF PoolInv
<1> QED BY <1>8, <1>9

LEMMA TimeoutKeeps ==
    ASSUME NEW s, Setting(s), PoolInv(s), NEW w \in s.workers, Pool(s)!Timeout(w)
    PROVE  PoolInv(s)'
<1>1. /\ PoolType(s) /\ Posting(s) /\ OneEnds(s) /\ Holds(s) /\ EndsLast(s)
      /\ EndsCounted(s) /\ PostsCounted(s) /\ AllEnd(s)
  BY DEF PoolInv
<1>2. /\ wpc[w] = "waiting" /\ wpc' = [wpc EXCEPT ![w] = "idle"]
      /\ UNCHANGED <<q, overruns, owners, terminates, pc, msg, held, file, sent, posted, handled>>
  BY DEF Pool!Timeout, Pool!pool, Pool!sink
<1>3. WorkersWoken(s)
  BY <1>1, <1>2 DEF PoolType, WorkersWoken
<1>4. /\ Holds(s)' /\ Exited(s)' = Exited(s) /\ Exiting(s)' = Exiting(s)
      /\ \A S : WithWorker(s, S)' = WithWorker(s, S)
  BY <1>1, <1>2, <1>3, WokenKeeps
<1>5. PoolType(s)' /\ Posting(s)' /\ OneEnds(s)'
  BY <1>1, <1>2, <1>3 DEF PoolType, Posting, OneEnds, WorkersWoken
<1>6. EndsLast(s)' /\ PostsCounted(s)'
  BY <1>1, <1>2, <1>4 DEF EndsLast, PostsCounted
<1>7. ToEnqueue(s)' = ToEnqueue(s) /\ Ended(s)' = Ended(s)
  BY <1>2 DEF ToEnqueue, Ended
<1>8. EndsCounted(s)'
  BY <1>1, <1>2, <1>4, <1>7 DEF EndsCounted
<1>9. AllEnd(s)'
  BY <1>1, <1>2, <1>3, <1>7 DEF AllEnd, WorkersWoken
<1> QED BY <1>4, <1>5, <1>6, <1>8, <1>9 DEF PoolInv

LEMMA NotifyRoomKeeps ==
    ASSUME NEW s, Setting(s), PoolInv(s), NEW w \in s.workers, Pool(s)!NotifyRoom(w)
    PROVE  PoolInv(s)'
<1>1. /\ PoolType(s) /\ Posting(s) /\ OneEnds(s) /\ Holds(s) /\ EndsLast(s)
      /\ EndsCounted(s) /\ PostsCounted(s) /\ AllEnd(s)
  BY DEF PoolInv
<1>2. /\ wpc[w] = "notify" /\ wpc' = [wpc EXCEPT ![w] = "work"]
      /\ UNCHANGED <<q, overruns, owners, terminates, msg, held, file, sent, posted, handled>>
  BY DEF Pool!NotifyRoom, Pool!pool, Pool!sink
<1>3. /\ pc' \in [ThreadsOf(s) -> {"idle", "try", "waiting", "notify", "join", "done"}]
      /\ \A t \in ThreadsOf(s) : pc'[t] = pc[t] \/ (pc[t] = "waiting" /\ pc'[t] = "try")
  <2>1. Pool(s)!NotifyOne(pc, pc', "try")
    BY DEF Pool!NotifyRoom
  <2> DEFINE X == {"idle", "try", "waiting", "notify", "join", "done"}
  <2>2. pc \in [ThreadsOf(s) -> X] /\ "try" \in X
    BY <1>1 DEF PoolType
  <2> HIDE DEF X
  <2>3. pc' \in [ThreadsOf(s) -> X]
        /\ \A t \in ThreadsOf(s) : pc'[t] = pc[t] \/ (pc[t] = "waiting" /\ pc'[t] = "try")
    BY <2>1, <2>2 DEF Pool!NotifyOne
  <2> QED BY <2>3 DEF X
<1>4. \A t \in ThreadsOf(s) :
         /\ pc'[t] \in {"idle", "done"} <=> pc[t] \in {"idle", "done"}
         /\ pc'[t] \in {"try", "waiting"} <=> pc[t] \in {"try", "waiting"}
         /\ pc'[t] = "join" <=> pc[t] = "join"
         /\ pc'[t] = "done" <=> pc[t] = "done"
  BY <1>3
<1>5. /\ wpc' \in [s.workers -> {"idle", "waiting", "notify", "work", "exit"}]
      /\ wpc'[w] = "work" /\ \A v \in s.workers \ {w} : wpc'[v] = wpc[v]
  BY <1>1, <1>2 DEF PoolType
<1>6. PoolType(s)'
  BY <1>1, <1>2, <1>3, <1>5 DEF PoolType
<1>7. Posting(s)'
  <2>1. \A c \in s.clients : c \in ThreadsOf(s)
    BY DEF ThreadsOf
  <2> QED BY <1>1, <1>2, <1>4, <2>1 DEF Posting
<1>8. OneEnds(s)'
  BY <1>1, <1>2 DEF OneEnds
<1>9. \A v \in s.workers :
         /\ wpc'[v] = "exit" <=> wpc[v] = "exit"
         /\ wpc'[v] \in {"notify", "work"} <=> wpc[v] \in {"notify", "work"}
  BY <1>2, <1>5
<1>10. Holds(s)'
  BY <1>1, <1>2, <1>9 DEF Holds
<1>11. Exited(s)' = Exited(s) /\ Exiting(s)' = Exiting(s)
  BY <1>2, <1>9 DEF Exited, Exiting
<1>12. EndsLast(s)' /\ PostsCounted(s)'
  BY <1>1, <1>2, <1>11 DEF EndsLast, PostsCounted, WithWorker
<1>13. ToEnqueue(s)' = ToEnqueue(s) /\ Ended(s)' = Ended(s)
  BY <1>2, <1>4 DEF ToEnqueue, Ended
<1>14. EndsCounted(s)'
  BY <1>1, <1>2, <1>11, <1>13 DEF EndsCounted, WithWorker
<1>15. AllEnd(s)'
  BY <1>1, <1>2, <1>4, <1>9, <1>13 DEF AllEnd
<1> QED BY <1>6, <1>7, <1>8, <1>10, <1>12, <1>14, <1>15 DEF PoolInv

LEMMA ProcessKeeps ==
    ASSUME NEW s, Setting(s), PoolInv(s), NEW w \in s.workers, Pool(s)!Process(w)
    PROVE  PoolInv(s)'
<1> DEFINE x == held[w]
<1>1. /\ PoolType(s) /\ Posting(s) /\ OneEnds(s) /\ Holds(s) /\ EndsLast(s)
      /\ EndsCounted(s) /\ PostsCounted(s) /\ AllEnd(s)
  BY DEF PoolInv
<1>2. /\ wpc[w] = "work" /\ held' = [held EXCEPT ![w] = Nothing]
      /\ UNCHANGED <<q, overruns, owners, terminates, pc, msg, sent, posted>>
  BY Names DEF Pool!Process, Pool!pool
<1>3. x \in Message(s) \union {Terminate}
  <2>1. x \in Message(s) \union {Terminate, Nothing}
    BY <1>1 DEF PoolType
  <2>2. x # Nothing
    BY <1>1, <1>2 DEF Holds
  <2> QED BY <2>1, <2>2
<1>4. \/ /\ x = Terminate /\ wpc' = [wpc EXCEPT ![w] = "exit"] /\ UNCHANGED <<file, handled>>
      \/ /\ x # Terminate /\ wpc' = [wpc EXCEPT ![w] = "idle"] /\ handled' = handled + 1
         /\ file' = file \/ file' = Append(file, x)
  BY Names DEF Pool!Process, Pool!sink
<1> HIDE DEF x
<1>5. /\ held' \in [s.workers -> Message(s) \union {Terminate, Nothing}]
      /\ held'[w] = Nothing /\ \A v \in s.workers \ {w} : held'[v] = held[v]
  BY <1>1, <1>2 DEF PoolType
<1>6. /\ wpc' \in [s.workers -> {"idle", "waiting", "notify", "work", "exit"}]
      /\ wpc'[w] = (IF x = Terminate THEN "exit" ELSE "idle")
      /\ \A v \in s.workers \ {w} : wpc'[v] = wpc[v]
  BY <1>1, <1>4 DEF PoolType
<1>7. PoolType(s)'
  <2>1. file' \in Seq(Message(s)) /\ handled' \in Nat
    <3>1. CASE x = Terminate
      BY <1>1, <1>4, <3>1 DEF PoolType
    <3>2. CASE x # Terminate
      <4>1. x \in Message(s) /\ file \in Seq(Message(s)) /\ handled \in Nat
        BY <1>1, <1>3, <3>2 DEF PoolType
      <4>2. Append(file, x) \in Seq(Message(s))
        BY <4>1, AppendIs
      <4> QED BY <1>4, <3>2, <4>1, <4>2
    <3> QED BY <3>1, <3>2
  <2> QED BY <1>1, <1>2, <1>5, <1>6, <2>1 DEF PoolType
<1>8. Posting(s)' /\ OneEnds(s)' /\ ToEnqueue(s)' = ToEnqueue(s) /\ Ended(s)' = Ended(s)
  BY <1>1, <1>2 DEF Posting, OneEnds, ToEnqueue, Ended
<1>9. Holds(s)'
  BY <1>1, <1>5, <1>6 DEF Holds
<1>10. EndsLast(s)'
  <2>1. Exiting(s)' => Exiting(s)
    BY <1>5, <1>6, Kinds DEF Exiting, x
  <2> QED BY <1>1, <1>2, <2>1 DEF EndsLast
<1>11. AllEnd(s)'
  <2>1. ~Ended(s)
    BY <1>1, <1>2 DEF AllEnd
  <2> QED BY <1>1, <1>2, <1>8, <2>1 DEF AllEnd
<1>12. ASSUME NEW S, "none" \notin S
       PROVE  Cardinality(WithWorker(s, S))'
                = Cardinality(WithWorker(s, S)) - (IF x.type \in S THEN 1 ELSE 0)
  <2>1. Cardinality(WithWorker(s, S))'
           = Cardinality(WithWorker(s, S)) + (IF Nothing.type \in S THEN 1 ELSE 0)
                                           - (IF held[w].type \in S THEN 1 ELSE 0)
    BY <1>1, <1>2, HeldUpdate
  <2>2. Cardinality(WithWorker(s, S)) \in Nat
    BY <1>1, CountsAreNat
  <2> QED BY <1>12, <2>1, <2>2, Kinds DEF x
<1>13. /\ "none" \notin {"log", "flush"} /\ "none" \notin {"terminate"}
       /\ x = Terminate => x.type \in {"terminate"} /\ x.type \notin {"log", "flush"}
       /\ x # Terminate => x.type \notin {"terminate"} /\ x.type \in {"log", "flush"}
  BY <1>3, Kinds
<1>14. /\ Cardinality(WithWorker(s, {"log", "flush"}))'
            = Cardinality(WithWorker(s, {"log", "flush"})) - (IF x = Terminate THEN 0 ELSE 1)
       /\ Cardinality(WithWorker(s, {"terminate"}))'
            = Cardinality(WithWorker(s, {"terminate"})) - (IF x = Terminate THEN 1 ELSE 0)
  BY <1>12, <1>13
<1>15. /\ Cardinality(OfType(q, {"log", "flush"})) \in Nat /\ Cardinality(OfType(q, {"terminate"})) \in Nat
       /\ Cardinality(WithWorker(s, {"log", "flush"})) \in Nat
       /\ Cardinality(WithWorker(s, {"terminate"})) \in Nat
       /\ Cardinality(Exited(s)) \in Nat /\ IsFiniteSet(Exited(s))
  BY <1>1, CountsAreNat
<1>16. PostsCounted(s)'
  <2>1. /\ posted = handled + overruns + Cardinality(OfType(q, {"log", "flush"}))
                      + Cardinality(WithWorker(s, {"log", "flush"}))
        /\ overruns \in Nat /\ handled \in Nat
    BY <1>1 DEF PostsCounted, PoolType
  <2>2. handled' = handled + (IF x = Terminate THEN 0 ELSE 1)
    BY <1>4, <2>1
  <2>3. posted = handled' + overruns + Cardinality(OfType(q, {"log", "flush"}))
                   + Cardinality(WithWorker(s, {"log", "flush"}))'
    BY <1>14, <1>15, <2>1, <2>2
  <2> QED BY <1>2, <2>3 DEF PostsCounted
<1>17. EndsCounted(s)'
  <2>1. Cardinality(Exited(s))' = Cardinality(Exited(s)) + (IF x = Terminate THEN 1 ELSE 0)
    <3>1. w \notin Exited(s)
      BY <1>2 DEF Exited
    <3>2. Exited(s)' = IF x = Terminate THEN Exited(s) \union {w} ELSE Exited(s)
      BY <1>2, <1>6 DEF Exited
    <3>3. Cardinality(Exited(s) \union {w}) = Cardinality(Exited(s)) + 1
      BY <1>15, <3>1, FS_AddElement
    <3> QED BY <1>15, <3>2, <3>3
  <2>2. terminates = Cardinality(OfType(q, {"terminate"})) + Cardinality(WithWorker(s, {"terminate"}))
                       + Cardinality(Exited(s)) + (IF ToEnqueue(s) THEN 1 ELSE 0)
    BY <1>1 DEF EndsCounted
  <2>3. terminates = Cardinality(OfType(q, {"terminate"})) + Cardinality(WithWorker(s, {"terminate"}))'
                       + Cardinality(Exited(s))' + (IF ToEnqueue(s) THEN 1 ELSE 0)
    BY <1>14, <1>15, <2>1, <2>2
  <2> QED BY <1>2, <1>8, <2>3 DEF EndsCounted
<1> QED BY <1>7, <1>8, <1>9, <1>10, <1>11, <1>16, <1>17 DEF PoolInv

-----------------------------------------------------------------------------
(* The order in which one worker writes. *)

Alone(s) == \A v, w \in s.workers : v = w

(* Steps that move no message: no more is begun than before, or more is.     *)
LEMMA BegunGrows ==
    ASSUME NEW s, InOrder(s), UNCHANGED <<q, held, file>>, PoolType(s),
           \A c \in s.clients : Begun(s)[c] \in Int /\ Begun(s)'[c] \in Int /\ Begun(s)[c] <= Begun(s)'[c]
    PROVE  InOrder(s)'
<1>1. ASSUME NEW m, Past(s, m) PROVE Past(s, m)'
  <2>1. m \in Message(s) => m.from \in s.clients /\ m.n \in Nat
    BY Kinds
  <2> QED BY <1>1, <2>1 DEF Past
<1>2. /\ \A i, j \in 1..Len(file) : i < j => Earlier(s, file[i], file[j])
      /\ \A i \in 1..Len(file), w \in s.workers : Earlier(s, file[i], held[w])
      /\ \A i \in 1..Len(file), j \in 1..Len(q) : Earlier(s, file[i], q[j])
      /\ \A w \in s.workers, j \in 1..Len(q) : Earlier(s, held[w], q[j])
      /\ \A i, j \in 1..Len(q) : i < j => Earlier(s, q[i], q[j])
  BY DEF InOrder
<1>3. /\ \A i \in 1..Len(file) : Past(s, file[i])
      /\ \A w \in s.workers : Past(s, held[w])
      /\ \A i \in 1..Len(q) : Past(s, q[i])
  BY DEF InOrder
<1>4. /\ \A i \in 1..Len(file) : Past(s, file[i])'
      /\ \A w \in s.workers : Past(s, held[w])'
      /\ \A i \in 1..Len(q) : Past(s, q[i])'
  <2>1. /\ \A i \in 1..Len(file) : file'[i] = file[i] /\ \A w \in s.workers : held'[w] = held[w]
        /\ \A i \in 1..Len(q) : q'[i] = q[i]
    OBVIOUS
  <2> QED BY <1>1, <1>3, <2>1 DEF Past
<1> QED BY <1>2, <1>4 DEF InOrder, Earlier

(* What is with the threads: how much of it c has begun to put in the queue. *)
LEMMA BegunIs ==
    ASSUME NEW s, PoolType(s), NEW c \in s.clients
    PROVE  Begun(s)[c] \in Int /\ sent[c] - 1 <= Begun(s)[c] /\ Begun(s)[c] <= sent[c]
<1>1. sent[c] \in Int
  BY DEF PoolType
<1> QED BY <1>1 DEF Begun

LEMMA MovesNothing ==
    ASSUME NEW s, Setting(s), PoolInv(s), InOrder(s), [Pool(s)!Next]_(Pool(s)!vars),
           ~(\E t \in ThreadsOf(s) : Pool(s)!Enqueue(t)),
           ~(\E w \in s.workers : Pool(s)!Dequeue(w) \/ Pool(s)!Process(w))
    PROVE  InOrder(s)'
<1>1. PoolType(s) /\ Posting(s) /\ OneEnds(s)
  BY DEF PoolInv
<1>2. \A c \in s.clients : c \in ThreadsOf(s) /\ sent[c] \in Int
  BY <1>1 DEF ThreadsOf, PoolType
<1>3. ASSUME NEW c \in s.clients, NEW type \in {"log", "flush"}, Pool(s)!Post(c, type)
      PROVE  InOrder(s)'
  <2>1. /\ pc[c] = "idle" /\ sent' = [sent EXCEPT ![c] = @ + 1] /\ UNCHANGED <<q, held, file>>
        /\ \/ UNCHANGED <<pc, msg>>
           \/ pc' = [pc EXCEPT ![c] = "try"] /\ \E m : msg' = [msg EXCEPT ![c] = m]
    BY <1>3 DEF Pool!Post, Pool!sink
  <2>2. /\ Begun(s)[c] = sent[c] /\ sent'[c] = sent[c] + 1
        /\ \A d \in s.clients \ {c} : sent'[d] = sent[d] /\ pc'[d] = pc[d] /\ msg'[d] = msg[d]
    BY <1>1, <1>2, <2>1 DEF PoolType, Begun
  <2>3. \A d \in s.clients \ {c} : Begun(s)'[d] = Begun(s)[d]
    BY <2>2 DEF Begun
  <2>4. Begun(s)'[c] \in {sent[c], sent[c] + 1}
    BY <1>2, <2>2 DEF Begun
  <2>5. \A d \in s.clients : Begun(s)[d] \in Int /\ Begun(s)'[d] \in Int /\ Begun(s)[d] <= Begun(s)'[d]
    BY <1>1, <1>2, <2>2, <2>3, <2>4, BegunIs
  <2> QED BY <1>1, <2>1, <2>5, BegunGrows
<1>4. ASSUME UNCHANGED <<q, held, file, sent>>,
             \A c \in s.clients :
                pc'[c] \in {"try", "waiting"} /\ msg'[c] # Terminate
                  => pc[c] \in {"try", "waiting"} /\ msg[c] # Terminate
      PROVE  InOrder(s)'
  <2>1. \A c \in s.clients : Begun(s)'[c] \in Int /\ Begun(s)[c] <= Begun(s)'[c]
    BY <1>2, <1>4 DEF Begun
  <2> QED BY <1>1, <1>4, <2>1, BegunIs, BegunGrows
<1>5. ASSUME NEW t \in ThreadsOf(s), Pool(s)!Release(t), t \in owners, UNCHANGED <<q, held, file, sent>>
      PROVE  InOrder(s)'
  <2>1. \/ pc' = [pc EXCEPT ![t] = "try"] /\ msg' = [msg EXCEPT ![t] = Terminate]
        \/ /\ pc' = [pc EXCEPT ![t] = IF t = s.main THEN "done" ELSE "idle"]
           /\ msg' = [msg EXCEPT ![t] = Nothing]
    BY <1>5, Names DEF Pool!Release, Pool!After
  <2>2. /\ \A u \in ThreadsOf(s) \ {t} : pc'[u] = pc[u] /\ msg'[u] = msg[u]
        /\ msg'[t] = Terminate \/ pc'[t] \in {"done", "idle"}
    BY <1>1, <2>1 DEF PoolType
  <2> QED BY <1>2, <1>4, <1>5, <2>2
<1>6. ASSUME NEW t \in ThreadsOf(s), Pool(s)!Notify(t)
      PROVE  InOrder(s)'
  <2>1. pc[t] = "notify" /\ UNCHANGED <<q, held, file, sent>>
    BY <1>6 DEF Pool!Notify, Pool!sink
  <2>2. CASE msg[t] # Terminate
    <3>1. Pool(s)!Release(t)
      BY <1>6, <2>2, Names DEF Pool!Notify
    <3>2. msg[t] \in Message(s)
      <4>1. msg[t] \in Message(s) \union {Terminate, Nothing} /\ msg[t] # Nothing
        BY <1>1, <2>1 DEF PoolType, Posting
      <4> QED BY <2>2, <4>1
    <3>3. t \in owners
      BY <1>1, <3>2 DEF Posting, ThreadsOf
    <3> QED BY <1>5, <2>1, <3>1, <3>3
  <2>3. CASE msg[t] = Terminate
    <3>1. UNCHANGED msg /\ (pc' = [pc EXCEPT ![t] = "try"] \/ pc' = [pc EXCEPT ![t] = "join"])
      BY <1>6, <2>3, Names DEF Pool!Notify
    <3>2. msg'[t] = Terminate /\ \A u \in ThreadsOf(s) \ {t} : pc'[u] = pc[u] /\ msg'[u] = msg[u]
      BY <1>1, <2>3, <3>1 DEF PoolType
    <3> QED BY <1>2, <1>4, <2>1, <3>2
  <2> QED BY <2>2, <2>3
<1>7. ASSUME NEW t \in ThreadsOf(s), Pool(s)!Join(t)
      PROVE  InOrder(s)'
  <2>1. /\ pc' = [pc EXCEPT ![t] = IF t = s.main THEN "done" ELSE "idle"]
        /\ msg' = [msg EXCEPT ![t] = Nothing] /\ UNCHANGED <<q, held, file, sent>>
    BY <1>7, Names DEF Pool!Join, Pool!After, Pool!pool, Pool!sink
  <2>2. /\ pc'[t] \in {"done", "idle"}
        /\ \A u \in ThreadsOf(s) \ {t} : pc'[u] = pc[u] /\ msg'[u] = msg[u]
    BY <1>1, <2>1 DEF PoolType
  <2> QED BY <1>2, <1>4, <2>1, <2>2
<1>8. CASE Pool(s)!Shutdown
  BY <1>5, <1>8 DEF Pool!Shutdown, Pool!sink, ThreadsOf
<1>9. ASSUME NEW w \in s.workers, Pool(s)!Timeout(w)
      PROVE  InOrder(s)'
  BY <1>4, <1>9 DEF Pool!Timeout, Pool!pool, Pool!sink
<1>10. ASSUME NEW w \in s.workers, Pool(s)!NotifyRoom(w)
       PROVE  InOrder(s)'
  <2>1. Pool(s)!NotifyOne(pc, pc', "try") /\ UNCHANGED <<q, held, file, sent, msg>>
    BY <1>10 DEF Pool!NotifyRoom, Pool!pool, Pool!sink
  <2>2. \A t \in ThreadsOf(s) : pc'[t] = pc[t] \/ pc[t] = "waiting"
    BY <1>1, <2>1 DEF Pool!NotifyOne, PoolType
  <2> QED BY <1>2, <1>4, <2>1, <2>2
<1>11. CASE UNCHANGED Pool(s)!vars
  BY <1>4, <1>11 DEF Pool!vars, Pool!pool, Pool!sink
<1> QED BY <1>3, <1>6, <1>7, <1>8, <1>9, <1>10, <1>11, Names DEF Pool!Next

LEMMA EnqueueInOrder ==
    ASSUME NEW s, Setting(s), PoolInv(s), InOrder(s), NEW t \in ThreadsOf(s), Pool(s)!Enqueue(t)
    PROVE  InOrder(s)'
<1> DEFINE m == msg[t]
           M == Message(s) \union {Terminate}
<1>1. PoolType(s) /\ Posting(s)
  BY DEF PoolInv
<1>2. pc[t] = "try" /\ m \in M /\ UNCHANGED <<msg, held, file, sent>>
  BY EnqueueIs
<1>3. \/ pc' = [pc EXCEPT ![t] = "waiting"] /\ UNCHANGED q
      \/ /\ pc' = [pc EXCEPT ![t] = "notify"]
         /\ \/ Len(q) < s.size /\ q' = Append(q, m)
            \/ Len(q) = s.size /\ q' = Append(Tail(q), m)
  BY EnqueueIs
<1>4. s.size \in Nat \ {0} /\ q \in Seq(M) /\ Len(q) \in Nat /\ Len(q) <= s.size
  BY <1>1 DEF PoolType, Setting
<1>5. pc'[t] \in {"waiting", "notify"} /\ \A u \in ThreadsOf(s) \ {t} : pc'[u] = pc[u]
  BY <1>1, <1>3 DEF PoolType
<1>6. \A c \in s.clients : c \in ThreadsOf(s) /\ sent[c] \in Int
  BY <1>1 DEF ThreadsOf, PoolType
<1>7. \A c \in s.clients : Begun(s)[c] \in Int /\ Begun(s)'[c] \in Int /\ Begun(s)[c] <= Begun(s)'[c]
  <2>1. \A c \in s.clients : Begun(s)[c] \in Int
    BY <1>1, BegunIs
  <2>2. \A c \in s.clients : Begun(s)'[c] \in Int /\ Begun(s)[c] <= Begun(s)'[c]
    BY <1>2, <1>5, <1>6 DEF Begun
  <2> QED BY <2>1, <2>2
<1>8. CASE UNCHANGED q
  BY <1>1, <1>2, <1>7, <1>8, BegunGrows
<1>9. CASE pc' = [pc EXCEPT ![t] = "notify"] /\ ~UNCHANGED q
(* The message is later than all that its thread has begun before. *)
  <2>1. m \in Message(s) => /\ m.from = t /\ t \in s.clients /\ m.n = sent[t]
                           /\ Begun(s)[t] = sent[t] - 1 /\ Begun(s)'[t] = sent[t]
    <3>1. SUFFICES ASSUME m \in Message(s)
                   PROVE  m.from = t /\ t \in s.clients /\ m.n = sent[t]
                          /\ Begun(s)[t] = sent[t] - 1 /\ Begun(s)'[t] = sent[t]
      OBVIOUS
    <3>2. t \in s.clients
      BY <1>1, <3>1 DEF Posting, ThreadsOf
    <3>3. m # Terminate
      BY <3>1, Kinds
    <3>4. pc'[t] = "notify"
      BY <1>1, <1>9 DEF PoolType
    <3> QED BY <1>1, <1>2, <3>1, <3>2, <3>3, <3>4 DEF Posting, Begun
  <2>2. /\ Past(s, m)' /\ \A a : Past(s, a) => Earlier(s, a, m)
        /\ \A a : Past(s, a) => Past(s, a)'
    <3>1. \A a \in Message(s) : a.from \in s.clients /\ a.n \in Nat
      BY Kinds
    <3> HIDE DEF m
    <3>2. Past(s, m)'
      <4>1. m' = m
        BY <1>2 DEF m
      <4> QED BY <1>6, <2>1, <4>1 DEF Past
    <3>3. \A a : Past(s, a) => Earlier(s, a, m)
      BY <1>6, <2>1, <3>1 DEF Past, Earlier
    <3>4. \A a : Past(s, a) => Past(s, a)'
      BY <1>7, <3>1 DEF Past
    <3> QED BY <3>2, <3>3, <3>4
  <2> HIDE DEF m
(* What was in the queue keeps its order, and is before the message. *)
  <2>3. PICK k \in {0, 1} :
           /\ Len(q') \in Nat /\ Len(q') >= 1 /\ Len(q') - 1 + k <= Len(q) /\ q'[Len(q')] = m
           /\ \A i \in 1..(Len(q') - 1) : i + k \in 1..Len(q) /\ q'[i] = q[i + k]
    <3>1. CASE Len(q) < s.size /\ q' = Append(q, m)
      <4>1. Len(q') = Len(q) + 1 /\ q'[Len(q) + 1] = m /\ \A i \in 1..Len(q) : q'[i] = q[i]
        BY <1>2, <1>4, <3>1, Pushed
      <4> WITNESS 0 \in {0, 1}
      <4> QED BY <1>4, <4>1
    <3>2. CASE Len(q) = s.size /\ q' = Append(Tail(q), m)
      <4>1. Len(q') = Len(q) /\ q'[Len(q)] = m /\ \A i \in 1..(Len(q) - 1) : q'[i] = q[i + 1]
        BY <1>2, <1>4, <3>2, Pushed
      <4> WITNESS 1 \in {0, 1}
      <4> QED BY <1>4, <3>2, <4>1
    <3> QED BY <1>3, <1>9, <3>1, <3>2 DEF m
  <2>4. \A i \in 1..Len(q') : i = Len(q') \/ i \in 1..(Len(q') - 1)
    BY <2>3
  <2>5. /\ \A i, j \in 1..Len(file) : i < j => Earlier(s, file[i], file[j])
        /\ \A i \in 1..Len(file), w \in s.workers : Earlier(s, file[i], held[w])
        /\ \A i \in 1..Len(file), j \in 1..Len(q) : Earlier(s, file[i], q[j])
        /\ \A w \in s.workers, j \in 1..Len(q) : Earlier(s, held[w], q[j])
        /\ \A i, j \in 1..Len(q) : i < j => Earlier(s, q[i], q[j])
        /\ \A i \in 1..Len(file) : Past(s, file[i])
        /\ \A w \in s.workers : Past(s, held[w])
        /\ \A i \in 1..Len(q) : Past(s, q[i])
    BY DEF InOrder
  <2>6. /\ \A i \in 1..Len(file), j \in 1..Len(q') : Earlier(s, file[i], q'[j])
        /\ \A w \in s.workers, j \in 1..Len(q') : Earlier(s, held[w], q'[j])
    BY <2>2, <2>3, <2>4, <2>5
  <2>7. \A i, j \in 1..Len(q') : i < j => Earlier(s, q'[i], q'[j])
    <3>1. SUFFICES ASSUME NEW i \in 1..Len(q'), NEW j \in 1..Len(q'), i < j
                   PROVE  Earlier(s, q'[i], q'[j])
      OBVIOUS
    <3>2. i \in 1..(Len(q') - 1) /\ i + k \in 1..Len(q) /\ q'[i] = q[i + k]
      BY <2>3, <3>1
    <3>3. CASE j = Len(q')
      BY <2>2, <2>3, <2>5, <3>2, <3>3
    <3>4. CASE j \in 1..(Len(q') - 1)
      <4>1. j + k \in 1..Len(q) /\ q'[j] = q[j + k] /\ i + k < j + k
        BY <2>3, <3>1, <3>4
      <4> QED BY <2>5, <3>2, <4>1
    <3> QED BY <2>4, <3>3, <3>4
  <2>8. \A i \in 1..Len(q') : Past(s, q[i])'
    <3>1. SUFFICES ASSUME NEW i \in 1..Len(q') PROVE Past(s, q[i])'
      OBVIOUS
    <3>2. CASE i = Len(q')
      <4>1. m' = m
        BY <1>2 DEF m
      <4> QED BY <2>2, <2>3, <3>2, <4>1 DEF Past
    <3>3. CASE i \in 1..(Len(q') - 1)
      <4>1. i + k \in 1..Len(q) /\ q'[i] = q[i + k]
        BY <2>3, <3>3
      <4> QED BY <2>2, <2>5, <4>1 DEF Past
    <3> QED BY <2>4, <3>2, <3>3
  <2>9. /\ \A i \in 1..Len(file) : Past(s, file[i])'
        /\ \A w \in s.workers : Past(s, held[w])'
    BY <1>2, <2>2, <2>5 DEF Past
  <2> QED BY <1>2, <2>5, <2>6, <2>7, <2>8, <2>9 DEF InOrder, Earlier, Past
<1> QED BY <1>3, <1>8, <1>9

LEMMA DequeueInOrder ==
    ASSUME NEW s, Setting(s), Alone(s), PoolInv(s), InOrder(s), NEW w \in s.workers, Pool(s)!Dequeue(w)
    PROVE  InOrder(s)'
<1> DEFINE M == Message(s) \union {Terminate}
<1>1. PoolType(s)
  BY DEF PoolInv
<1>2. UNCHANGED <<pc, msg, sent, file>>
  BY DEF Pool!Dequeue, Pool!sink
<1>3. Begun(s)' = Begun(s)
  BY <1>2 DEF Begun
<1>4. CASE UNCHANGED <<q, held>>
  BY <1>2, <1>3, <1>4 DEF InOrder, Earlier, Past
<1>5. CASE q # <<>> /\ held' = [held EXCEPT ![w] = Head(q)] /\ q' = Tail(q)
  <2>1. /\ Len(q) \in Nat /\ 1 \in 1..Len(q) /\ Len(q') = Len(q) - 1
        /\ \A i \in 1..Len(q') : i + 1 \in 1..Len(q) /\ 1 < i + 1 /\ q'[i] = q[i + 1]
    <3>1. q \in Seq(M)
      BY <1>1 DEF PoolType
    <3>2. /\ Len(q) \in Nat /\ Len(q) > 0 /\ Len(q') = Len(q) - 1
          /\ \A i \in 1..(Len(q) - 1) : q'[i] = q[i + 1]
      BY <1>5, <3>1, HeadTailProperties
    <3> QED BY <3>2
  <2>2. \A v \in s.workers : held'[v] = q[1]
    BY <1>1, <1>5 DEF Alone, PoolType
  <2>3. /\ \A i, j \in 1..Len(file) : i < j => Earlier(s, file[i], file[j])
        /\ \A i \in 1..Len(file), j \in 1..Len(q) : Earlier(s, file[i], q[j])
        /\ \A i, j \in 1..Len(q) : i < j => Earlier(s, q[i], q[j])
        /\ \A i \in 1..Len(file) : Past(s, file[i])
        /\ \A i \in 1..Len(q) : Past(s, q[i])
    BY DEF InOrder
  <2>4. /\ \A i \in 1..Len(file), v \in s.workers : Earlier(s, file[i], held'[v])
        /\ \A i \in 1..Len(file), j \in 1..Len(q') : Earlier(s, file[i], q'[j])
        /\ \A v \in s.workers, j \in 1..Len(q') : Earlier(s, held'[v], q'[j])
    BY <2>1, <2>2, <2>3
  <2>5. \A i, j \in 1..Len(q') : i < j => Earlier(s, q'[i], q'[j])
    <3>1. \A i, j \in 1..Len(q') : i < j => i + 1 < j + 1
      BY <2>1
    <3> QED BY <2>1, <2>3, <3>1
  <2>6. /\ \A i \in 1..Len(file) : Past(s, file[i])'
        /\ \A v \in s.workers : Past(s, held[v])'
        /\ \A i \in 1..Len(q') : Past(s, q[i])'
    BY <1>2, <1>3, <2>1, <2>2, <2>3 DEF Past
  <2> QED BY <1>2, <2>3, <2>4, <2>5, <2>6 DEF InOrder, Earlier, Past
<1> QED BY <1>4, <1>5 DEF Pool!Dequeue

LEMMA ProcessInOrder ==
    ASSUME NEW s, Setting(s), Alone(s), PoolInv(s), InOrder(s), NEW w \in s.workers, Pool(s)!Process(w)
    PROVE  InOrder(s)'
<1> DEFINE x == held[w]
<1>1. PoolType(s) /\ Holds(s)
  BY DEF PoolInv
<1>2. /\ wpc[w] = "work" /\ held' = [held EXCEPT ![w] = Nothing] /\ UNCHANGED <<q, pc, msg, sent>>
      /\ file' = file \/ (x # Terminate /\ file' = Append(file, x))
  BY Names DEF Pool!Process, Pool!pool, Pool!sink
<1>3. Begun(s)' = Begun(s)
  BY <1>2 DEF Begun
<1>4. \A v \in s.workers : held'[v] = Nothing /\ held[v] = x
  BY <1>1, <1>2 DEF Alone, PoolType
<1>5. \A a : Earlier(s, a, Nothing) /\ Earlier(s, Nothing, a) /\ Past(s, Nothing)
  BY Kinds DEF Earlier, Past
<1>6. /\ \A i, j \in 1..Len(file) : i < j => Earlier(s, file[i], file[j])
      /\ \A i \in 1..Len(file) : Earlier(s, file[i], x)
      /\ \A i \in 1..Len(file), j \in 1..Len(q) : Earlier(s, file[i], q[j])
      /\ \A j \in 1..Len(q) : Earlier(s, x, q[j])
      /\ \A i, j \in 1..Len(q) : i < j => Earlier(s, q[i], q[j])
      /\ \A i \in 1..Len(file) : Past(s, file[i])
      /\ Past(s, x)
      /\ \A i \in 1..Len(q) : Past(s, q[i])
  BY DEF InOrder
<1>7. Len(file') \in Nat /\ \A i \in 1..Len(file') :
         \/ i \in 1..Len(file) /\ file'[i] = file[i]
         \/ file'[i] = x /\ \A j \in 1..Len(file') : j < i => j \in 1..Len(file) /\ file'[j] = file[j]
  <2>1. file \in Seq(Message(s)) /\ Len(file) \in Nat
    BY <1>1 DEF PoolType
  <2>2. CASE file' = file
    BY <2>1, <2>2
  <2>3. CASE x # Terminate /\ file' = Append(file, x)
    <3>1. x \in Message(s) \union {Terminate, Nothing} /\ x # Nothing
      BY <1>1, <1>2 DEF PoolType, Holds
    <3>2. x \in Message(s)
      BY <2>3, <3>1
    <3> HIDE DEF x
    <3>3. /\ Len(file') = Len(file) + 1
          /\ \A i \in 1..(Len(file) + 1) : file'[i] = IF i <= Len(file) THEN file[i] ELSE x
      BY <2>1, <2>3, <3>2, AppendIs
    <3> QED BY <2>1, <3>3
  <2> QED BY <1>2, <2>2, <2>3
<1> HIDE DEF x
<1>8. /\ \A i \in 1..Len(file'), j \in 1..Len(q) : Earlier(s, file'[i], q[j])
      /\ \A i \in 1..Len(file') : Past(s, file'[i])
  BY <1>6, <1>7
<1>9. \A i, j \in 1..Len(file') : i < j => Earlier(s, file'[i], file'[j])
  <2>1. SUFFICES ASSUME NEW i \in 1..Len(file'), NEW j \in 1..Len(file'), i < j
                 PROVE  Earlier(s, file'[i], file'[j])
    OBVIOUS
  <2>2. CASE j \in 1..Len(file) /\ file'[j] = file[j]
    <3>1. i \in 1..Len(file)
      BY <1>1, <1>7, <2>1, <2>2 DEF PoolType
    <3>2. file'[i] = file[i]
      BY <1>1, <1>2, <3>1 DEF PoolType
    <3> QED BY <1>6, <2>1, <2>2, <3>1, <3>2
  <2>3. CASE file'[j] = x /\ i \in 1..Len(file) /\ file'[i] = file[i]
    BY <1>6, <2>3
  <2> QED BY <1>7, <2>1, <2>2, <2>3
<1>10. /\ \A i \in 1..Len(file') : Past(s, file[i])'
       /\ \A v \in s.workers : Past(s, held[v])'
       /\ \A i \in 1..Len(q) : Past(s, q[i])'
  BY <1>2, <1>3, <1>4, <1>5, <1>6, <1>8 DEF Past
<1>11. /\ \A i \in 1..Len(file'), v \in s.workers : Earlier(s, file'[i], held'[v])
       /\ \A v \in s.workers, j \in 1..Len(q) : Earlier(s, held'[v], q[j])
  BY <1>4, <1>5
<1> QED BY <1>2, <1>6, <1>8, <1>9, <1>10, <1>11 DEF InOrder, Earlier, Past

-----------------------------------------------------------------------------
(* Every step of the pool *)

LEMMA PoolNext ==
    ASSUME NEW s, Setting(s), PoolInv(s), [Pool(s)!Next]_(Pool(s)!vars)
    PROVE  PoolInv(s)' /\ (Alone(s) /\ InOrder(s) => InOrder(s)')
<1>1. PoolInv(s)'
  <2>1. CASE \E c \in s.clients : Pool(s)!Post(c, "log") \/ Pool(s)!Post(c, "flush")
    BY <2>1, PostKeeps
  <2>2. CASE \E t \in ThreadsOf(s) : Pool(s)!Enqueue(t) \/ Pool(s)!Notify(t) \/ Pool(s)!Join(t)
    BY <2>2, EnqueueKeeps, NotifyKeeps, JoinKeeps
  <2>3. CASE \E w \in s.workers : \/ Pool(s)!Dequeue(w) \/ Pool(s)!Timeout(w)
                                  \/ Pool(s)!NotifyRoom(w) \/ Pool(s)!Process(w)
    BY <2>3, DequeueKeeps, TimeoutKeeps, NotifyRoomKeeps, ProcessKeeps
  <2>4. CASE Pool(s)!Shutdown
    BY <2>4, ShutdownKeeps
  <2>5. CASE UNCHANGED Pool(s)!vars
    <3>1. UNCHANGED <<q, overruns, owners, terminates, pc, msg, wpc, held, file, sent, posted, handled>>
      BY <2>5 DEF Pool!vars, Pool!pool, Pool!sink
    <3>2. PoolType(s)' /\ Posting(s)' /\ OneEnds(s)' /\ Holds(s)'
      BY <3>1 DEF PoolInv, PoolType, Posting, OneEnds, Holds
    <3>3. EndsLast(s)' /\ EndsCounted(s)' /\ PostsCounted(s)' /\ AllEnd(s)'
      BY <3>1 DEF PoolInv, EndsLast, EndsCounted, PostsCounted, AllEnd, Exiting, Ended, ToEnqueue,
                  WithWorker, Exited
    <3> QED BY <3>2, <3>3 DEF PoolInv
  <2> QED BY <2>1, <2>2, <2>3, <2>4, <2>5, Names DEF Pool!Next
<1>2. ASSUME Alone(s), InOrder(s) PROVE InOrder(s)'
  <2>1. CASE \E t \in ThreadsOf(s) : Pool(s)!Enqueue(t)
    BY <1>2, <2>1, EnqueueInOrder
  <2>2. CASE \E w \in s.workers : Pool(s)!Dequeue(w) \/ Pool(s)!Process(w)
    BY <1>2, <2>2, DequeueInOrder, ProcessInOrder
  <2> QED BY <1>2, <2>1, <2>2, MovesNothing
<1> QED BY <1>1, <1>2

LEMMA PoolAccounts ==
    ASSUME NEW s, Setting(s), PoolInv(s)
    PROVE  Pool(s)!Accounted /\ Pool(s)!DrainedAtEnd /\ Pool(s)!TerminatesArrive
<1>1. /\ PoolType(s) /\ Posting(s) /\ OneEnds(s) /\ Holds(s) /\ EndsLast(s)
      /\ EndsCounted(s) /\ PostsCounted(s) /\ AllEnd(s)
  BY DEF PoolInv
<1>2. DOMAIN q = 1..Len(q) /\ Len(q) \in Nat
  BY <1>1 DEF PoolType
<1>3. \A S : Pool(s)!Pending(S) = OfType(q, S) /\ Pool(s)!Holding(S) = WithWorker(s, S)
  BY <1>2 DEF Pool!Pending, Pool!Holding, OfType, WithWorker
<1>4. Pool(s)!Accounted
  BY <1>1, <1>3, SameCardinality DEF Pool!Accounted, PostsCounted
<1>5. /\ Cardinality(OfType(q, {"terminate"})) \in Nat
      /\ Cardinality(WithWorker(s, {"terminate"})) \in Nat /\ IsFiniteSet(WithWorker(s, {"terminate"}))
      /\ Cardinality(Exited(s)) \in Nat /\ IsFiniteSet(s.workers) /\ s.workers # {}
      /\ Cardinality(s.workers) \in Nat
  BY <1>1, CountsAreNat DEF Setting
<1>6. terminates = Cardinality(OfType(q, {"terminate"})) + Cardinality(WithWorker(s, {"terminate"}))
                     + Cardinality(Exited(s)) + (IF ToEnqueue(s) THEN 1 ELSE 0)
  BY <1>1 DEF EndsCounted
<1>7. Pool(s)!DrainedAtEnd
  <2>1. SUFFICES ASSUME Ended(s) PROVE q = <<>> /\ \A w \in s.workers : held[w] = Nothing
    BY Names DEF Pool!DrainedAtEnd, Pool!Destroyed, Ended
  <2>2. terminates = Cardinality(s.workers) /\ \A w \in s.workers : wpc[w] = "exit"
    BY <1>1, <2>1 DEF AllEnd
  <2>3. \A w \in s.workers : held[w] = Nothing
    BY <1>1, <2>2 DEF Holds
  <2>4. Exited(s) = s.workers
    BY <2>2 DEF Exited
  <2>5. Cardinality(OfType(q, {"terminate"})) = 0
    BY <1>5, <1>6, <2>2, <2>4
  <2>6. OfType(q, {"terminate"}) = {}
    <3>1. IsFiniteSet(OfType(q, {"terminate"}))
      BY <1>1, OfTypeFinite DEF PoolType
    <3> QED BY <2>5, <3>1, FS_EmptySet
  <2>7. \A i \in 1..Len(q) : q[i] = Terminate
    BY <1>1, <1>5, <2>2 DEF EndsLast, Exiting
  <2>8. \A i \in 1..Len(q) : FALSE
    BY <2>6, <2>7, Kinds DEF OfType
  <2>9. q = <<>>
    BY <1>1, <1>2, <2>8 DEF PoolType
  <2> QED BY <2>3, <2>9
<1>8. Pool(s)!TerminatesArrive
  <2> DEFINE awake == {w \in s.workers : wpc[w] # "exit"}
  <2>1. SUFFICES ASSUME NEW t \in ThreadsOf(s), pc[t] = "join"
                 PROVE  Cardinality(OfType(q, {"terminate"})) + Cardinality(WithWorker(s, {"terminate"}))
                          = Cardinality(awake)
    BY <1>3, Names, SameCardinality DEF Pool!TerminatesArrive
  <2>2. terminates = Cardinality(s.workers) /\ msg[t] = Terminate
    BY <1>1, <2>1 DEF AllEnd, Posting
  <2>3. ~ToEnqueue(s)
    BY <1>1, <2>1, <2>2 DEF ToEnqueue, OneEnds
  <2>4. awake = s.workers \ Exited(s)
    BY DEF Exited
  <2>5. Cardinality(s.workers \ Exited(s)) = Cardinality(s.workers) - Cardinality(Exited(s))
    <3>1. Exited(s) \subseteq s.workers
      BY DEF Exited
    <3>2. s.workers \cap Exited(s) = Exited(s)
      BY <3>1
    <3> QED BY <1>5, <3>2, FS_Difference, ZenonT(60)
  <2>6. terminates = Cardinality(OfType(q, {"terminate"})) + Cardinality(WithWorker(s, {"terminate"}))
                       + Cardinality(Exited(s))
    BY <1>5, <1>6, <2>3
  <2>7. Cardinality(awake) = Cardinality(s.workers) - Cardinality(Exited(s))
    BY <2>4, <2>5
  <2>8. Cardinality(s.workers) = Cardinality(OfType(q, {"terminate"})) + Cardinality(WithWorker(s, {"terminate"}))
                                   + Cardinality(Exited(s))
    BY <2>2, <2>6
  <2>9. /\ Cardinality(OfType(q, {"terminate"})) \in Nat /\ Cardinality(WithWorker(s, {"terminate"})) \in Nat
        /\ Cardinality(Exited(s)) \in Nat
    BY <1>5
  <2> HIDE DEF awake
  <2> QED BY <2>7, <2>8, <2>9
<1> QED BY <1>4, <1>7, <1>8

LEMMA PoolOrders ==
    ASSUME NEW s, PoolInv(s), InOrder(s)
    PROVE  Pool(s)!WrittenInOrder
<1>1. DOMAIN file = 1..Len(file) /\ \A i \in 1..Len(file) : file[i] \in Message(s)
  BY DEF PoolInv, PoolType
<1>2. \A i, j \in 1..Len(file) : i < j => Earlier(s, file[i], file[j])
  BY DEF InOrder
<1> QED BY <1>1, <1>2 DEF Pool!WrittenInOrder, Earlier

(* A pool of any setting: its invariant, what is accounted for, and what a    *)
(* single worker writes.                                                    *)
THEOREM PoolIsAccounted ==
    ASSUME NEW s, Setting(s)
    PROVE  Pool(s)!Spec => [](Pool(s)!Accounted /\ Pool(s)!DrainedAtEnd /\ Pool(s)!TerminatesArrive)
<1>1. Pool(s)!Init => PoolInv(s)
  BY PoolInit
<1>2. PoolInv(s) /\ [Pool(s)!Next]_(Pool(s)!vars) => PoolInv(s)'
  BY PoolNext
<1>3. PoolInv(s) => Pool(s)!Accounted /\ Pool(s)!DrainedAtEnd /\ Pool(s)!TerminatesArrive
  BY PoolAccounts
<1> QED BY <1>1, <1>2, <1>3, PTL DEF Pool!Spec

THEOREM OneWorkerWritesInOrder ==
    ASSUME NEW s, Setting(s), Alone(s)
    PROVE  Pool(s)!Spec => []Pool(s)!WrittenInOrder
<1>1. Pool(s)!Init => PoolInv(s) /\ InOrder(s)
  BY PoolInit
<1>2. PoolInv(s) /\ InOrder(s) /\ [Pool(s)!Next]_(Pool(s)!vars) => (PoolInv(s) /\ InOrder(s))'
  BY PoolNext
<1>3. PoolInv(s) /\ InOrder(s) => Pool(s)!WrittenInOrder
  BY PoolOrders
<1> QED BY <1>1, <1>2, <1>3, PTL DEF Pool!Spec

-----------------------------------------------------------------------------
(* The pools of MCLogging. *)

LEMMA Settings == Setting(OneWorker) /\ Alone(OneWorker) /\ Setting(TwoWorkers)
BY PoolAssumption, FS_EmptySet, FS_AddElement DEF Setting, Alone, OneWorker, TwoWorkers, Clients

PartInv ==
    /\ part = "one worker" => PoolInv(OneWorker) /\ InOrder(OneWorker)
    /\ part = "two workers" => PoolInv(TwoWorkers)

LEMMA PartInit == LoggingInit => PartInv
BY Settings, PoolInit DEF LoggingInit, PartInv

LEMMA PartNext == PartInv /\ [LoggingNext]_state => PartInv'
<1> SUFFICES ASSUME PartInv, [LoggingNext]_state PROVE PartInv'
  OBVIOUS
<1>1. part' = part
  BY DEF LoggingNext, state
<1>2. CASE part = "one worker"
  <2>1. [Pool(OneWorker)!Next]_(Pool(OneWorker)!vars)
    BY <1>2 DEF LoggingNext, state, pool, Pool!vars, Pool!pool, Pool!sink
  <2>2. PoolInv(OneWorker)' /\ InOrder(OneWorker)'
    BY <1>2, <2>1, Settings, PoolNext DEF PartInv
  <2> QED BY <1>1, <1>2, <2>2 DEF PartInv
<1>3. CASE part = "two workers"
  <2>1. [Pool(TwoWorkers)!Next]_(Pool(TwoWorkers)!vars)
    BY <1>3 DEF LoggingNext, state, pool, Pool!vars, Pool!pool, Pool!sink
  <2>2. PoolInv(TwoWorkers)'
    BY <1>3, <2>1, Settings, PoolNext DEF PartInv
  <2> QED BY <1>1, <1>3, <2>2 DEF PartInv
<1> QED BY <1>1, <1>2, <1>3 DEF PartInv

(* No message of the asynchronous loggers is unaccounted for: whatever is     *)
(* queued, overrun, held or handled adds up, ~thread_pool drains the queue,  *)
(* and one worker writes what a thread logs in its order.                    *)
THEOREM MessagesAlwaysAccounted == LoggingSpec => []MessagesAccounted
<1>1. PartInv => MessagesAccounted
  BY Settings, PoolAccounts, PoolOrders DEF PartInv, MessagesAccounted
<1> QED BY <1>1, PartInit, PartNext, PTL DEF LoggingSpec

-----------------------------------------------------------------------------
(* The sizes of files, which RotatingFile adds up message by message.       *)

Precedes == OpToRel(<, Nat)

LEMMA LeastNat ==
    ASSUME NEW T \in SUBSET Nat, T # {}
    PROVE  \E n \in T : \A m \in T : n <= m
<1>1. IsWellFoundedOn(Precedes, Nat)
  BY NatLessThanWellFounded, Zenon DEF Precedes
<1>2. PICK n \in T : \A m \in T : ~ (<<m, n>> \in Precedes)
  BY <1>1, WFMin
<1>3. \A m, l \in Nat : m < l => <<m, l>> \in Precedes
  BY Zenon DEF Precedes, OpToRel
<1>4. \A m \in T : ~(m < n)
  BY <1>2, <1>3
<1> QED BY <1>4

LEMMA NatInduct ==
    ASSUME NEW T, 0 \in T, \A n \in Nat : n \in T => n + 1 \in T
    PROVE  \A n \in Nat : n \in T
<1> DEFINE N == {n \in Nat : n \notin T}
<1>1. SUFFICES ASSUME N # {} PROVE FALSE
  OBVIOUS
<1>2. PICK n \in N : \A m \in N : n <= m
  BY <1>1, LeastNat
<1>3. n \in Nat \ {0} /\ n - 1 \in Nat
  BY <1>2
<1>4. n - 1 \in T
  BY <1>2, <1>3
<1> QED BY <1>2, <1>3, <1>4

Number  == 1..MaxMessages
Entry   == [n: Number, size: Nat, whole: BOOLEAN]
LogFile == Seq(Entry)

(* The sizes up to each piece of a file. *)
Weight(f, kinds, x) == IF f[x].whole \in kinds THEN f[x].size ELSE 0
Total(f, kinds, e, x) == IF x = 0 THEN 0 ELSE e[x - 1] + Weight(f, kinds, x)
Totals(f, kinds) == CHOOSE e : e = [x \in 0..Len(f) |-> Total(f, kinds, e, x)]

LEMMA SizeIs == \A f, kinds : Rotating!SizeOf(f, kinds) = Totals(f, kinds)[Len(f)]
BY Zenon DEF Rotating!SizeOf, Totals, Total, Weight

LEMMA TotalsExist ==
    ASSUME NEW f, NEW kinds, Len(f) \in Nat
    PROVE  \E e : e = [x \in 0..Len(f) |-> Total(f, kinds, e, x)]
<1> DEFINE L == Len(f)
           D == 0..L
           T == {m \in Nat : \E e : /\ e = [x \in D |-> e[x]]
                                    /\ \A x \in D : x < m => e[x] = Total(f, kinds, e, x)}
<1>1. 0 \in T
  <2> DEFINE e == [x \in D |-> 0]
  <2>1. e = [x \in D |-> e[x]] /\ \A x \in D : ~(x < 0)
    OBVIOUS
  <2> HIDE DEF D, e
  <2> QED BY <2>1
<1>2. ASSUME NEW m \in Nat, m \in T PROVE m + 1 \in T
  <2>1. PICK e : /\ e = [x \in D |-> e[x]]
                 /\ \A x \in D : x < m => e[x] = Total(f, kinds, e, x)
    BY <1>2
  <2> DEFINE h == [x \in D |-> IF x = m THEN Total(f, kinds, e, x) ELSE e[x]]
  <2>2. h = [x \in D |-> h[x]]
    OBVIOUS
  <2>3. \A x \in D : (x # m => h[x] = e[x]) /\ (x = m => h[x] = Total(f, kinds, e, x))
    OBVIOUS
  <2> HIDE DEF h
  <2>4. ASSUME NEW x \in D, x < m + 1 PROVE h[x] = Total(f, kinds, h, x)
    <3>1. h[x] = Total(f, kinds, e, x)
      BY <2>1, <2>3, <2>4
    <3>2. CASE x = 0
      BY <3>1, <3>2 DEF Total
    <3>3. CASE x # 0
      <4>1. x - 1 \in D /\ x - 1 # m
        BY <2>4, <3>3
      <4>2. e[x - 1] = h[x - 1]
        BY <2>3, <4>1
      <4> QED BY <3>1, <4>2 DEF Total
    <3> QED BY <3>2, <3>3
  <2>5. m + 1 \in Nat
    OBVIOUS
  <2> HIDE DEF D
  <2> QED BY <2>2, <2>4, <2>5
<1>3. L + 1 \in T
  <2> HIDE DEF T
  <2>1. \A m \in Nat : m \in T
    BY <1>1, <1>2, NatInduct
  <2> QED BY <2>1
<1>4. PICK e : e = [x \in D |-> e[x]] /\ \A x \in D : x < L + 1 => e[x] = Total(f, kinds, e, x)
  BY <1>3
<1>5. \A x \in D : e[x] = Total(f, kinds, e, x)
  BY <1>4
<1> HIDE DEF D
<1>6. [x \in D |-> e[x]] = [x \in D |-> Total(f, kinds, e, x)]
  BY <1>5
<1>7. e = [x \in D |-> Total(f, kinds, e, x)]
  BY <1>4, <1>6
<1> QED BY <1>7 DEF D

LEMMA TotalsIs ==
    ASSUME NEW f, NEW kinds, Len(f) \in Nat
    PROVE  \A x \in 0..Len(f) : Totals(f, kinds)[x] = Total(f, kinds, Totals(f, kinds), x)
<1> DEFINE e == Totals(f, kinds)
<1>1. e = [x \in 0..Len(f) |-> Total(f, kinds, e, x)]
  BY TotalsExist DEF Totals
<1> HIDE DEF e
<1> QED BY <1>1 DEF e

(* A piece adds its size to its file's, if it is of these kinds. *)
LEMMA SizeOfAppend ==
    ASSUME NEW f \in LogFile, NEW m \in Entry, NEW kinds
    PROVE  Rotating!SizeOf(Append(f, m), kinds)
              = Rotating!SizeOf(f, kinds) + (IF m.whole \in kinds THEN m.size ELSE 0)
<1> DEFINE g == Append(f, m)
           d == Totals(f, kinds)
           e == Totals(g, kinds)
           T == {y \in Nat : y <= Len(f) => d[y] = e[y]}
<1>1. /\ Len(f) \in Nat /\ g \in LogFile /\ Len(g) = Len(f) + 1 /\ g[Len(f) + 1] = m
      /\ \A x \in 1..Len(f) : g[x] = f[x]
  BY DEF LogFile
<1>2. \A x \in 0..Len(f) : d[x] = Total(f, kinds, d, x)
  BY <1>1, TotalsIs
<1>3. \A x \in 0..(Len(f) + 1) : e[x] = Total(g, kinds, e, x)
  <2>1. Len(g) \in Nat /\ Len(g) = Len(f) + 1
    BY <1>1
  <2> HIDE DEF g
  <2>2. \A x \in 0..Len(g) : e[x] = Total(g, kinds, e, x)
    BY <2>1, TotalsIs
  <2> QED BY <2>1, <2>2
<1> HIDE DEF d, e, g
<1>4. 0 \in T
  BY <1>1, <1>2, <1>3 DEF Total
<1>5. ASSUME NEW y \in Nat, y \in T PROVE y + 1 \in T
  <2> DEFINE z == y + 1
  <2>1. SUFFICES ASSUME z <= Len(f) PROVE d[z] = e[z]
    OBVIOUS
  <2>2. /\ z \in 0..Len(f) /\ z \in 0..(Len(f) + 1) /\ z # 0 /\ z - 1 = y /\ y <= Len(f) /\ z \in 1..Len(f)
    BY <1>1, <2>1
  <2> HIDE DEF z
  <2>3. d[z] = d[y] + Weight(f, kinds, z) /\ e[z] = e[y] + Weight(g, kinds, z)
    BY <1>2, <1>3, <2>2 DEF Total
  <2>4. Weight(f, kinds, z) = Weight(g, kinds, z)
    BY <1>1, <2>2 DEF Weight
  <2> QED BY <1>5, <2>2, <2>3, <2>4
<1> HIDE DEF T
<1>6. Len(f) \in T
  BY <1>1, <1>4, <1>5, NatInduct
<1>7. d[Len(f)] = e[Len(f)]
  BY <1>1, <1>6 DEF T
<1>8. e[Len(f) + 1] = e[Len(f)] + (IF m.whole \in kinds THEN m.size ELSE 0)
  <2> DEFINE z == Len(f) + 1
  <2>1. z \in 0..(Len(f) + 1) /\ z # 0 /\ z - 1 = Len(f)
    BY <1>1
  <2>2. g[z] = m
    BY <1>1
  <2> HIDE DEF z
  <2>3. e[z] = e[Len(f)] + Weight(g, kinds, z)
    BY <1>3, <2>1 DEF Total
  <2> QED BY <2>2, <2>3 DEF z, Weight
<1> QED BY <1>1, <1>7, <1>8, SizeIs DEF d, e, g

LEMMA SizeOfNothing == \A kinds : Rotating!SizeOf(<<>>, kinds) = 0
<1> TAKE kinds
<1> DEFINE f == <<>>
<1>1. Len(f) = 0 /\ Len(f) \in Nat
  OBVIOUS
<1> HIDE DEF f
<1>2. Totals(f, kinds)[0] = 0
  BY <1>1, TotalsIs DEF Total
<1> QED BY <1>1, <1>2, SizeIs DEF f

LEMMA WeightType ==
    ASSUME NEW f \in LogFile, NEW kinds
    PROVE  Len(f) \in Nat /\ \A x \in 1..Len(f) : f[x] \in Entry /\ Weight(f, kinds, x) \in Nat
<1>1. Len(f) \in Nat /\ \A x \in 1..Len(f) : f[x] \in Entry
  BY DEF LogFile
<1>2. \A m \in Entry : m.size \in Nat
  BY DEF Entry
<1> QED BY <1>1, <1>2 DEF Weight

LEMMA SizeOfType == ASSUME NEW f \in LogFile, NEW kinds PROVE Rotating!SizeOf(f, kinds) \in Nat
<1> DEFINE d == Totals(f, kinds)
           T == {y \in Nat : y <= Len(f) => d[y] \in Nat}
<1>1. Len(f) \in Nat /\ \A x \in 1..Len(f) : Weight(f, kinds, x) \in Nat
  BY WeightType
<1>2. \A x \in 0..Len(f) : d[x] = Total(f, kinds, d, x)
  BY <1>1, TotalsIs
<1> HIDE DEF d
<1>3. 0 \in T
  BY <1>1, <1>2 DEF Total
<1>4. ASSUME NEW y \in Nat, y \in T PROVE y + 1 \in T
  <2> DEFINE z == y + 1
  <2>1. SUFFICES ASSUME z <= Len(f) PROVE d[z] \in Nat
    OBVIOUS
  <2>2. z \in 0..Len(f) /\ z # 0 /\ z - 1 = y /\ y <= Len(f) /\ z \in 1..Len(f)
    BY <1>1, <2>1
  <2> HIDE DEF z
  <2>3. d[z] = d[y] + Weight(f, kinds, z)
    BY <1>2, <2>2 DEF Total
  <2> QED BY <1>1, <1>4, <2>2, <2>3
<1> HIDE DEF T
<1>5. Len(f) \in T
  BY <1>1, <1>3, <1>4, NatInduct
<1> QED BY <1>1, <1>5, SizeIs DEF T, d

(* A file with fewer pieces, each of which counts for less, is smaller. *)
LEMMA SizeOfLess ==
    ASSUME NEW f \in LogFile, NEW g \in LogFile, NEW some, NEW kinds, Len(g) <= Len(f),
           \A x \in 1..Len(g) : Weight(g, some, x) <= Weight(f, kinds, x)
    PROVE  Rotating!SizeOf(g, some) <= Rotating!SizeOf(f, kinds)
<1> DEFINE d == Totals(g, some)
           e == Totals(f, kinds)
           upto(y) == IF y <= Len(g) THEN d[y] ELSE d[Len(g)]
           T == {y \in Nat : y <= Len(f) => upto(y) \in Nat /\ e[y] \in Nat /\ upto(y) <= e[y]}
<1>1. /\ Len(f) \in Nat /\ \A x \in 1..Len(f) : Weight(f, kinds, x) \in Nat
      /\ Len(g) \in Nat /\ \A x \in 1..Len(g) : Weight(g, some, x) \in Nat
  BY WeightType
<1>2. /\ \A x \in 0..Len(g) : d[x] = Total(g, some, d, x)
      /\ \A x \in 0..Len(f) : e[x] = Total(f, kinds, e, x)
  BY <1>1, TotalsIs
<1> HIDE DEF d, e
<1>3. 0 \in T
  BY <1>1, <1>2 DEF Total
<1>4. ASSUME NEW y \in Nat, y \in T PROVE y + 1 \in T
  <2> DEFINE z == y + 1
  <2>1. SUFFICES ASSUME z <= Len(f) PROVE upto(z) \in Nat /\ e[z] \in Nat /\ upto(z) <= e[z]
    OBVIOUS
  <2>2. z \in 0..Len(f) /\ z # 0 /\ z - 1 = y /\ y <= Len(f) /\ z \in 1..Len(f) /\ z \in Nat
    BY <1>1, <2>1
  <2>3. upto(y) \in Nat /\ e[y] \in Nat /\ upto(y) <= e[y]
    BY <1>4, <2>2
  <2>4. z = y + 1
    OBVIOUS
  <2> HIDE DEF z
  <2>5. e[z] = e[y] + Weight(f, kinds, z) /\ Weight(f, kinds, z) \in Nat
    BY <1>1, <1>2, <2>2 DEF Total
  <2>6. CASE z <= Len(g)
    <3>1. z \in 1..Len(g) /\ z \in 0..Len(g) /\ y <= Len(g)
      BY <1>1, <2>2, <2>4, <2>6
    <3>2. d[z] = d[y] + Weight(g, some, z) /\ Weight(g, some, z) \in Nat
      BY <1>1, <1>2, <2>2, <3>1 DEF Total
    <3>3. upto(z) = upto(y) + Weight(g, some, z)
      BY <2>6, <3>1, <3>2
    <3>4. Weight(g, some, z) <= Weight(f, kinds, z)
      BY <3>1
    <3> HIDE DEF upto
    <3> QED BY <2>3, <2>5, <3>2, <3>3, <3>4
  <2>7. CASE ~(z <= Len(g))
    <3>1. upto(z) = upto(y)
      BY <1>1, <2>2, <2>4, <2>7
    <3> HIDE DEF upto
    <3> QED BY <2>3, <2>5, <3>1
  <2> QED BY <2>6, <2>7
<1>5. Len(f) \in T
  <2> HIDE DEF T
  <2> QED BY <1>1, <1>3, <1>4, NatInduct
<1>6. upto(Len(f)) = d[Len(g)]
  BY <1>1
<1>7. d[Len(g)] <= e[Len(f)]
  BY <1>1, <1>5, <1>6
<1> QED BY <1>7, SizeIs DEF d, e

-----------------------------------------------------------------------------
(* The files of the rotating sink. *)

Places == Rotating!Index
Disks  == [Places -> LogFile \union {Missing}]

In(f, x) == IF f[x] # Missing THEN f[x] ELSE <<>>

Single(s)  == \A k, l \in DOMAIN s : s[k].whole /\ s[l].whole => k = l
WithinSize(s) == Rotating!SizeOf(s, {TRUE}) > MaxSize => Single(s)
Parts(s)   == {k \in DOMAIN s : ~s[k].whole}

Fitting(f) == \A x \in Places : WithinSize(In(f, x))
FewParts(f, c) == \A x \in Places : Cardinality(Parts(In(f, x))) <= c

Sorted(f) ==
    \A x, y \in Places : \A k \in DOMAIN In(f, x), l \in DOMAIN In(f, y) :
        x > y \/ (x = y /\ k < l) => In(f, x)[k].n < In(f, y)[l].n

UpTo(f, n) == \A x \in Places : \A k \in DOMAIN In(f, x) : In(f, x)[k].n <= n

Good(f, n, c) == f \in Disks /\ Fitting(f) /\ FewParts(f, c) /\ Sorted(f) /\ UpTo(f, n)

(* Each file of g is empty or was one of f, and those are in their order. *)
Comes(f, g, src) ==
    /\ src \in [Places -> Places]
    /\ \A x \in Places : In(g, x) = <<>> \/ In(g, x) = In(f, src[x])
    /\ \A x, y \in Places : x > y /\ In(g, x) # <<>> /\ In(g, y) # <<>> => src[x] > src[y]

LEMMA PlacesAre == Places \subseteq Nat /\ 0 \in Places /\ MaxFiles \in Places /\ Places = 0..MaxFiles /\ MaxFiles \in Nat
BY RotatingAssumption DEF Places, Rotating!Index

LEMMA NothingIs ==
    /\ <<>> \in LogFile /\ <<>> # Missing /\ Missing \notin LogFile
    /\ WithinSize(<<>>) /\ Parts(<<>>) = {} /\ Cardinality(Parts(<<>>)) = 0
<1>1. <<>> \in LogFile
  BY DEF LogFile
<1>2. Missing \notin LogFile
  BY RotatingAssumption DEF LogFile, Entry, Number
<1>3. WithinSize(<<>>) /\ Parts(<<>>) = {}
  BY DEF WithinSize, Single, Parts
<1> QED BY <1>1, <1>2, <1>3, FS_EmptySet

LEMMA InIs ==
    ASSUME NEW f \in Disks, NEW x \in Places
    PROVE  /\ In(f, x) \in LogFile /\ DOMAIN In(f, x) = 1..Len(In(f, x)) /\ Len(In(f, x)) \in Nat
           /\ \A k \in DOMAIN In(f, x) : In(f, x)[k] \in Entry /\ In(f, x)[k].n \in Nat
           /\ f[x] # Missing => f[x] \in LogFile /\ In(f, x) = f[x]
<1>1. f[x] \in LogFile \union {Missing}
  BY DEF Disks
<1>2. In(f, x) \in LogFile
  BY <1>1, NothingIs DEF In
<1> DEFINE s == In(f, x)
<1>3. DOMAIN s = 1..Len(s) /\ Len(s) \in Nat /\ \A k \in DOMAIN s : s[k] \in Entry
  <2> HIDE DEF s
  <2>1. s \in LogFile
    BY <1>2 DEF s
  <2> QED BY <2>1 DEF LogFile
<1>4. \A m \in Entry : m.n \in Nat
  BY DEF Entry, Number
<1> QED BY <1>1, <1>2, <1>3, <1>4 DEF In

LEMMA ComesKeepsGood ==
    ASSUME NEW f, NEW g \in Disks, NEW n, NEW c \in Nat, NEW src, Good(f, n, c), Comes(f, g, src)
    PROVE  Good(g, n, c)
<1>1. f \in Disks /\ Fitting(f) /\ FewParts(f, c) /\ Sorted(f) /\ UpTo(f, n)
  BY DEF Good
<1>2. /\ \A x \in Places : src[x] \in Places
      /\ \A x \in Places : In(g, x) # <<>> => In(g, x) = In(f, src[x])
      /\ \A x, y \in Places : x > y /\ In(g, x) # <<>> /\ In(g, y) # <<>> => src[x] > src[y]
  BY DEF Comes
<1>3. Fitting(g) /\ FewParts(g, c)
  <2>1. SUFFICES ASSUME NEW x \in Places PROVE WithinSize(In(g, x)) /\ Cardinality(Parts(In(g, x))) <= c
    BY DEF Fitting, FewParts
  <2>2. CASE In(g, x) = <<>>
    BY <2>2, NothingIs
  <2>3. CASE In(g, x) # <<>>
    BY <1>1, <1>2, <2>3 DEF Fitting, FewParts
  <2> QED BY <2>2, <2>3
<1>4. ASSUME NEW x \in Places, NEW k \in DOMAIN In(g, x)
      PROVE  In(g, x) # <<>> /\ In(g, x) = In(f, src[x]) /\ k \in DOMAIN In(f, src[x])
  <2>1. In(g, x) # <<>>
    BY <1>4
  <2> QED BY <1>2, <1>4, <2>1
<1>5. Sorted(g)
  <2>1. SUFFICES ASSUME NEW x \in Places, NEW y \in Places, NEW k \in DOMAIN In(g, x), NEW l \in DOMAIN In(g, y),
                        x > y \/ (x = y /\ k < l)
                 PROVE  In(g, x)[k].n < In(g, y)[l].n
    BY DEF Sorted
  <2>2. src[x] > src[y] \/ (src[x] = src[y] /\ k < l)
    BY <1>2, <1>4, <2>1
  <2>3. src[x] \in Places /\ src[y] \in Places /\ k \in DOMAIN In(f, src[x]) /\ l \in DOMAIN In(f, src[y])
    BY <1>2, <1>4
  <2>4. In(f, src[x])[k].n < In(f, src[y])[l].n
    BY <1>1, <2>2, <2>3 DEF Sorted
  <2> QED BY <1>4, <2>4
<1>6. UpTo(g, n)
  <2>1. SUFFICES ASSUME NEW x \in Places, NEW k \in DOMAIN In(g, x) PROVE In(g, x)[k].n <= n
    BY DEF UpTo
  <2>2. src[x] \in Places /\ In(g, x) = In(f, src[x]) /\ k \in DOMAIN In(f, src[x])
    BY <1>2, <1>4
  <2> QED BY <1>1, <2>2 DEF UpTo
<1> QED BY <1>3, <1>5, <1>6 DEF Good

(* Where the renames into low and the files above it take the files from. *)
Source(low) == [x \in Places |-> IF x >= low /\ files[x - 1] # Missing THEN x - 1 ELSE x]

LEMMA ShiftedComes ==
    ASSUME files \in Disks, NEW low \in Nat \ {0}, NEW g,
           \A x \in Places : In(g, x) = <<>> \/ g[x] = Rotating!Shifted(low)[x]
    PROVE  Comes(files, g, Source(low))
<1> DEFINE src == Source(low)
<1>1. \A x \in Places : src[x] = IF x >= low /\ files[x - 1] # Missing THEN x - 1 ELSE x
  BY DEF Source
<1>2. ASSUME NEW x \in Places, x >= low PROVE x - 1 \in Places
  BY <1>2, PlacesAre
<1>3. src \in [Places -> Places]
  BY <1>2 DEF Source
<1> HIDE DEF src
<1>4. ASSUME NEW x \in Places, In(g, x) # <<>>
      PROVE  /\ g[x] = files[src[x]] /\ In(g, x) = In(files, src[x])
             /\ x >= low \/ x < low - 1
             /\ x >= low /\ files[x - 1] = Missing => x = MaxFiles
  <2>1. g[x] = Rotating!Shifted(low)[x] /\ g[x] # Missing
    BY <1>4 DEF In
  <2>2. g[x] = IF x < low THEN IF x = low - 1 THEN Missing ELSE files[x]
               ELSE IF files[x - 1] # Missing THEN files[x - 1]
               ELSE IF x = MaxFiles THEN files[x] ELSE Missing
    BY <2>1 DEF Rotating!Shifted, Rotating!Exists, Places
  <2>3. x \in Nat /\ low \in Nat
    BY PlacesAre
  <2>4. CASE x < low
    <3>1. x < low - 1 /\ g[x] = files[x] /\ ~(x >= low)
      BY <2>1, <2>2, <2>3, <2>4
    <3> QED BY <1>1, <3>1 DEF In
  <2>5. CASE x >= low
    <3>1. ~(x < low)
      BY <2>3, <2>5
    <3>2. CASE files[x - 1] # Missing
      BY <1>1, <2>2, <2>5, <3>1, <3>2 DEF In
    <3>3. CASE files[x - 1] = Missing
      BY <1>1, <2>1, <2>2, <2>5, <3>1, <3>3 DEF In
    <3> QED BY <3>2, <3>3
  <2> QED BY <2>3, <2>4, <2>5
<1>5. ASSUME NEW x \in Places, NEW y \in Places, x > y, In(g, x) # <<>>, In(g, y) # <<>>
      PROVE  src[x] > src[y]
  <2>1. x \in Nat /\ y \in Nat /\ low \in Nat /\ x <= MaxFiles /\ y # MaxFiles /\ MaxFiles \in Nat
    BY <1>5, PlacesAre
  <2>2. (y >= low /\ files[y - 1] # Missing) \/ y < low - 1
    BY <1>4, <1>5, <2>1
  <2>3. CASE y >= low /\ files[y - 1] # Missing
    BY <1>1, <1>5, <2>1, <2>3
  <2>4. CASE y < low - 1
    <3>1. src[y] = y
      BY <1>1, <2>1, <2>4
    <3>2. CASE x >= low
      BY <1>1, <2>1, <2>4, <3>1, <3>2
    <3>3. CASE ~(x >= low)
      BY <1>1, <1>5, <2>1, <3>1, <3>3
    <3> QED BY <3>2, <3>3
  <2> QED BY <2>2, <2>3, <2>4
<1>6. \A x \in Places : In(g, x) = <<>> \/ In(g, x) = In(files, src[x])
  BY <1>4
<1> QED BY <1>3, <1>5, <1>6 DEF Comes, src

LEMMA ShiftedType ==
    ASSUME files \in Disks, NEW low \in Nat \ {0}
    PROVE  Rotating!Shifted(low) \in Disks
<1>1. ASSUME NEW x \in Places, ~(x < low) PROVE x - 1 \in Places
  BY <1>1, PlacesAre
<1>2. \A x \in Places : files[x] \in LogFile \union {Missing}
  BY DEF Disks
<1> QED BY <1>1, <1>2 DEF Disks, Rotating!Shifted, Rotating!Exists, Places

LEMMA RotatedComes ==
    ASSUME files \in Disks
    PROVE  Rotating!Rotated \in Disks /\ Rotating!Rotated[0] = <<>> /\ Comes(files, Rotating!Rotated, Source(1))
<1> DEFINE g == Rotating!Rotated
<1>1. Rotating!Shifted(1) \in Disks /\ <<>> \in LogFile
  BY ShiftedType, NothingIs
<1>2. g \in Disks /\ g[0] = <<>> /\ \A x \in Places : x # 0 => g[x] = Rotating!Shifted(1)[x]
  BY <1>1, PlacesAre DEF Rotating!Rotated, Disks
<1> HIDE DEF g
<1>3. \A x \in Places : In(g, x) = <<>> \/ g[x] = Rotating!Shifted(1)[x]
  BY <1>2 DEF In
<1>4. Comes(files, g, Source(1))
  BY <1>3, ShiftedComes
<1> QED BY <1>2, <1>4 DEF g

(* What a rotation leaves that throws: the files before the failed rename,   *)
(* moved on as far as it came, and the log file cut to nothing or not at all. *)
LEMMA UnrenamedComes ==
    ASSUME files \in Disks, files[0] # Missing, NEW k \in 1..MaxFiles, NEW t \in Rotating!Targets(k),
           NEW top \in {files[0], <<>>}
    PROVE  LET g == Rotating!Unrenamed(k, t, top)
           IN  g \in Disks /\ g[0] = top /\ \E src : Comes(files, g, src)
<1> DEFINE g == Rotating!Unrenamed(k, t, top)
           low == k + 1
           h == Rotating!Shifted(low)
<1>1. low \in Nat \ {0} /\ k \in Places /\ k - 1 \in Places /\ k - 1 < low /\ k - 1 # low - 1 /\ 0 \in Places
      /\ k < low /\ k = low - 1 /\ 0 < low /\ k # 0
  BY PlacesAre
<1>2. h \in Disks /\ <<>> \in LogFile /\ files[k - 1] \in LogFile \union {Missing}
      /\ files[k] \in LogFile \union {Missing} /\ files[0] \in LogFile \union {Missing}
  <2> HIDE DEF low
  <2> QED BY <1>1, ShiftedType, NothingIs DEF Disks
<1>3. h[k - 1] = files[k - 1] /\ h[k] = Missing /\ h[0] = files[0]
  <2> HIDE DEF low
  <2> QED BY <1>1 DEF Rotating!Shifted, Places
<1>4. k = MaxFiles => \A x \in Places : x # k => h[x] = files[x]
  <2>1. SUFFICES ASSUME k = MaxFiles, NEW x \in Places, x # k PROVE h[x] = files[x]
    OBVIOUS
  <2>2. x < low /\ x # low - 1
    BY <1>1, <2>1, PlacesAre
  <2> HIDE DEF low
  <2> QED BY <2>2 DEF Rotating!Shifted, Places
<1>5. t = Missing \/ (k = MaxFiles /\ t = files[k])
  BY DEF Rotating!Targets
<1> HIDE DEF low, h
<1>6. g = [[h EXCEPT ![k] = t, ![k - 1] = files[k - 1]] EXCEPT ![0] = top]
  BY DEF Rotating!Unrenamed, h, low
<1>7. /\ g \in Disks /\ g[0] = top /\ g[k] = t
      /\ \A x \in Places : x # 0 /\ x # k => g[x] = h[x]
  <2>1. g \in Disks
    <3>1. t \in LogFile \union {Missing} /\ top \in LogFile \union {Missing}
      BY <1>2, <1>5
    <3> QED BY <1>1, <1>2, <1>6, <3>1, SMTT(60) DEF Disks
  <2>2. DOMAIN h = Places
    BY <1>2 DEF Disks
  <2> DEFINE p == [h EXCEPT ![k] = t, ![k - 1] = files[k - 1]]
  <2>3. DOMAIN p = Places /\ p[k] = t /\ \A x \in Places : x # k => p[x] = h[x]
    BY <1>1, <1>3, <2>2
  <2> HIDE DEF p
  <2>4. g = [p EXCEPT ![0] = top]
    BY <1>6 DEF p
  <2> QED BY <1>1, <2>1, <2>3, <2>4
<1> HIDE DEF g
<1>8. CASE t = Missing
  <2>1. \A x \in Places : In(g, x) = <<>> \/ g[x] = Rotating!Shifted(low)[x]
    <3>1. TAKE x \in Places
    <3>2. CASE x = 0
      BY <1>3, <1>7, <3>2, NothingIs DEF In, h
    <3>3. CASE x = k
      BY <1>7, <1>8, <3>3 DEF In
    <3>4. CASE x # 0 /\ x # k
      BY <1>7, <3>4 DEF h
    <3> QED BY <3>2, <3>3, <3>4
  <2>2. Comes(files, g, Source(low))
    BY <1>1, <2>1, ShiftedComes
  <2> QED BY <1>7, <2>2 DEF g
<1>9. CASE k = MaxFiles /\ t = files[k]
  <2>1. \A x \in Places : g[x] = files[x] \/ In(g, x) = <<>>
    <3>1. TAKE x \in Places
    <3>2. CASE x = 0
      BY <1>7, <3>2, NothingIs DEF In
    <3>3. CASE x = k
      BY <1>7, <1>9, <3>3
    <3>4. CASE x # 0 /\ x # k
      BY <1>4, <1>7, <1>9, <3>4
    <3> QED BY <3>2, <3>3, <3>4
  <2>2. Comes(files, g, [x \in Places |-> x])
    BY <2>1 DEF Comes, In
  <2> QED BY <1>7, <2>2 DEF g
<1> QED BY <1>5, <1>8, <1>9

Emptied == Rotating!With(files, <<>>)

LEMMA EmptiedComes ==
    ASSUME files \in Disks, files[0] = Missing
    PROVE  /\ Emptied \in Disks /\ Emptied[0] = <<>> /\ Comes(files, Emptied, [x \in Places |-> x])
           /\ \A x \in Places : In(Emptied, x) = In(files, x)
<1>1. Emptied \in Disks /\ Emptied[0] = <<>> /\ \A x \in Places : x # 0 => Emptied[x] = files[x]
  BY NothingIs, PlacesAre DEF Emptied, Disks, Rotating!With
<1>2. \A x \in Places : In(Emptied, x) = In(files, x)
  BY <1>1 DEF In
<1>3. Comes(files, Emptied, [x \in Places |-> x])
  BY <1>2 DEF Comes
<1> QED BY <1>1, <1>2, <1>3

LEMMA PartsFinite ==
    ASSUME NEW f \in Disks, NEW x \in Places
    PROVE  IsFiniteSet(Parts(In(f, x))) /\ Cardinality(Parts(In(f, x))) \in Nat
<1>1. Parts(In(f, x)) \subseteq 1..Len(In(f, x)) /\ Len(In(f, x)) \in Nat
  BY InIs DEF Parts
<1>2. IsFiniteSet(1..Len(In(f, x)))
  BY <1>1, FS_Interval
<1> QED BY <1>1, <1>2, FS_Subset, FS_CardinalityType

LEMMA FewMore ==
    ASSUME NEW S, NEW T, NEW x, NEW c \in Nat, IsFiniteSet(S), Cardinality(S) <= c, T \subseteq S \union {x}
    PROVE  Cardinality(T) <= c + 1
<1>1. IsFiniteSet(S \union {x}) /\ Cardinality(S \union {x}) <= Cardinality(S) + 1
      /\ Cardinality(S \union {x}) \in Nat /\ Cardinality(S) \in Nat
  <2>1. /\ IsFiniteSet(S \union {x})
        /\ Cardinality(S \union {x}) = IF x \in S THEN Cardinality(S) ELSE Cardinality(S) + 1
    BY FS_AddElement
  <2>2. Cardinality(S) \in Nat /\ Cardinality(S \union {x}) \in Nat
    BY <2>1, FS_CardinalityType
  <2> QED BY <2>1, <2>2
<1>2. Cardinality(T) <= Cardinality(S \union {x}) /\ Cardinality(T) \in Nat
  BY <1>1, FS_Subset, FS_CardinalityType
<1> QED BY <1>1, <1>2

LEMMA GoodLater ==
    ASSUME NEW f, NEW n \in Int, NEW c \in Nat, Good(f, n, c), NEW m \in {n, n + 1}, NEW d \in {c, c + 1}
    PROVE  Good(f, m, d)
<1>1. UpTo(f, m)
  <2>1. SUFFICES ASSUME NEW x \in Places, NEW k \in DOMAIN In(f, x) PROVE In(f, x)[k].n <= m
    BY DEF UpTo
  <2>2. f \in Disks /\ In(f, x)[k].n <= n
    BY DEF Good, UpTo
  <2>3. In(f, x)[k].n \in Nat
    BY <2>2, InIs
  <2> QED BY <2>2, <2>3
<1>2. FewParts(f, d)
  <2>1. SUFFICES ASSUME NEW x \in Places PROVE Cardinality(Parts(In(f, x))) <= d
    BY DEF FewParts
  <2>2. Cardinality(Parts(In(f, x))) \in Nat /\ Cardinality(Parts(In(f, x))) <= c
    BY PartsFinite DEF Good, FewParts
  <2> QED BY <2>2
<1> QED BY <1>1, <1>2 DEF Good

(* What is appended to the log file: a message for which there is room, or a  *)
(* part of one.                                                             *)
LEMMA AppendKeepsGood ==
    ASSUME NEW f, NEW n \in Nat, NEW c \in Nat, Good(f, n, c), f[0] # Missing, NEW m \in Entry, m.n = n + 1,
           \/ ~m.whole
           \/ f[0] = <<>>
           \/ Rotating!SizeOf(f[0], {TRUE}) + m.size <= MaxSize
    PROVE  /\ Good(Rotating!Write(f, m), n + 1, IF m.whole THEN c ELSE c + 1)
           /\ Rotating!Write(f, m)[0] # Missing
           /\ Rotating!SizeOf(Rotating!Write(f, m)[0], {TRUE})
                 = Rotating!SizeOf(f[0], {TRUE}) + (IF m.whole THEN m.size ELSE 0)
<1> DEFINE g == Rotating!Write(f, m)
           s == f[0]
           d == IF m.whole THEN c ELSE c + 1
<1>1. f \in Disks /\ Fitting(f) /\ FewParts(f, c) /\ Sorted(f) /\ UpTo(f, n) /\ 0 \in Places
  BY PlacesAre DEF Good
<1>2. s \in LogFile
  BY <1>1, InIs
<1>3. g = [f EXCEPT ![0] = Append(s, m)]
  BY DEF Rotating!Write, Rotating!With
<1> HIDE DEF g, s
<1>4. /\ Append(s, m) \in LogFile /\ Len(Append(s, m)) = Len(s) + 1 /\ Append(s, m)[Len(s) + 1] = m
      /\ \A k \in 1..Len(s) : Append(s, m)[k] = s[k]
      /\ Len(s) \in Nat /\ DOMAIN s = 1..Len(s) /\ DOMAIN Append(s, m) = 1..(Len(s) + 1)
  BY <1>2 DEF LogFile
<1>5. g \in Disks /\ g[0] = Append(s, m) /\ \A x \in Places : x # 0 => g[x] = f[x]
  BY <1>1, <1>3, <1>4 DEF Disks
<1>6. Append(s, m) # Missing
  BY <1>4, NothingIs
<1>7. /\ In(g, 0) = Append(s, m) /\ In(f, 0) = s /\ \A x \in Places : x # 0 => In(g, x) = In(f, x)
  BY <1>5, <1>6 DEF In, s
<1>8. /\ Rotating!SizeOf(Append(s, m), {TRUE}) = Rotating!SizeOf(s, {TRUE}) + (IF m.whole THEN m.size ELSE 0)
      /\ Rotating!SizeOf(s, {TRUE}) \in Nat /\ Rotating!SizeOf(Append(s, m), {TRUE}) \in Nat
      /\ m.size \in Nat /\ m.whole \in BOOLEAN
  <2>1. m.size \in Nat /\ m.whole \in BOOLEAN
    BY DEF Entry
  <2>2. Rotating!SizeOf(Append(s, m), {TRUE}) = Rotating!SizeOf(s, {TRUE}) + (IF m.whole \in {TRUE} THEN m.size ELSE 0)
    BY <1>2, SizeOfAppend
  <2>3. m.whole \in {TRUE} <=> m.whole
    BY <2>1
  <2>4. Rotating!SizeOf(s, {TRUE}) \in Nat /\ Rotating!SizeOf(Append(s, m), {TRUE}) \in Nat
    BY <1>2, <1>4, SizeOfType
  <2> QED BY <2>1, <2>2, <2>3, <2>4
<1>9. Fitting(g)
  <2>1. SUFFICES ASSUME NEW x \in Places, Rotating!SizeOf(In(g, x), {TRUE}) > MaxSize
                 PROVE  Single(In(g, x))
    BY DEF Fitting, WithinSize
  <2>2. CASE x # 0
    BY <1>1, <1>7, <2>1, <2>2 DEF Fitting, WithinSize
  <2>3. CASE x = 0 /\ s = <<>>
    <3>1. DOMAIN Append(s, m) = 1..1
      BY <1>4, <2>3
    <3> QED BY <1>7, <2>3, <3>1 DEF Single
  <2>4. CASE x = 0 /\ ~m.whole
    <3>1. Rotating!SizeOf(s, {TRUE}) > MaxSize
      <4>1. (IF m.whole THEN m.size ELSE 0) = 0
        BY <2>4
      <4>2. Rotating!SizeOf(In(g, x), {TRUE}) = Rotating!SizeOf(s, {TRUE})
        <5>1. In(g, x) = Append(s, m)
          BY <1>7, <2>4
        <5>2. Rotating!SizeOf(Append(s, m), {TRUE}) = Rotating!SizeOf(s, {TRUE}) + 0
          BY <1>8, <4>1
        <5>3. Rotating!SizeOf(Append(s, m), {TRUE}) = Rotating!SizeOf(s, {TRUE})
          BY <1>8, <5>2
        <5> QED BY <5>1, <5>3
      <4> QED BY <2>1, <4>2
    <3>2. Single(s)
      BY <1>1, <1>7, <3>1 DEF Fitting, WithinSize
    <3>3. \A k \in DOMAIN Append(s, m) : Append(s, m)[k].whole => k \in DOMAIN s /\ s[k].whole
      <4>1. TAKE k \in DOMAIN Append(s, m)
      <4>2. CASE k = Len(s) + 1
        BY <1>4, <2>4, <4>2
      <4>3. CASE k # Len(s) + 1
        <5>1. k \in 1..Len(s)
          BY <1>4, <4>3
        <5> QED BY <1>4, <5>1
      <4> QED BY <4>2, <4>3
    <3> QED BY <1>7, <2>4, <3>2, <3>3 DEF Single
  <2>5. CASE x = 0 /\ m.whole /\ s # <<>>
    <3>1. Rotating!SizeOf(s, {TRUE}) + m.size <= MaxSize
      BY <2>5 DEF s
    <3>2. Rotating!SizeOf(In(g, x), {TRUE}) = Rotating!SizeOf(s, {TRUE}) + m.size
      BY <1>7, <1>8, <2>5
    <3>3. MaxSize \in Nat
      BY RotatingAssumption
    <3> QED BY <1>8, <2>1, <3>1, <3>2, <3>3
  <2> QED BY <1>8, <2>2, <2>3, <2>4, <2>5
<1>10. FewParts(g, d)
  <2>1. SUFFICES ASSUME NEW x \in Places PROVE Cardinality(Parts(In(g, x))) <= d
    BY DEF FewParts
  <2>2. /\ Cardinality(Parts(In(f, x))) <= c /\ Cardinality(Parts(In(f, x))) \in Nat
        /\ IsFiniteSet(Parts(In(f, x)))
    BY <1>1, PartsFinite DEF FewParts
  <2>3. CASE x # 0
    BY <1>7, <2>2, <2>3
  <2>4. CASE x = 0 /\ m.whole
    <3>1. Parts(In(g, x)) = Parts(In(f, x))
      <4>1. \A k \in 1..(Len(s) + 1) : ~Append(s, m)[k].whole <=> k \in 1..Len(s) /\ ~s[k].whole
        <5>1. TAKE k \in 1..(Len(s) + 1)
        <5>2. CASE k = Len(s) + 1
          BY <1>4, <2>4, <5>2
        <5>3. CASE k # Len(s) + 1
          <6>1. k \in 1..Len(s)
            BY <1>4, <5>3
          <6> QED BY <1>4, <6>1
        <5> QED BY <5>2, <5>3
      <4>2. 1..Len(s) \subseteq 1..(Len(s) + 1)
        BY <1>4
      <4> QED BY <1>4, <1>7, <2>4, <4>1, <4>2 DEF Parts
    <3> QED BY <2>2, <2>4, <3>1
  <2>5. CASE x = 0 /\ ~m.whole
    <3>1. Parts(In(g, x)) \subseteq Parts(In(f, x)) \union {Len(s) + 1}
      <4>1. SUFFICES ASSUME NEW k \in 1..(Len(s) + 1), k # Len(s) + 1, ~Append(s, m)[k].whole
                     PROVE  k \in 1..Len(s) /\ ~s[k].whole
        BY <1>4, <1>7, <2>5 DEF Parts
      <4>2. k \in 1..Len(s)
        BY <1>4, <4>1
      <4> QED BY <1>4, <4>1, <4>2
    <3> QED BY <2>2, <2>5, <3>1, FewMore
  <2> QED BY <1>8, <2>3, <2>4, <2>5
<1>11. ASSUME NEW x \in Places, NEW k \in DOMAIN In(g, x)
       PROVE  \/ k \in DOMAIN In(f, x) /\ In(g, x)[k] = In(f, x)[k]
              \/ x = 0 /\ k = Len(s) + 1 /\ In(g, x)[k] = m
  <2>1. CASE x # 0
    BY <1>7, <1>11, <2>1
  <2>2. CASE x = 0
    <3>1. k \in 1..(Len(s) + 1)
      BY <1>4, <1>7, <1>11, <2>2
    <3>2. CASE k = Len(s) + 1
      BY <1>4, <1>7, <2>2, <3>2
    <3>3. CASE k # Len(s) + 1
      <4>1. k \in 1..Len(s)
        BY <1>4, <3>1, <3>3
      <4> QED BY <1>4, <1>7, <2>2, <4>1
    <3> QED BY <3>2, <3>3
  <2> QED BY <2>1, <2>2
<1>12. \A x \in Places : \A k \in DOMAIN In(f, x) : In(f, x)[k].n \in Nat /\ In(f, x)[k].n <= n
       /\ (x = 0 => k <= Len(s))
  <2>1. TAKE x \in Places
  <2>2. TAKE k \in DOMAIN In(f, x)
  <2>3. In(f, x)[k].n \in Nat /\ In(f, x)[k].n <= n
    BY <1>1, InIs DEF UpTo
  <2>4. x = 0 => k <= Len(s)
    BY <1>4, <1>7
  <2> QED BY <2>3, <2>4
<1>13. Sorted(g)
  <2>1. SUFFICES ASSUME NEW x \in Places, NEW y \in Places, NEW k \in DOMAIN In(g, x), NEW l \in DOMAIN In(g, y),
                        x > y \/ (x = y /\ k < l)
                 PROVE  In(g, x)[k].n < In(g, y)[l].n
    BY DEF Sorted
  <2>2. x \in Nat /\ y \in Nat
    BY PlacesAre
  <2>3. k \in DOMAIN In(f, x) /\ In(g, x)[k] = In(f, x)[k]
    <3>1. CASE x = 0 /\ k = Len(s) + 1
      <4>1. x = y /\ k < l
        BY <2>1, <2>2, <3>1
      <4>2. l \in 1..(Len(s) + 1)
        BY <1>4, <1>7, <3>1, <4>1
      <4> QED BY <1>4, <3>1, <4>1, <4>2
    <3> QED BY <1>11, <3>1
  <2>4. CASE l \in DOMAIN In(f, y) /\ In(g, y)[l] = In(f, y)[l]
    BY <1>1, <2>1, <2>3, <2>4 DEF Sorted
  <2>5. CASE y = 0 /\ l = Len(s) + 1 /\ In(g, y)[l] = m
    <3>1. In(g, x)[k].n \in Nat /\ In(g, x)[k].n <= n
      BY <1>12, <2>3
    <3> QED BY <2>5, <3>1
  <2> QED BY <1>11, <2>4, <2>5
<1>14. UpTo(g, n + 1)
  <2>1. SUFFICES ASSUME NEW x \in Places, NEW k \in DOMAIN In(g, x) PROVE In(g, x)[k].n <= n + 1
    BY DEF UpTo
  <2>2. CASE k \in DOMAIN In(f, x) /\ In(g, x)[k] = In(f, x)[k]
    <3>1. In(f, x)[k].n \in Nat /\ In(f, x)[k].n <= n
      BY <1>12, <2>2
    <3> QED BY <2>2, <3>1
  <2>3. CASE In(g, x)[k] = m
    BY <2>3
  <2> QED BY <1>11, <2>2, <2>3
<1>15. Good(g, n + 1, d)
  BY <1>5, <1>9, <1>10, <1>13, <1>14 DEF Good
<1> QED BY <1>5, <1>6, <1>8, <1>15 DEF g, s

LEMMA PartIs ==
    ASSUME NEW m \in Entry, NEW b \in Nat
    PROVE  LET p == Rotating!Part(m, b)
           IN  p \in Entry /\ p.n = m.n /\ p.size = b /\ p.whole = FALSE
<1>1. m.n \in Number
  BY DEF Entry
<1> QED BY <1>1 DEF Rotating!Part, Entry

(* What is left of the log file when some of it did not reach the disk. *)
LEMMA CutIs ==
    ASSUME NEW s \in LogFile, NEW first \in Nat, NEW r \in Rotating!Cut(s, first)
    PROVE  /\ r \in LogFile /\ Len(r) \in Nat /\ Len(r) <= Len(s)
           /\ \A k \in 1..Len(r) : r[k].n = s[k].n /\ r[k].size <= s[k].size
           /\ \A k \in 1..Len(r) : k # Len(r) => r[k] = s[k]
           /\ \A k \in 1..Len(r) : r[k].whole => r[k] = s[k]
<1>1. /\ Len(s) \in Nat /\ \A k \in 1..Len(s) : s[k] \in Entry
  BY DEF LogFile
<1>2. \A m \in Entry : m.size \in Nat /\ m.n \in Number
  BY DEF Entry
<1>3. ASSUME NEW k \in first..Len(s), r = SubSeq(s, 1, k)
      PROVE  r \in LogFile /\ Len(r) = k /\ \A l \in 1..k : r[l] = s[l]
  <2>1. k \in 0..Len(s)
    BY <1>1
  <2> QED BY <1>1, <1>3, <2>1 DEF LogFile
<1>4. CASE \E k \in first..Len(s) : r = SubSeq(s, 1, k)
  <2>1. PICK k \in first..Len(s) : r = SubSeq(s, 1, k)
    BY <1>4
  <2>2. r \in LogFile /\ Len(r) = k /\ \A l \in 1..k : r[l] = s[l]
    BY <1>3, <2>1
  <2>3. k \in Nat /\ k <= Len(s)
    BY <1>1
  <2>4. \A l \in 1..k : s[l].size <= s[l].size
    BY <1>1, <1>2, <2>3
  <2> QED BY <2>2, <2>3, <2>4
<1>5. CASE \E k \in (first + 1)..Len(s) : \E b \in 1..(s[k].size - 1) :
              r = Append(SubSeq(s, 1, k - 1), Rotating!Part(s[k], b))
  <2>0. PICK k \in (first + 1)..Len(s) : \E b \in 1..(s[k].size - 1) :
              r = Append(SubSeq(s, 1, k - 1), Rotating!Part(s[k], b))
    BY <1>5
  <2>1. PICK b \in 1..(s[k].size - 1) : r = Append(SubSeq(s, 1, k - 1), Rotating!Part(s[k], b))
    BY <2>0
  <2> DEFINE p == Rotating!Part(s[k], b)
             w == SubSeq(s, 1, k - 1)
  <2>2. k \in 1..Len(s) /\ s[k] \in Entry /\ s[k].size \in Nat /\ b \in Nat
    BY <1>1, <1>2
  <2>3. p \in Entry /\ p.n = s[k].n /\ p.size = b /\ ~p.whole /\ b <= s[k].size
    <3>1. b <= s[k].size
      BY <2>2
    <3> QED BY <2>2, <3>1, PartIs
  <2>4. w \in LogFile /\ Len(w) = k - 1 /\ \A l \in 1..(k - 1) : w[l] = s[l]
    <3>1. k - 1 \in 0..Len(s)
      BY <2>2
    <3> QED BY <3>1 DEF LogFile
  <2> HIDE DEF p, w
  <2>5. r = Append(w, p)
    BY <2>1 DEF p, w
  <2>6. r \in LogFile /\ Len(r) = k /\ r[k] = p /\ \A l \in 1..(k - 1) : r[l] = s[l]
    <3>1. Len(r) = Len(w) + 1 /\ r \in LogFile /\ r[Len(w) + 1] = p /\ \A l \in 1..Len(w) : r[l] = w[l]
      BY <2>3, <2>4, <2>5 DEF LogFile
    <3> QED BY <2>2, <2>4, <3>1
  <2>7. \A l \in 1..k : l = k \/ (l \in 1..(k - 1) /\ r[l] = s[l] /\ s[l].size <= s[l].size)
    BY <1>1, <1>2, <2>2, <2>6
  <2> QED BY <2>2, <2>3, <2>6, <2>7
<1> QED BY <1>4, <1>5 DEF Rotating!Cut

LEMMA CutKeepsGood ==
    ASSUME NEW f, NEW n \in Nat, NEW c \in Nat, Good(f, n, c), f[0] # Missing,
           NEW first \in Nat, NEW r \in Rotating!Cut(f[0], first)
    PROVE  /\ Good(Rotating!With(f, r), n, c + 1)
           /\ Rotating!With(f, r)[0] = r /\ r # Missing
           /\ Rotating!SizeOf(r, {TRUE}) <= Rotating!SizeOf(f[0], {TRUE})
<1> DEFINE g == Rotating!With(f, r)
           s == f[0]
<1>1. f \in Disks /\ Fitting(f) /\ FewParts(f, c) /\ Sorted(f) /\ UpTo(f, n) /\ 0 \in Places
  BY PlacesAre DEF Good
<1>2. s \in LogFile /\ In(f, 0) = s
  BY <1>1, InIs
<1>3. g = [f EXCEPT ![0] = r] /\ r \in Rotating!Cut(s, first)
  BY DEF Rotating!With
<1> HIDE DEF g, s
<1>4. /\ r \in LogFile /\ Len(r) \in Nat /\ Len(r) <= Len(s)
      /\ \A k \in 1..Len(r) : r[k].n = s[k].n
      /\ \A k \in 1..Len(r) : k # Len(r) => r[k] = s[k]
      /\ \A k \in 1..Len(r) : r[k].whole => r[k] = s[k]
  BY <1>2, <1>3, CutIs
<1>5. DOMAIN r = 1..Len(r) /\ DOMAIN s = 1..Len(s) /\ Len(s) \in Nat /\ r # Missing /\ 1..Len(r) \subseteq 1..Len(s)
  <2>1. DOMAIN r = 1..Len(r) /\ DOMAIN s = 1..Len(s) /\ Len(s) \in Nat
    BY <1>2, <1>4 DEF LogFile
  <2>2. r # Missing
    BY <1>4, NothingIs, Zenon
  <2>3. 1..Len(r) \subseteq 1..Len(s)
    <3>1. Len(r) \in Nat /\ Len(s) \in Nat /\ Len(r) <= Len(s)
      BY <1>4, <2>1
    <3> DEFINE p == Len(r)
               w == Len(s)
    <3> HIDE DEF p, w
    <3>2. p \in Nat /\ w \in Nat /\ p <= w
      BY <3>1 DEF p, w
    <3>3. 1..p \subseteq 1..w
      BY ONLY <3>2
    <3> QED BY <3>3 DEF p, w
  <2> QED BY <2>1, <2>2, <2>3
<1>6. g \in Disks /\ g[0] = r /\ \A x \in Places : x # 0 => g[x] = f[x]
  BY <1>1, <1>3, <1>4 DEF Disks
<1>7. In(g, 0) = r /\ \A x \in Places : x # 0 => In(g, x) = In(f, x)
  BY <1>5, <1>6 DEF In
<1>8. /\ Rotating!SizeOf(r, {TRUE}) <= Rotating!SizeOf(s, {TRUE})
      /\ Rotating!SizeOf(r, {TRUE}) \in Nat /\ Rotating!SizeOf(s, {TRUE}) \in Nat
  <2>1. ASSUME NEW x \in 1..Len(r) PROVE Weight(r, {TRUE}, x) <= Weight(s, {TRUE}, x)
    <3>1. Weight(s, {TRUE}, x) \in Nat
      BY <1>2, <1>5, WeightType
    <3>2. CASE r[x].whole \in {TRUE}
      <4>1. r[x].whole
        BY <3>2
      <4>2. r[x] = s[x]
        BY <1>4, <4>1
      <4>3. Weight(r, {TRUE}, x) = Weight(s, {TRUE}, x)
        BY <4>2 DEF Weight
      <4> QED BY <3>1, <4>3
    <3>3. CASE ~(r[x].whole \in {TRUE})
      <4>1. Weight(r, {TRUE}, x) = 0
        BY <3>3, Zenon DEF Weight
      <4> QED BY <3>1, <4>1
    <3> QED BY <3>2, <3>3
  <2> QED BY <1>2, <1>4, <2>1, SizeOfLess, SizeOfType
<1>9. Fitting(g)
  <2>1. SUFFICES ASSUME NEW x \in Places, Rotating!SizeOf(In(g, x), {TRUE}) > MaxSize
                 PROVE  Single(In(g, x))
    BY DEF Fitting, WithinSize
  <2>2. CASE x # 0
    BY <1>1, <1>7, <2>1, <2>2 DEF Fitting, WithinSize
  <2>3. CASE x = 0
    <3>1. Rotating!SizeOf(s, {TRUE}) > MaxSize
      <4>1. Rotating!SizeOf(r, {TRUE}) > MaxSize
        BY <1>7, <2>1, <2>3
      <4>2. MaxSize \in Nat
        BY RotatingAssumption
      <4> QED BY <1>8, <4>1, <4>2
    <3>2. Single(s)
      BY <1>1, <1>2, <3>1 DEF Fitting, WithinSize
    <3>3. \A k \in DOMAIN r : r[k].whole => k \in DOMAIN s /\ s[k].whole
      BY <1>4, <1>5
    <3> QED BY <1>7, <2>3, <3>2, <3>3 DEF Single
  <2> QED BY <2>2, <2>3
<1>10. FewParts(g, c + 1)
  <2>1. SUFFICES ASSUME NEW x \in Places PROVE Cardinality(Parts(In(g, x))) <= c + 1
    BY DEF FewParts
  <2>2. /\ Cardinality(Parts(In(f, x))) <= c /\ Cardinality(Parts(In(f, x))) \in Nat
        /\ IsFiniteSet(Parts(In(f, x)))
    BY <1>1, PartsFinite DEF FewParts
  <2>3. Parts(In(g, x)) \subseteq Parts(In(f, x)) \union {Len(r)}
    <3>1. CASE x # 0
      BY <1>7, <3>1
    <3>2. CASE x = 0
      <4>1. \A k \in 1..Len(r) : k # Len(r) /\ ~r[k].whole => k \in DOMAIN s /\ ~s[k].whole
        BY <1>4, <1>5
      <4> QED BY <1>2, <1>5, <1>7, <3>2, <4>1 DEF Parts
    <3> QED BY <3>1, <3>2
  <2> QED BY <2>2, <2>3, FewMore
<1>11. ASSUME NEW x \in Places, NEW k \in DOMAIN In(g, x)
       PROVE  k \in DOMAIN In(f, x) /\ In(g, x)[k].n = In(f, x)[k].n
  <2>1. CASE x # 0
    BY <1>7, <1>11, <2>1
  <2>2. CASE x = 0
    BY <1>2, <1>4, <1>5, <1>7, <1>11, <2>2
  <2> QED BY <2>1, <2>2
<1>12. Sorted(g)
  <2>1. SUFFICES ASSUME NEW x \in Places, NEW y \in Places, NEW k \in DOMAIN In(g, x), NEW l \in DOMAIN In(g, y),
                        x > y \/ (x = y /\ k < l)
                 PROVE  In(g, x)[k].n < In(g, y)[l].n
    BY DEF Sorted
  <2> QED BY <1>1, <1>11, <2>1 DEF Sorted
<1>13. UpTo(g, n)
  <2>1. SUFFICES ASSUME NEW x \in Places, NEW k \in DOMAIN In(g, x) PROVE In(g, x)[k].n <= n
    BY DEF UpTo
  <2> QED BY <1>1, <1>11, <2>1 DEF UpTo
<1> QED BY <1>5, <1>6, <1>8, <1>9, <1>10, <1>12, <1>13 DEF Good, g, s

LEMMA WholeIsLess ==
    ASSUME NEW f \in LogFile
    PROVE  Rotating!SizeOf(f, {TRUE}) <= Rotating!SizeOf(f, BOOLEAN)
<1>1. ASSUME NEW x \in 1..Len(f) PROVE Weight(f, {TRUE}, x) <= Weight(f, BOOLEAN, x)
  <2>1. Weight(f, BOOLEAN, x) \in Nat /\ f[x].whole \in BOOLEAN
    BY WeightType DEF Entry
  <2>2. Weight(f, {TRUE}, x) = Weight(f, BOOLEAN, x) \/ Weight(f, {TRUE}, x) = 0
    BY <2>1, Zenon DEF Weight
  <2> QED BY <2>1, <2>2
<1>2. Len(f) \in Nat
  BY DEF LogFile
<1> QED BY <1>1, <1>2, SizeOfLess

(* Without failures the messages that are kept reach up to the last. *)
IsKept(f, x) == \E y \in Places : \E k \in DOMAIN In(f, y) : x = In(f, y)[k].n /\ In(f, y)[k].whole
Closed(f, n) == \A x \in Nat, z \in Nat : IsKept(f, x) /\ x <= z /\ z <= n => IsKept(f, z)

LEMMA WriteCloses ==
    ASSUME NEW f \in Disks, NEW n \in Nat, Closed(f, n), f[0] # Missing, NEW m \in Entry, m.n = n + 1, m.whole
    PROVE  Closed(Rotating!Write(f, m), n + 1)
<1> DEFINE g == Rotating!Write(f, m)
           s == f[0]
<1>1. s \in LogFile /\ 0 \in Places
  BY PlacesAre, InIs
<1>2. g = [f EXCEPT ![0] = Append(s, m)]
  BY DEF Rotating!Write, Rotating!With
<1> HIDE DEF g, s
<1>3. /\ Append(s, m) \in LogFile /\ Append(s, m)[Len(s) + 1] = m
      /\ \A k \in 1..Len(s) : Append(s, m)[k] = s[k]
      /\ Len(s) \in Nat /\ DOMAIN s = 1..Len(s) /\ DOMAIN Append(s, m) = 1..(Len(s) + 1)
  BY <1>1 DEF LogFile
<1>4. Append(s, m) # Missing
  BY <1>3, NothingIs
<1>5. /\ In(g, 0) = Append(s, m) /\ In(f, 0) = s /\ \A x \in Places : x # 0 => In(g, x) = In(f, x)
  BY <1>1, <1>2, <1>4 DEF In, s, Disks
<1>6. IsKept(g, n + 1)
  <2>1. Len(s) + 1 \in DOMAIN In(g, 0)
    BY <1>3, <1>5
  <2>2. In(g, 0)[Len(s) + 1].n = n + 1 /\ In(g, 0)[Len(s) + 1].whole
    BY <1>3, <1>5
  <2> QED BY <1>1, <2>1, <2>2 DEF IsKept
<1>7. ASSUME NEW x, IsKept(f, x) PROVE IsKept(g, x)
  <2>1. PICK y \in Places : \E k \in DOMAIN In(f, y) : x = In(f, y)[k].n /\ In(f, y)[k].whole
    BY <1>7 DEF IsKept
  <2>2. PICK k \in DOMAIN In(f, y) : x = In(f, y)[k].n /\ In(f, y)[k].whole
    BY <2>1
  <2>3. k \in DOMAIN In(g, y) /\ In(g, y)[k] = In(f, y)[k]
    <3>1. CASE y # 0
      BY <1>5, <3>1
    <3>2. CASE y = 0
      <4>1. k \in 1..Len(s) /\ k \in 1..(Len(s) + 1)
        BY <1>3, <1>5, <3>2
      <4> QED BY <1>3, <1>5, <3>2, <4>1
    <3> QED BY <3>1, <3>2
  <2> QED BY <2>2, <2>3 DEF IsKept
<1>8. ASSUME NEW x, IsKept(g, x) PROVE IsKept(f, x) \/ x = n + 1
  <2>1. PICK y \in Places : \E k \in DOMAIN In(g, y) : x = In(g, y)[k].n /\ In(g, y)[k].whole
    BY <1>8 DEF IsKept
  <2>2. PICK k \in DOMAIN In(g, y) : x = In(g, y)[k].n /\ In(g, y)[k].whole
    BY <2>1
  <2>3. CASE y # 0
    BY <1>5, <2>2, <2>3 DEF IsKept
  <2>4. CASE y = 0
    <3>1. k \in 1..(Len(s) + 1)
      BY <1>3, <1>5, <2>4
    <3>2. CASE k = Len(s) + 1
      BY <1>3, <1>5, <2>2, <2>4, <3>2
    <3>3. CASE k # Len(s) + 1
      <4>1. k \in 1..Len(s)
        BY <1>3, <3>1, <3>3
      <4>2. k \in DOMAIN In(f, 0) /\ x = In(f, 0)[k].n /\ In(f, 0)[k].whole
        BY <1>3, <1>5, <2>2, <2>4, <4>1
      <4> QED BY <1>1, <4>2 DEF IsKept
    <3> QED BY <3>2, <3>3
  <2> QED BY <2>3, <2>4
<1>9. ASSUME NEW x \in Nat, NEW z \in Nat, IsKept(g, x), x <= z, z <= n + 1 PROVE IsKept(g, z)
  <2>1. CASE z = n + 1
    BY <1>6, <2>1
  <2>2. CASE z # n + 1
    <3>1. z <= n /\ x # n + 1
      BY <1>9, <2>2
    <3>2. IsKept(f, x)
      BY <1>8, <1>9, <3>1
    <3> QED BY <1>7, <1>9, <3>1, <3>2 DEF Closed
  <2> QED BY <2>1, <2>2
<1> QED BY <1>9 DEF Closed, g

LEMMA RotatedCloses ==
    ASSUME NEW n \in Nat, NEW c \in Nat, Good(files, n, c), Closed(files, n)
    PROVE  Closed(Rotating!Rotated, n)
<1> DEFINE g == Rotating!Rotated
           src == Source(1)
<1>1. files \in Disks /\ Sorted(files) /\ Comes(files, g, src) /\ 0 \in Places
  BY RotatedComes, PlacesAre DEF Good
<1>2. /\ g[0] = <<>>
      /\ \A x \in Places : x # 0 => g[x] = IF files[x - 1] # Missing THEN files[x - 1]
                                           ELSE IF x = MaxFiles THEN files[x] ELSE Missing
  <2>1. \A x \in Places : x # 0 => ~(x < 1)
    BY PlacesAre
  <2>2. Rotating!Shifted(1) \in Disks
    BY <1>1, ShiftedType
  <2>3. g[0] = <<>> /\ \A x \in Places : x # 0 => g[x] = Rotating!Shifted(1)[x]
    BY <1>1, <2>2 DEF Rotating!Rotated, Disks
  <2> HIDE DEF g
  <2> QED BY <2>1, <2>3 DEF Rotating!Shifted, Rotating!Exists, Places
<1>3. \A x \in Places : src[x] = IF x >= 1 /\ files[x - 1] # Missing THEN x - 1 ELSE x
  BY DEF Source
<1> HIDE DEF g, src
<1>4. ASSUME NEW x \in Nat, NEW z \in Nat, IsKept(g, x), x <= z, z <= n PROVE IsKept(g, z)
  <2>1. PICK y \in Places : \E k \in DOMAIN In(g, y) : x = In(g, y)[k].n /\ In(g, y)[k].whole
    BY <1>4 DEF IsKept
  <2>2. PICK k \in DOMAIN In(g, y) : x = In(g, y)[k].n /\ In(g, y)[k].whole
    BY <2>1
  <2>3. y # 0 /\ In(g, y) = In(files, src[y]) /\ src[y] \in Places /\ k \in DOMAIN In(files, src[y])
    <3>1. In(g, y) # <<>>
      BY <2>2
    <3> QED BY <1>1, <1>2, <2>2, <3>1 DEF Comes, In
  <2>4. x = In(files, src[y])[k].n /\ In(files, src[y])[k].whole
    BY <2>2, <2>3
  <2>5. IsKept(files, z)
    <3>1. IsKept(files, x)
      BY <2>3, <2>4 DEF IsKept
    <3> QED BY <1>4, <3>1 DEF Closed
  <2>6. PICK w \in Places : \E l \in DOMAIN In(files, w) : z = In(files, w)[l].n /\ In(files, w)[l].whole
    BY <2>5 DEF IsKept
  <2>7. PICK l \in DOMAIN In(files, w) : z = In(files, w)[l].n /\ In(files, w)[l].whole
    BY <2>6
  <2>8. w <= src[y] /\ w \in Nat /\ y \in Nat /\ y <= MaxFiles /\ w <= MaxFiles /\ MaxFiles \in Nat /\ src[y] \in Nat
    <3>1. ~(w > src[y])
      BY <1>1, <1>4, <2>3, <2>4, <2>7 DEF Sorted
    <3> QED BY <2>3, <3>1, PlacesAre
  <2>9. files[w] # Missing
    BY <2>7 DEF In
  <2>10. CASE w < MaxFiles
    <3> DEFINE v == w + 1
    <3>1. v \in Places /\ v # 0 /\ v - 1 = w
      BY <2>8, <2>10, PlacesAre
    <3> HIDE DEF v
    <3>2. In(g, v) = In(files, w)
      BY <1>2, <2>9, <3>1 DEF In
    <3> QED BY <2>7, <3>1, <3>2 DEF IsKept
  <2>11. CASE w = MaxFiles
    <3>1. src[y] = MaxFiles /\ y = MaxFiles
      BY <1>3, <2>8, <2>11
    <3> QED BY <2>3, <2>7, <2>11, <3>1 DEF IsKept
  <2> QED BY <2>8, <2>10, <2>11
<1> QED BY <1>4 DEF Closed, g

-----------------------------------------------------------------------------
(* The rotating sink: what its files are in every reachable state.  An open  *)
(* sink has counted at least the messages of its file, for a failed write is *)
(* not counted and a failed flush takes nothing back; while nothing has      *)
(* failed the sink is open.                                                 *)

RotatingInv ==
    /\ logged \in Nat /\ faults \in Nat /\ current_size_ \in Nat /\ on_disk \in Nat
    /\ fd_ \in BOOLEAN /\ alive \in BOOLEAN /\ (fd_ => alive)
    /\ Good(files, logged, faults)
    /\ fd_ => files[0] # Missing /\ Rotating!SizeOf(files[0], {TRUE}) <= current_size_
    /\ faults = 0 => (alive => fd_) /\ Closed(files, logged)

LEMMA RotatingStarts == ASSUME Rotating!Init PROVE RotatingInv
<1>1. /\ files = [i \in Places |-> IF i = 0 THEN <<>> ELSE Missing]
      /\ fd_ = TRUE /\ alive = TRUE /\ current_size_ = 0 /\ on_disk = 0 /\ logged = 0 /\ faults = 0
  BY DEF Rotating!Init, Places
<1>2. files \in Disks /\ files[0] = <<>> /\ \A x \in Places : In(files, x) = <<>>
  BY <1>1, NothingIs, PlacesAre DEF Disks, In
<1>3. Fitting(files) /\ FewParts(files, 0)
  BY <1>2, NothingIs DEF Fitting, FewParts
<1>4. Good(files, logged, faults)
  BY <1>1, <1>2, <1>3 DEF Good, Sorted, UpTo
<1>5. Closed(files, logged)
  BY <1>2 DEF Closed, IsKept
<1>6. Rotating!SizeOf(files[0], {TRUE}) = 0
  BY <1>2, SizeOfNothing
<1> QED BY <1>1, <1>2, <1>4, <1>5, <1>6, NothingIs DEF RotatingInv

LEMMA SameIsClosed ==
    ASSUME NEW f, NEW g, NEW n, Closed(f, n), \A x \in Places : In(g, x) = In(f, x)
    PROVE  Closed(g, n)
<1>1. \A x : IsKept(f, x) <=> IsKept(g, x)
  BY DEF IsKept
<1> QED BY <1>1 DEF Closed

(* A failure, after which the files are good and the sink is closed, or has   *)
(* still counted at least its messages.                                     *)
LEMMA FailureKeeps ==
    ASSUME RotatingInv, faults' = faults + 1, logged' \in {logged, logged + 1}, current_size_' \in Nat,
           on_disk' \in Nat, fd_' \in BOOLEAN, alive' \in BOOLEAN,
           NEW n \in {logged, logged + 1}, NEW c \in {faults, faults + 1}, n <= logged',
           Good(files', n, c),
           fd_' => alive',
           fd_' => files'[0] # Missing /\ Rotating!SizeOf(files'[0], {TRUE}) <= current_size_'
    PROVE  RotatingInv'
<1>1. logged \in Nat /\ faults \in Nat
  BY DEF RotatingInv
<1>2. n \in Int /\ c \in Nat /\ logged' \in {n, n + 1} /\ faults' \in {c, c + 1} /\ logged' \in Nat
      /\ faults' \in Nat /\ faults' # 0
  BY <1>1
<1>3. Good(files', logged', faults')
  BY <1>2, GoodLater
<1>4. Good(files, logged, faults)' /\ (Rotating!SizeOf(files[0], {TRUE}))' = Rotating!SizeOf(files'[0], {TRUE})
  BY <1>3 DEF Good, Disks, Fitting, FewParts, Sorted, UpTo, In, WithinSize, Single, Parts, Places,
              Rotating!Index, Rotating!SizeOf, Entry, Number, LogFile
<1> QED BY <1>2, <1>3, <1>4 DEF RotatingInv

LEMMA WritesOut ==
    ASSUME RotatingInv, fd_, logged' = logged + 1,
           NEW m \in Entry, m.n = logged + 1, m.whole,
           NEW fs, Good(fs, logged, faults), fs[0] # Missing, faults = 0 => Closed(fs, logged),
           NEW first \in Nat, NEW sum \in Nat,
           Rotating!SizeOf(fs[0], {TRUE}) <= current_size_,
           Rotating!SizeOf(fs[0], {TRUE}) + m.size <= sum,
           fs[0] = <<>> \/ Rotating!SizeOf(fs[0], {TRUE}) + m.size <= MaxSize,
           Rotating!WriteOut(fs, first, sum, m)
    PROVE  RotatingInv'
<1>1. /\ logged \in Nat /\ faults \in Nat /\ current_size_ \in Nat /\ fd_ \in BOOLEAN /\ alive \in BOOLEAN
      /\ (fd_ => alive) /\ fd_' = fd_ /\ alive' = alive /\ on_disk' = first /\ on_disk' \in Nat /\ logged' \in Nat /\ fd_' = TRUE
  BY DEF RotatingInv, Rotating!WriteOut
<1>2. fs \in Disks /\ fs[0] \in LogFile
  BY PlacesAre, InIs DEF Good
<1>3. m.size \in Nat /\ Rotating!SizeOf(fs[0], {TRUE}) \in Nat
  BY <1>2, SizeOfType DEF Entry
<1>4. CASE files' = Rotating!Write(fs, m) /\ current_size_' = sum /\ faults' = faults
  <2> DEFINE g == Rotating!Write(fs, m)
  <2>1. /\ Good(g, logged + 1, faults) /\ g[0] # Missing
        /\ Rotating!SizeOf(g[0], {TRUE}) = Rotating!SizeOf(fs[0], {TRUE}) + m.size
    BY <1>1, AppendKeepsGood
  <2>2. faults = 0 => Closed(g, logged + 1)
    BY <1>1, <1>2, WriteCloses
  <2> HIDE DEF g
  <2>3. files' = g
    BY <1>4 DEF g
  <2>4. Good(files, logged, faults)' /\ (Rotating!SizeOf(files[0], {TRUE}))' = Rotating!SizeOf(g[0], {TRUE})
    BY <1>4, <2>1, <2>3
  <2>5. faults = 0 => Closed(files, logged)'
    BY <2>2, <2>3
  <2>6. Rotating!SizeOf(g[0], {TRUE}) <= current_size_'
    BY <1>4, <2>1
  <2>7. files'[0] # Missing
    BY <2>1, <2>3
  <2>8. current_size_' \in Nat /\ faults' \in Nat
    BY <1>1, <1>4
  <2> QED BY <1>1, <1>4, <2>4, <2>5, <2>6, <2>7, <2>8 DEF RotatingInv
<1>5. ASSUME faults' = faults + 1, current_size_' = current_size_, NEW r \in Rotating!Cut(fs[0], first),
             files' = Rotating!With(fs, r)
      PROVE  RotatingInv'
  <2> DEFINE g == Rotating!With(fs, r)
  <2>1. Good(g, logged, faults + 1) /\ g[0] = r /\ r # Missing
        /\ Rotating!SizeOf(r, {TRUE}) <= Rotating!SizeOf(fs[0], {TRUE})
    BY <1>1, CutKeepsGood
  <2>2. r \in LogFile
    BY <1>2, CutIs
  <2>3. Rotating!SizeOf(r, {TRUE}) \in Nat
    BY <2>2, SizeOfType
  <2> HIDE DEF g
  <2>4. files' = g
    BY <1>5 DEF g
  <2>5. Rotating!SizeOf(g[0], {TRUE}) <= current_size_'
    BY <1>1, <1>3, <1>5, <2>1, <2>3
  <2>6. (fd_' => alive') /\ current_size_' \in Nat /\ logged <= logged' /\ logged' \in {logged, logged + 1}
    BY <1>1, <1>5
  <2> QED BY <1>1, <1>5, <2>1, <2>4, <2>5, <2>6, FailureKeeps
<1>6. ASSUME faults' = faults + 1, current_size_' = current_size_, NEW b \in 1..(m.size - 1),
             files' = Rotating!Write(fs, Rotating!Part(m, b))
      PROVE  RotatingInv'
  <2> DEFINE p == Rotating!Part(m, b)
             g == Rotating!Write(fs, p)
  <2>1. p \in Entry /\ p.n = logged + 1 /\ p.whole = FALSE
    <3>1. b \in Nat
      BY <1>3
    <3> QED BY <3>1, PartIs
  <2> HIDE DEF p
  <2>2. /\ Good(g, logged + 1, faults + 1) /\ g[0] # Missing
        /\ Rotating!SizeOf(g[0], {TRUE}) = Rotating!SizeOf(fs[0], {TRUE}) + 0
    BY <1>1, <2>1, AppendKeepsGood
  <2> HIDE DEF g
  <2>3. files' = g
    BY <1>6 DEF g, p
  <2>4. Rotating!SizeOf(g[0], {TRUE}) <= current_size_'
    BY <1>1, <1>3, <1>6, <2>2
  <2>5. (fd_' => alive') /\ current_size_' \in Nat /\ logged + 1 <= logged' /\ logged' \in {logged, logged + 1}
    BY <1>1, <1>6
  <2> QED BY <1>1, <1>6, <2>2, <2>3, <2>4, <2>5, FailureKeeps
<1> QED BY <1>4, <1>5, <1>6 DEF Rotating!WriteOut, Rotating!Fault

LEMMA FlushFails ==
    ASSUME RotatingInv, Rotating!FlushThrows, logged' \in {logged, logged + 1}
    PROVE  RotatingInv'
<1>1. /\ logged \in Nat /\ faults \in Nat /\ current_size_ \in Nat /\ on_disk \in Nat /\ fd_ \in BOOLEAN
      /\ alive \in BOOLEAN /\ (fd_ => alive) /\ Good(files, logged, faults) /\ fd_ /\ files[0] # Missing
      /\ Rotating!SizeOf(files[0], {TRUE}) <= current_size_
      /\ fd_' = fd_ /\ alive' = alive /\ on_disk' = on_disk /\ current_size_' = current_size_
      /\ faults' = faults + 1
  BY DEF RotatingInv, Rotating!FlushThrows, Rotating!Fault
<1>2. PICK r \in Rotating!Cut(files[0], on_disk) : files' = Rotating!With(files, r)
  BY DEF Rotating!FlushThrows
<1> DEFINE g == Rotating!With(files, r)
<1>3. Good(g, logged, faults + 1) /\ g[0] = r /\ r # Missing
      /\ Rotating!SizeOf(r, {TRUE}) <= Rotating!SizeOf(files[0], {TRUE})
  BY <1>1, <1>2, CutKeepsGood
<1>4. Rotating!SizeOf(r, {TRUE}) \in Nat /\ Rotating!SizeOf(files[0], {TRUE}) \in Nat
  <2>1. files[0] \in LogFile
    BY <1>1, PlacesAre, InIs DEF Good
  <2> QED BY <1>1, <1>2, <2>1, CutIs, SizeOfType
<1> HIDE DEF g
<1>5. files' = g
  BY <1>2 DEF g
<1>6. Rotating!SizeOf(g[0], {TRUE}) <= current_size_'
  BY <1>1, <1>3, <1>4
<1>7. (fd_' => alive') /\ current_size_' \in Nat /\ on_disk' \in Nat /\ fd_' \in BOOLEAN /\ alive' \in BOOLEAN /\ logged <= logged'
  BY <1>1
<1> QED BY <1>1, <1>3, <1>5, <1>6, <1>7, FailureKeeps

(* A rotation that throws leaves good files, also when it opens one again.   *)
LEMMA RotationFails ==
    ASSUME NEW n \in Nat, NEW c \in Nat, Good(files, n, c), files[0] # Missing,
           Rotating!Reopened \/ Rotating!NotReopened
    PROVE  Good(files', n, c) /\ (Rotating!Reopened => files'[0] = <<>>)
<1>1. files \in Disks /\ <<>> \in {files[0], <<>>}
  BY DEF Good
<1>2. ASSUME NEW k \in 1..MaxFiles, NEW t \in Rotating!Targets(k), NEW top \in {files[0], <<>>},
             files' = Rotating!Unrenamed(k, t, top)
      PROVE  Good(files', n, c) /\ files'[0] = top
  <2> DEFINE g == Rotating!Unrenamed(k, t, top)
  <2>1. g \in Disks /\ g[0] = top /\ \E src : Comes(files, g, src)
    BY <1>1, UnrenamedComes
  <2> HIDE DEF g
  <2>2. files' = g
    BY <1>2 DEF g
  <2> QED BY <2>1, <2>2, ComesKeepsGood
<1>3. CASE Rotating!Reopened
  <2>1. PICK k \in 1..MaxFiles : \E t \in Rotating!Targets(k) : files' = Rotating!Unrenamed(k, t, <<>>)
    BY <1>3 DEF Rotating!Reopened
  <2>2. PICK t \in Rotating!Targets(k) : files' = Rotating!Unrenamed(k, t, <<>>)
    BY <2>1
  <2> QED BY <1>1, <1>2, <2>2
<1>4. CASE Rotating!NotReopened
  <2>1. ASSUME files' = Rotating!Shifted(1) PROVE Good(files', n, c)
    <3>1. Rotating!Shifted(1) \in Disks /\ Comes(files, Rotating!Shifted(1), Source(1))
      BY <1>1, ShiftedType, ShiftedComes
    <3> DEFINE g == Rotating!Shifted(1)
    <3>2. Good(g, n, c)
      BY <3>1, ComesKeepsGood
    <3> HIDE DEF g
    <3> QED BY <2>1, <3>2 DEF g
  <2>2. ASSUME files' = Rotating!Rotated PROVE Good(files', n, c)
    BY <1>1, <2>2, RotatedComes, ComesKeepsGood
  <2>3. ASSUME \E k \in 1..MaxFiles : Rotating!Exists(k - 1) /\ \E t \in Rotating!Targets(k), top \in {files[0], <<>>} :
                  files' = Rotating!Unrenamed(k, t, top)
        PROVE  Good(files', n, c)
    <3>1. PICK k \in 1..MaxFiles : \E t \in Rotating!Targets(k), top \in {files[0], <<>>} :
                files' = Rotating!Unrenamed(k, t, top)
      BY <2>3
    <3>2. PICK t \in Rotating!Targets(k), top \in {files[0], <<>>} : files' = Rotating!Unrenamed(k, t, top)
      BY <3>1
    <3> QED BY <1>2, <3>2
  <2>4. Good(files', n, c)
    BY <1>4, <2>1, <2>2, <2>3 DEF Rotating!NotReopened
  <2>5. Rotating!Reopened => files'[0] = <<>>
    BY <1>3
  <2> QED BY <2>4, <2>5
<1> QED BY <1>3, <1>4

(* sink_it_(), in each of its ways. *)
LEMMA LogsOn ==
    ASSUME NEW m \in Entry, m.whole, RotatingInv, Rotating!Log(m)
    PROVE  RotatingInv'
<1>1. /\ m.n = logged + 1 /\ logged' = logged + 1 /\ alive /\ logged \in Nat /\ faults \in Nat
      /\ current_size_ \in Nat /\ on_disk \in Nat /\ fd_ \in BOOLEAN /\ alive \in BOOLEAN /\ logged' \in Nat
      /\ Good(files, logged, faults) /\ files \in Disks
      /\ (fd_ => files[0] # Missing /\ Rotating!SizeOf(files[0], {TRUE}) <= current_size_)
      /\ (faults = 0 => fd_ /\ Closed(files, logged))
  BY DEF RotatingInv, Rotating!Log, Good
<1>2. m.size \in Nat /\ MaxSize \in Nat /\ current_size_ + m.size \in Nat
  <2>1. m.size \in Nat /\ MaxSize \in Nat
    BY RotatingAssumption DEF Entry
  <2> QED BY <1>1, <2>1
<1>3. fd_ => Rotating!SizeOf(files[0], {TRUE}) \in Nat
  BY <1>1, PlacesAre, InIs, SizeOfType
<1>4. CASE ~Rotating!Full(m) /\ fd_ /\ Rotating!WriteOut(files, on_disk, current_size_ + m.size, m)
  <2>1. ~(current_size_ + m.size > MaxSize)
    BY <1>4 DEF Rotating!Full
  <2>2. /\ Rotating!SizeOf(files[0], {TRUE}) + m.size <= current_size_ + m.size
        /\ Rotating!SizeOf(files[0], {TRUE}) + m.size <= MaxSize
    BY <1>1, <1>2, <1>3, <1>4, <2>1
  <2> QED BY <1>1, <1>2, <1>4, <2>2, WritesOut
<1>5. CASE ~fd_ /\ alive' \in BOOLEAN
           /\ files' = files /\ fd_' = fd_ /\ current_size_' = current_size_ /\ on_disk' = on_disk /\ faults' = faults
  <2>1. Good(files, logged + 1, faults) /\ faults # 0
    BY <1>1, <1>5, GoodLater
  <2>2. Good(files, logged, faults)'
    BY <1>1, <1>5, <2>1
  <2> QED BY <1>1, <1>5, <2>1, <2>2 DEF RotatingInv
<1>6. CASE Rotating!FlushThrows
  BY <1>1, <1>6, FlushFails
<1>7. CASE fd_ /\ files[0] = <<>> /\ Rotating!WriteOut(files, 0, current_size_ + m.size, m)
  <2>1. Rotating!SizeOf(files[0], {TRUE}) + m.size <= current_size_ + m.size
    BY <1>1, <1>2, <1>3, <1>7
  <2>2. 0 \in Nat
    OBVIOUS
  <2> QED BY <1>1, <1>2, <1>7, <2>1, <2>2, WritesOut
<1>8. CASE fd_ /\ Rotating!WriteOut(Rotating!Rotated, 0, m.size, m)
  <2> DEFINE g == Rotating!Rotated
  <2>1. g[0] = <<>> /\ Good(g, logged, faults) /\ (faults = 0 => Closed(g, logged))
    BY <1>1, RotatedComes, ComesKeepsGood, RotatedCloses
  <2>2. Rotating!WriteOut(g, 0, m.size, m)
    BY <1>8
  <2> HIDE DEF g
  <2>3. g[0] # Missing /\ Rotating!SizeOf(g[0], {TRUE}) = 0
    BY <2>1, NothingIs, SizeOfNothing
  <2>4. Rotating!SizeOf(g[0], {TRUE}) <= current_size_ /\ Rotating!SizeOf(g[0], {TRUE}) + m.size <= m.size
    BY <1>1, <1>2, <2>3
  <2>5. 0 \in Nat
    OBVIOUS
  <2> QED BY <1>1, <1>2, <1>8, <2>1, <2>2, <2>3, <2>4, <2>5, WritesOut
<1>9. CASE /\ fd_ /\ faults' = faults + 1 /\ on_disk' = 0 /\ alive' = alive
           /\ \/ Rotating!Reopened /\ fd_' = TRUE /\ current_size_' = 0
              \/ Rotating!NotReopened /\ fd_' = FALSE /\ current_size_' = current_size_
  <2>1. Good(files', logged, faults) /\ (Rotating!Reopened => files'[0] = <<>>)
    BY <1>1, <1>9, RotationFails
  <2>2. fd_' => files'[0] # Missing /\ Rotating!SizeOf(files'[0], {TRUE}) <= current_size_'
    <3>1. SUFFICES ASSUME fd_' PROVE files'[0] # Missing /\ Rotating!SizeOf(files'[0], {TRUE}) <= current_size_'
      OBVIOUS
    <3>2. files'[0] = <<>> /\ current_size_' = 0
      BY <1>9, <2>1, <3>1
    <3>3. Rotating!SizeOf(files'[0], {TRUE}) = 0
      BY <3>2, SizeOfNothing
    <3> QED BY <3>2, <3>3, NothingIs
  <2>3. fd_' => alive'
    <3>1. alive' = TRUE
      BY <1>1, <1>9
    <3> QED BY <3>1
  <2>4. current_size_' \in Nat /\ on_disk' \in Nat /\ fd_' \in BOOLEAN /\ alive' \in BOOLEAN /\ logged <= logged'
    <3>1. current_size_' \in Nat /\ on_disk' \in Nat
      BY <1>1, <1>9
    <3>2. fd_' \in BOOLEAN
      BY <1>1, <1>9
    <3>3. alive' \in BOOLEAN
      BY <1>1, <1>9
    <3>4. logged <= logged'
      BY <1>1, <1>9
    <3> QED BY <3>1, <3>2, <3>3, <3>4
  <2> QED BY <1>1, <1>9, <2>1, <2>2, <2>3, <2>4, FailureKeeps
<1> QED BY <1>1, <1>4, <1>5, <1>6, <1>7, <1>8, <1>9 DEF Rotating!Log, Rotating!Fault

LEMMA Flushes == ASSUME RotatingInv, Rotating!Flush PROVE RotatingInv'
<1>1. CASE Rotating!FlushThrows
  BY <1>1, FlushFails DEF Rotating!Flush
<1>2. CASE /\ on_disk' = Len(files[0]) /\ logged' = logged /\ fd_
           /\ UNCHANGED <<files, fd_, current_size_, alive, faults>>
  <2>1. files[0] \in LogFile
    BY <1>2, PlacesAre, InIs DEF RotatingInv, Good
  <2>2. on_disk' \in Nat
    BY <1>2, <2>1 DEF LogFile
  <2>3. /\ Good(files, logged, faults)' /\ (faults = 0 => Closed(files, logged))'
        /\ (Rotating!SizeOf(files[0], {TRUE}))' = Rotating!SizeOf(files[0], {TRUE})
    <3>1. Good(files, logged, faults) /\ (faults = 0 => Closed(files, logged))
      BY DEF RotatingInv
    <3> QED BY <1>2, <3>1
  <2> QED BY <1>2, <2>2, <2>3 DEF RotatingInv
<1> QED BY <1>1, <1>2 DEF Rotating!Flush

LEMMA Stops == ASSUME RotatingInv, Rotating!Stop PROVE RotatingInv'
<1>1. /\ logged \in Nat /\ faults \in Nat /\ on_disk \in Nat /\ Good(files, logged, faults)
      /\ (fd_ => files[0] # Missing) /\ (faults = 0 => Closed(files, logged))
      /\ alive' = FALSE /\ fd_' = FALSE /\ current_size_' = 0 /\ on_disk' = 0 /\ logged' = logged
  BY DEF RotatingInv, Rotating!Stop
<1>2. CASE UNCHANGED <<files, faults>>
  <2>1. Good(files, logged, faults)' /\ (faults = 0 => Closed(files, logged))'
    BY <1>1, <1>2
  <2> QED BY <1>1, <1>2, <2>1 DEF RotatingInv
<1>3. CASE /\ fd_ /\ faults' = faults + 1
           /\ \E r \in Rotating!Cut(files[0], on_disk) : files' = Rotating!With(files, r)
  <2>1. PICK r \in Rotating!Cut(files[0], on_disk) : files' = Rotating!With(files, r)
    BY <1>3
  <2> DEFINE g == Rotating!With(files, r)
  <2>2. Good(g, logged, faults + 1)
    BY <1>1, <1>3, CutKeepsGood
  <2> HIDE DEF g
  <2>3. files' = g
    BY <2>1 DEF g
  <2>4. fd_' => alive'
    <3>1. fd_' = FALSE
      BY <1>1
    <3> QED BY <3>1
  <2>5. current_size_' \in Nat /\ on_disk' \in Nat /\ fd_' \in BOOLEAN /\ alive' \in BOOLEAN /\ logged <= logged'
    <3>1. current_size_' \in Nat /\ on_disk' \in Nat
      BY <1>1
    <3>2. fd_' \in BOOLEAN
      BY <1>1
    <3>3. alive' \in BOOLEAN
      BY <1>1
    <3>4. logged <= logged'
      BY <1>1
    <3> QED BY <3>1, <3>2, <3>3, <3>4
  <2> QED BY <1>1, <1>3, <2>2, <2>3, <2>4, <2>5, FailureKeeps
<1> QED BY <1>2, <1>3 DEF Rotating!Stop, Rotating!Fault

(* The constructor. *)
LEMMA Starts == ASSUME RotatingInv, Rotating!Construct PROVE RotatingInv'
<1> DEFINE f == IF files[0] # Missing THEN files ELSE Emptied
<1>1. /\ logged \in Nat /\ faults \in Nat /\ current_size_ \in Nat /\ on_disk \in Nat /\ fd_ \in BOOLEAN
      /\ alive = FALSE /\ ~fd_ /\ logged' = logged
      /\ Good(files, logged, faults) /\ files \in Disks /\ (faults = 0 => Closed(files, logged))
      /\ (fd_ => files[0] # Missing /\ Rotating!SizeOf(files[0], {TRUE}) <= current_size_)
  BY DEF RotatingInv, Good, Rotating!Construct
<1>2. CASE /\ files' = f /\ current_size_' = Rotating!SizeOf(f[0], BOOLEAN) /\ on_disk' = Len(f[0])
           /\ fd_' = TRUE /\ alive' = TRUE /\ faults' = faults
  <2>1. f[0] # Missing /\ Good(f, logged, faults) /\ (faults = 0 => Closed(f, logged)) /\ f \in Disks
    <3>1. CASE files[0] # Missing
      BY <1>1, <3>1
    <3>2. CASE files[0] = Missing
      BY <1>1, <3>2, NothingIs, EmptiedComes, ComesKeepsGood, SameIsClosed
    <3> QED BY <3>1, <3>2
  <2> HIDE DEF f
  <2>2. f[0] \in LogFile
    BY <2>1, PlacesAre, InIs
  <2>3. /\ Rotating!SizeOf(f[0], BOOLEAN) \in Nat /\ Len(f[0]) \in Nat
        /\ Rotating!SizeOf(f[0], {TRUE}) <= Rotating!SizeOf(f[0], BOOLEAN)
    BY <2>2, SizeOfType, WholeIsLess DEF LogFile
  <2>4. Good(files, logged, faults)' /\ (faults = 0 => Closed(files, logged))' /\ files'[0] # Missing
        /\ (Rotating!SizeOf(files[0], {TRUE}))' <= current_size_'
    BY <1>1, <1>2, <2>1, <2>3
  <2>5. current_size_' \in Nat /\ on_disk' \in Nat
    BY <1>2, <2>3
  <2> QED BY <1>1, <1>2, <2>4, <2>5 DEF RotatingInv
<1>3. CASE /\ files' = Rotating!Rotated /\ current_size_' = 0 /\ on_disk' = 0
           /\ fd_' = TRUE /\ alive' = TRUE /\ faults' = faults
  <2> DEFINE g == Rotating!Rotated
  <2>1. g[0] = <<>> /\ Good(g, logged, faults) /\ (faults = 0 => Closed(g, logged))
    BY <1>1, RotatedComes, ComesKeepsGood, RotatedCloses
  <2> HIDE DEF g
  <2>2. files' = g /\ g[0] # Missing /\ Rotating!SizeOf(g[0], {TRUE}) = 0
    BY <1>3, <2>1, NothingIs, SizeOfNothing DEF g
  <2>3. Good(files, logged, faults)' /\ (faults = 0 => Closed(files, logged))' /\ files'[0] # Missing
        /\ (Rotating!SizeOf(files[0], {TRUE}))' <= current_size_'
    BY <1>1, <1>3, <2>1, <2>2
  <2> QED BY <1>1, <1>3, <2>3 DEF RotatingInv
<1>4. ASSUME faults' = faults + 1, UNCHANGED <<fd_, current_size_, on_disk, alive>>, files' \in {files, f}
      PROVE  RotatingInv'
  <2>1. Good(files', logged, faults)
    <3>1. CASE files[0] # Missing
      BY <1>1, <1>4, <3>1
    <3>2. CASE files[0] = Missing
      <4>1. Good(Emptied, logged, faults) /\ f = Emptied
        BY <1>1, <3>2, NothingIs, EmptiedComes, ComesKeepsGood
      <4> HIDE DEF f
      <4> QED BY <1>1, <1>4, <4>1
    <3> QED BY <3>1, <3>2
  <2>2. fd_' = FALSE
    BY <1>1, <1>4
  <2>3. /\ fd_' => alive'
        /\ fd_' => files'[0] # Missing /\ Rotating!SizeOf(files'[0], {TRUE}) <= current_size_'
    BY <2>2
  <2>4. current_size_' \in Nat /\ on_disk' \in Nat /\ fd_' \in BOOLEAN /\ alive' \in BOOLEAN /\ logged <= logged'
    <3>1. current_size_' \in Nat /\ on_disk' \in Nat
      BY <1>1, <1>4
    <3>2. fd_' \in BOOLEAN
      BY <1>1, <1>4
    <3>3. alive' \in BOOLEAN
      BY <1>1, <1>4
    <3>4. logged <= logged'
      BY <1>1, <1>4
    <3> QED BY <3>1, <3>2, <3>3, <3>4
  <2> QED BY <1>1, <1>4, <2>1, <2>3, <2>4, FailureKeeps
<1>5. ASSUME faults' = faults + 1, UNCHANGED <<fd_, current_size_, on_disk, alive>>, ~fd_, files[0] # Missing,
             Rotating!Reopened \/ Rotating!NotReopened
      PROVE  RotatingInv'
  <2>1. Good(files', logged, faults)
    BY <1>1, <1>5, RotationFails
  <2>2. fd_' = FALSE
    BY <1>1, <1>5
  <2>3. /\ fd_' => alive'
        /\ fd_' => files'[0] # Missing /\ Rotating!SizeOf(files'[0], {TRUE}) <= current_size_'
    BY <2>2
  <2>4. current_size_' \in Nat /\ on_disk' \in Nat /\ fd_' \in BOOLEAN /\ alive' \in BOOLEAN /\ logged <= logged'
    <3>1. current_size_' \in Nat /\ on_disk' \in Nat
      BY <1>1, <1>5
    <3>2. fd_' \in BOOLEAN
      BY <1>1, <1>5
    <3>3. alive' \in BOOLEAN
      BY <1>1, <1>5
    <3>4. logged <= logged'
      BY <1>1, <1>5
    <3> QED BY <3>1, <3>2, <3>3, <3>4
  <2> QED BY <1>1, <1>5, <2>1, <2>3, <2>4, FailureKeeps
<1>6. ~fd_
  BY DEF RotatingInv, Rotating!Construct
<1> QED BY <1>2, <1>3, <1>4, <1>5, <1>6 DEF Rotating!Construct, Rotating!Fault, Rotating!Exists, Emptied

LEMMA RotatingSteps ==
    ASSUME RotatingInv, Rotating!Next \/ UNCHANGED rotating
    PROVE  RotatingInv'
<1>1. ASSUME NEW m \in Rotating!Message, Rotating!Log(m) PROVE RotatingInv'
  <2>1. m \in Entry /\ m.whole
    BY RotatingAssumption DEF Rotating!Message, Entry, Number
  <2> QED BY <1>1, <2>1, LogsOn
<1>2. CASE UNCHANGED rotating
  BY <1>2 DEF RotatingInv, rotating
<1> QED BY <1>1, <1>2, Flushes, Stops, Starts DEF Rotating!Next

LEMMA RotatingInvKeeps == RotatingInv => RotationKeeps
<1>1. SUFFICES ASSUME RotatingInv PROVE RotationKeeps
  OBVIOUS
<1>2. /\ \A i : Rotating!Content(i) = In(files, i)
      /\ Rotating!Index = Places
  BY DEF Rotating!Content, Rotating!Exists, In, Places
<1>3. files \in Disks /\ Fitting(files) /\ FewParts(files, faults) /\ Sorted(files) /\ UpTo(files, logged)
      /\ logged \in Nat
  BY <1>1 DEF RotatingInv, Good
<1>4. Rotating!SizesBounded
  <2>1. ASSUME NEW i \in Places
        PROVE  WithinSize(Rotating!Content(i)) /\ Cardinality(Parts(Rotating!Content(i))) <= faults
    <3>1. WithinSize(In(files, i)) /\ Cardinality(Parts(In(files, i))) <= faults
      BY <1>3 DEF Fitting, FewParts
    <3>2. Rotating!Content(i) = In(files, i)
      BY <1>2
    <3> QED BY <3>1, <3>2
  <2>2. Rotating!Index = Places
    BY <1>2
  <2>3. ASSUME NEW i \in Rotating!Index
        PROVE  /\ Rotating!SizeOf(Rotating!Content(i), {TRUE}) > MaxSize =>
                     \A a, b \in DOMAIN Rotating!Content(i) :
                         Rotating!Content(i)[a].whole /\ Rotating!Content(i)[b].whole => a = b
               /\ Cardinality({a \in DOMAIN Rotating!Content(i) : ~Rotating!Content(i)[a].whole}) <= faults
    <3>1. WithinSize(Rotating!Content(i)) /\ Cardinality(Parts(Rotating!Content(i))) <= faults
      BY <2>1, <2>2
    <3>2. Single(Rotating!Content(i)) =>
             \A a, b \in DOMAIN Rotating!Content(i) :
                 Rotating!Content(i)[a].whole /\ Rotating!Content(i)[b].whole => a = b
      BY Zenon DEF Single
    <3>3. Cardinality({a \in DOMAIN Rotating!Content(i) : ~Rotating!Content(i)[a].whole}) <= faults
      BY <3>1 DEF Parts
    <3> QED BY <3>1, <3>2, <3>3, Zenon DEF WithinSize
  <2> QED BY <2>3, Zenon DEF Rotating!SizesBounded, Rotating!Cardinality, Cardinality
<1>5. Rotating!KeptInOrder
  BY <1>2, <1>3 DEF Rotating!KeptInOrder, Sorted
<1>6. \A x : x \in Rotating!Kept <=> IsKept(files, x)
  BY <1>2 DEF Rotating!Kept, IsKept
<1>7. Rotating!LastMessagesKept
  <2>1. SUFFICES ASSUME faults = 0, NEW x \in Rotating!Kept, NEW z \in x..logged
                 PROVE  z \in Rotating!Kept
    BY DEF Rotating!LastMessagesKept
  <2>2. IsKept(files, x) /\ Closed(files, logged)
    BY <1>1, <1>6, <2>1 DEF RotatingInv
  <2>3. x \in Nat
    BY <1>3, <2>2, InIs DEF IsKept
  <2>4. z \in Nat /\ x <= z /\ z <= logged
    BY <1>3, <2>1, <2>3
  <2> QED BY <1>6, <2>2, <2>3, <2>4 DEF Closed
<1> QED BY <1>4, <1>5, <1>7 DEF RotationKeeps

(* The sizes of the files, the order of their messages and where the sink    *)
(* stands are an inductive invariant of rotating_file_sink, whichever part   *)
(* of spdlog runs and whatever calls of the disk fail.                      *)
THEOREM RotatingInductive == LoggingSpec => []RotatingInv
<1>1. LoggingInit => RotatingInv
  BY RotatingStarts DEF LoggingInit
<1>2. RotatingInv /\ [LoggingNext]_state => RotatingInv'
  <2>1. SUFFICES ASSUME RotatingInv, [LoggingNext]_state PROVE RotatingInv'
    OBVIOUS
  <2>2. Rotating!Next \/ UNCHANGED rotating
    BY <2>1 DEF LoggingNext, state
  <2> QED BY <2>1, <2>2, RotatingSteps
<1> QED BY <1>1, <1>2, PTL DEF LoggingSpec

(* Whatever write, flush, rename or open fails and however often the process  *)
(* starts again, rotation keeps its promises: the messages of a file are     *)
(* within max_size_ but for one large message, a file has at most as many    *)
(* parts of others as there were failures, the messages stay in order over   *)
(* the files, and without failures none is lost but the oldest.             *)
THEOREM RotatedFilesKeep == LoggingSpec => []RotationKeeps
BY RotatingInductive, RotatingInvKeeps, PTL

-----------------------------------------------------------------------------
(* The files of the calendar.                                               *)

CalendarSetting(st) == st.hourly \in BOOLEAN /\ st.offset \in 0..(Period - 1)

DayOf(t) == t \div Period

LEMMA DayIs ==
    ASSUME NEW t \in Nat
    PROVE  DayOf(t) \in Nat /\ DayOf(t) * Period <= t /\ t < DayOf(t) * Period + Period
<1>0. Period \in Nat \ {0}
  BY CalendarAssumption
<1>1. t \div Period \in Nat
  BY <1>0
<1>2. t = Period * (t \div Period) + (t % Period) /\ t % Period \in 0..(Period - 1)
  BY <1>0
<1> QED BY <1>0, <1>1, <1>2 DEF DayOf

LEMMA LaterStarts ==
    ASSUME NEW d \in Nat, NEW e \in Nat
    PROVE  (d <= e => d * Period <= e * Period) /\ (d < e => d * Period + Period <= e * Period)
<1>1. Period \in Nat \ {0}
  BY CalendarAssumption
<1>2. ASSUME NEW a \in Nat, NEW b \in Nat, a <= b PROVE a * Period <= b * Period
  BY <1>1, <1>2
<1>3. d + 1 \in Nat /\ (d + 1) * Period = d * Period + Period
  BY <1>1
<1>4. ASSUME d < e PROVE d * Period + Period <= e * Period
  <2>1. d + 1 <= e
    BY <1>4
  <2>2. (d + 1) * Period <= e * Period
    BY <1>2, <1>3, <2>1
  <2> QED BY <1>3, <2>2
<1> QED BY <1>2, <1>4

(* The day of a time is the last that begins by then. *)
LEMMA DayIsLast ==
    ASSUME NEW t \in Nat, NEW d \in Nat
    PROVE  (d * Period <= t => d <= DayOf(t)) /\ (d * Period + Period <= t => d < DayOf(t))
<1> DEFINE a == DayOf(t)
<1>1. a \in Nat /\ a * Period <= t /\ t < a * Period + Period /\ Period \in Nat \ {0}
  BY DayIs, CalendarAssumption
<1> HIDE DEF a
<1>2. d * Period \in Nat /\ a * Period \in Nat
  BY <1>1
<1>3. ASSUME d * Period <= t PROVE d <= a
  <2>1. SUFFICES ASSUME a < d PROVE FALSE
    BY <1>1
  <2>2. a * Period + Period <= d * Period
    BY <1>1, <2>1, LaterStarts
  <2> QED BY <1>1, <1>2, <1>3, <2>2
<1>4. ASSUME d * Period + Period <= t PROVE d < a
  <2>1. SUFFICES ASSUME a <= d PROVE FALSE
    BY <1>1
  <2>2. a * Period <= d * Period
    BY <1>1, <2>1, LaterStarts
  <2> QED BY <1>1, <1>2, <1>4, <2>2
<1> QED BY <1>3, <1>4 DEF a

LEMMA DayGrows == ASSUME NEW t \in Nat, NEW u \in Nat, t <= u PROVE DayOf(t) <= DayOf(u)
<1> DEFINE a == DayOf(t)
<1>1. a \in Nat /\ a * Period <= t /\ Period \in Nat
  BY DayIs, CalendarAssumption
<1> HIDE DEF a
<1>2. a * Period <= u
  BY <1>1
<1>3. a <= DayOf(u)
  BY <1>1, <1>2, DayIsLast
<1> QED BY <1>3 DEF a

LEMMA NextRotation ==
    ASSUME NEW st, CalendarSetting(st), NEW t \in Nat
    PROVE  /\ Files(st)!Day(t) = DayOf(t)
           /\ Files(st)!next_rotation_tp_(t) \in Nat /\ t < Files(st)!next_rotation_tp_(t)
           /\ Files(st)!next_rotation_tp_(t) <= DayOf(t) * Period + Period + st.offset
           /\ st.offset = 0 => Files(st)!next_rotation_tp_(t) = DayOf(t) * Period + Period
<1> DEFINE a == DayOf(t) * Period
           n == Files(st)!next_rotation_tp_(t)
           o == st.offset
<1>1. a \in Nat /\ a <= t /\ t < a + Period /\ Period \in Nat \ {0} /\ o \in Nat
  BY DayIs, CalendarAssumption DEF CalendarSetting
<1>2. Files(st)!Day(t) = DayOf(t)
  BY DEF Files!Day, DayOf
<1>3. n = IF a + o > t THEN a + o ELSE a + o + Period
  BY <1>2 DEF Files!next_rotation_tp_
<1> HIDE DEF a, n, o
<1>4. n \in Nat /\ t < n /\ n <= a + Period + o /\ (o = 0 => n = a + Period)
  BY <1>1, <1>3
<1> QED BY <1>2, <1>4 DEF a, n, o

Ascending(s) == \A i, j \in 1..Len(s) : i < j => s[i] < s[j]

(* The queue of files holds one or more, not too many of them. *)
Line(s)  == s \in Seq(Nat) /\ Len(s) \in 1..MaxFiles
Queue(s) == Line(s) /\ Ascending(s)

(* What circular_q::push_back of the day d makes of s. *)
QueueMoved(s, d, r) ==
    /\ Line(r) /\ r[Len(r)] = d /\ (Len(s) = MaxFiles => Len(r) = MaxFiles)
    /\ \A i \in 1..Len(r) : r[i] = d \/ \E k \in 1..Len(s) : r[i] = s[k]
    /\ \A k \in 1..Len(s) : k > 1 \/ Len(s) # MaxFiles => \E i \in 1..Len(r) : r[i] = s[k]

LEMMA EnqueuedIs ==
    ASSUME NEW st, NEW s, Line(s), NEW d \in Nat, NEW r, r = Files(st)!Enqueued(s, d)
    PROVE  /\ QueueMoved(s, d, r)
           /\ Ascending(s) /\ s[Len(s)] < d =>
                 Ascending(r) /\ (Len(s) = MaxFiles => \A i \in 1..Len(r) : s[1] < r[i])
<1> DEFINE n == Len(s)
<1>1. /\ s \in Seq(Nat) /\ n \in Nat /\ 1 <= n /\ n <= MaxFiles /\ MaxFiles \in Nat
      /\ \A i \in 1..n : s[i] \in Nat
  BY RotatingAssumption DEF Line
<1>2. r = IF n = MaxFiles THEN Append(Tail(s), d) ELSE Append(s, d)
  BY DEF Files!Enqueued
<1>3. Ascending(s) /\ s[n] < d =>
         (\A i \in 1..n : s[i] < d) /\ \A i, j \in 1..n : i < j => s[i] < s[j]
  <2>1. SUFFICES ASSUME Ascending(s), s[n] < d, NEW i \in 1..n PROVE s[i] < d
    BY DEF Ascending
  <2>2. i = n \/ (i < n /\ n \in 1..n)
    BY <1>1
  <2>3. s[i] \in Nat /\ s[n] \in Nat /\ (i = n \/ s[i] < s[n])
    BY <1>1, <2>1, <2>2 DEF Ascending
  <2> QED BY <2>1, <2>3
<1>4. CASE n # MaxFiles
  <2>1. r \in Seq(Nat) /\ Len(r) = n + 1 /\ r[n + 1] = d /\ \A i \in 1..n : r[i] = s[i]
    BY <1>1, <1>2, <1>4
  <2>2. \A i \in 1..Len(r) : i = n + 1 \/ (i \in 1..n /\ r[i] = s[i])
    BY <1>1, <2>1
  <2>3. ASSUME Ascending(s), s[n] < d PROVE Ascending(r)
    <3>1. SUFFICES ASSUME NEW i \in 1..Len(r), NEW j \in 1..Len(r), i < j PROVE r[i] < r[j]
      BY DEF Ascending
    <3>2. i \in 1..n /\ r[i] = s[i]
      BY <1>1, <2>1, <2>2, <3>1
    <3> QED BY <1>1, <1>3, <2>1, <2>2, <2>3, <3>1, <3>2
  <2>4. Line(r) /\ r[Len(r)] = d
    BY <1>1, <1>4, <2>1 DEF Line
  <2>5. \A k \in 1..n : k \in 1..Len(r) /\ r[k] = s[k]
    BY <1>1, <2>1
  <2>6. \A i \in 1..Len(r) : r[i] = d \/ \E k \in 1..n : r[i] = s[k]
    BY <2>1, <2>2
  <2>7. QueueMoved(s, d, r)
    BY <1>4, <2>4, <2>5, <2>6 DEF QueueMoved
  <2> QED BY <1>4, <2>3, <2>7
<1>5. CASE n = MaxFiles
  <2>1. r \in Seq(Nat) /\ Len(r) = n /\ r[n] = d /\ \A i \in 1..(n - 1) : r[i] = s[i + 1]
    <3>1. s # <<>>
      BY <1>1
    <3>2. /\ Tail(s) \in Seq(Nat) /\ Len(Tail(s)) = n - 1
          /\ \A i \in 1..Len(Tail(s)) : Tail(s)[i] = s[i + 1]
      BY <1>1, <3>1, HeadTailProperties
    <3> DEFINE t == Tail(s)
    <3> HIDE DEF t
    <3>3. t \in Seq(Nat) /\ Len(t) = n - 1 /\ \A i \in 1..Len(t) : t[i] = s[i + 1]
      BY <3>2 DEF t
    <3>4. r = Append(t, d)
      BY <1>2, <1>5 DEF t
    <3> QED BY <1>1, <3>3, <3>4
  <2>2. \A i \in 1..Len(r) : i = n \/ (i \in 1..(n - 1) /\ i + 1 \in 1..n /\ r[i] = s[i + 1])
    BY <1>1, <2>1
  <2>3. ASSUME Ascending(s), s[n] < d PROVE Ascending(r)
    <3>1. SUFFICES ASSUME NEW i \in 1..Len(r), NEW j \in 1..Len(r), i < j PROVE r[i] < r[j]
      BY DEF Ascending
    <3>2. i + 1 \in 1..n /\ r[i] = s[i + 1]
      <4>1. i # n
        BY <1>1, <2>1, <3>1
      <4> QED BY <2>2, <4>1
    <3>3. CASE j = n
      BY <1>3, <2>1, <2>3, <3>2, <3>3
    <3>4. CASE j # n
      <4>1. j + 1 \in 1..n /\ r[j] = s[j + 1] /\ i + 1 < j + 1
        BY <2>1, <2>2, <3>1, <3>4, SMTT(60)
      <4> QED BY <1>3, <2>3, <3>2, <4>1
    <3> QED BY <3>3, <3>4
  <2>4. Line(r) /\ r[Len(r)] = d
    BY <1>1, <1>5, <2>1 DEF Line
  <2>5. 1 \in 1..n
    BY <1>1
  <2>6. ASSUME Ascending(s), s[n] < d, NEW i \in 1..Len(r) PROVE s[1] < r[i]
    <3>1. CASE i = n
      BY <1>3, <2>1, <2>5, <2>6, <3>1
    <3>2. CASE i # n
      <4>1. i + 1 \in 1..n /\ r[i] = s[i + 1] /\ 1 < i + 1
        BY <2>1, <2>2, <3>2
      <4> QED BY <1>3, <2>5, <2>6, <4>1
    <3> QED BY <3>1, <3>2
  <2>7. \A i \in 1..Len(r) : r[i] = d \/ \E k \in 1..n : r[i] = s[k]
    BY <2>1, <2>2
  <2>8. \A k \in 1..n : k > 1 \/ n # MaxFiles => \E i \in 1..Len(r) : r[i] = s[k]
    <3>1. TAKE k \in 1..n
    <3>2. HAVE k > 1 \/ n # MaxFiles
    <3> DEFINE i == k - 1
    <3>3. i \in 1..(n - 1) /\ i \in 1..Len(r) /\ i + 1 = k
      BY <1>1, <1>5, <2>1, <3>2
    <3> HIDE DEF i
    <3> QED BY <2>1, <3>3
  <2>9. QueueMoved(s, d, r)
    BY <1>5, <2>1, <2>4, <2>7, <2>8 DEF QueueMoved
  <2> QED BY <2>3, <2>6, <2>9
<1> QED BY <1>4, <1>5

LEMMA PlacesCounted ==
    ASSUME NEW n \in Nat
    PROVE  IsFiniteSet(1..n) /\ Cardinality(1..n) = n
<1>1. /\ IsFiniteSet(1..n)
      /\ Cardinality(1..n) = IF 1 > n THEN 0 ELSE n - 1 + 1
  <2>1. 1 \in Int /\ n \in Int
    OBVIOUS
  <2> QED BY <2>1, FS_Interval, Zenon
<1> DEFINE c == Cardinality(1..n)
<1>2. c = IF 1 > n THEN 0 ELSE n - 1 + 1
  BY <1>1
<1> HIDE DEF c
<1>3. c = n
  BY <1>2
<1> QED BY <1>1, <1>3 DEF c

(* Days that ascend are as many as their places. *)
LEMMA ManyDays ==
    ASSUME NEW s, Queue(s), NEW S, IsFiniteSet(S), \A i \in 1..Len(s) : s[i] \in S
    PROVE  Cardinality(S) >= Len(s)
<1> DEFINE I == 1..Len(s)
           f == [i \in I |-> s[i]]
<1>1. Len(s) \in Nat /\ \A i \in I : s[i] \in Nat
  BY DEF Queue, Line
<1>2. \A i, j \in I : s[i] = s[j] => i = j
  BY <1>1 DEF Queue, Ascending
<1>3. f \in [I -> S] /\ \A i, j \in I : f[i] = f[j] => i = j
  BY <1>2
<1>4. f \in Injection(I, S)
  BY <1>3 DEF Injection, IsInjective
<1>5. Cardinality(I) <= Cardinality(S)
  BY <1>4, FS_Injection
<1>6. Cardinality(I) = Len(s)
  BY <1>1, PlacesCounted
<1>7. Cardinality(S) \in Nat
  BY FS_CardinalityType
<1> QED BY <1>1, <1>5, <1>6, <1>7

LEMMA FewDays ==
    ASSUME NEW s, Line(s), NEW S, \A d \in S : \E i \in 1..Len(s) : s[i] = d
    PROVE  Cardinality(S) <= MaxFiles
<1> DEFINE I == 1..Len(s)
           f == [d \in S |-> CHOOSE i \in I : s[i] = d]
<1>1. Len(s) \in Nat /\ Len(s) <= MaxFiles /\ MaxFiles \in Nat
  BY RotatingAssumption DEF Line
<1>2. \A d \in S : f[d] \in I /\ s[f[d]] = d
  OBVIOUS
<1>3. f \in [S -> I] /\ \A d, e \in S : f[d] = f[e] => d = e
  <2>1. f = [d \in S |-> f[d]]
    OBVIOUS
  <2> HIDE DEF f
  <2> QED BY <1>2, <2>1
<1> HIDE DEF f
<1>4. f \in Injection(S, I)
  BY <1>3 DEF Injection, IsInjective
<1>5. IsFiniteSet(I) /\ Cardinality(I) = Len(s)
  BY <1>1, PlacesCounted
<1>6. IsFiniteSet(S) /\ Cardinality(S) <= Cardinality(I)
  BY <1>4, <1>5, FS_Injection
<1>7. Cardinality(S) \in Nat
  BY <1>6, FS_CardinalityType
<1> QED BY <1>1, <1>5, <1>6, <1>7

(* init_filenames_q_() finds the last days in a row that have a file. *)
LEMMA LastFilesAre ==
    ASSUME NEW st, CalendarSetting(st), NEW t \in Nat, NEW E, DayOf(t) \in E
    PROVE  LET r == Files(st)!LastFiles(t, E)
           IN  Queue(r) /\ r[Len(r)] = DayOf(t) /\ \A i \in 1..Len(r) : r[i] \in E
<1> DEFINE r == Files(st)!LastFiles(t, E)
           today == DayOf(t)
           Row(d) == (d..today) \subseteq E /\ today - d < MaxFiles
           First(d) == Row(d) /\ (d = 0 \/ d - 1 \notin E \/ today - d = MaxFiles - 1)
           S == {d \in 0..today : Row(d)}
           first == CHOOSE d \in 0..today : First(d)
<1>1. today \in Nat /\ today \in E /\ MaxFiles \in Nat /\ MaxFiles >= 1
  BY DayIs, RotatingAssumption, CalendarAssumption
<1>2. r = [i \in 1..(today - first + 1) |-> first + i - 1]
  <2>1. Files(st)!Day(t) = today
    BY NextRotation
  <2> QED BY <2>1 DEF Files!LastFiles
<1> HIDE DEF today, r
<1>3. \E d \in 0..today : First(d)
  <2>1. today \in S
    BY <1>1
  <2>2. S \subseteq Nat
    BY <1>1
  <2> HIDE DEF S
  <2>3. PICK d \in S : \A e \in S : d <= e
    BY <2>1, <2>2, LeastNat
  <2>4. d \in 0..today /\ Row(d)
    BY DEF S
  <2>5. d = 0 \/ d - 1 \notin E \/ today - d = MaxFiles - 1
    <3>1. SUFFICES ASSUME d # 0, d - 1 \in E, today - d # MaxFiles - 1 PROVE FALSE
      OBVIOUS
    <3> DEFINE e == d - 1
    <3>2. e \in 0..today /\ e < d /\ e \in Int /\ today - e < MaxFiles
      BY <1>1, <2>4, <3>1
    <3>3. ASSUME NEW x \in e..today PROVE x \in E
      <4>1. x = e \/ x \in d..today
        BY <1>1, <2>4, <3>3
      <4> QED BY <2>4, <3>1, <4>1
    <3>4. e \in S
      BY <3>2, <3>3 DEF S
    <3> QED BY <2>3, <2>4, <3>2, <3>4
  <2> QED BY <2>4, <2>5
<1>4. first \in 0..today /\ (first..today) \subseteq E /\ today - first < MaxFiles
  BY <1>3
<1> HIDE DEF first
<1> DEFINE n == today - first + 1
<1>5. n \in 1..MaxFiles /\ n \in Nat /\ first \in Nat
  BY <1>1, <1>4
<1>6. first + n - 1 = today
  BY <1>1, <1>4
<1> HIDE DEF n
<1>7. r = [i \in 1..n |-> first + i - 1]
  BY <1>2 DEF n
<1>8. \A i \in 1..n : first + i - 1 \in Nat /\ first + i - 1 \in first..today
  BY <1>1, <1>4, <1>5, <1>6
<1>9. r \in Seq(Nat) /\ Len(r) = n /\ \A i \in 1..n : r[i] = first + i - 1
  BY <1>5, <1>7, <1>8
<1>10. Ascending(r)
  BY <1>5, <1>9 DEF Ascending
<1>11. r[n] = today /\ \A i \in 1..n : r[i] \in E
  <2>1. n \in 1..n
    BY <1>5
  <2>2. r[n] = first + n - 1
    BY <1>9, <2>1
  <2>3. \A i \in 1..n : first + i - 1 \in E
    BY <1>4, <1>8
  <2> QED BY <1>6, <1>9, <2>2, <2>3
<1> QED BY <1>5, <1>9, <1>10, <1>11 DEF Queue, Line, r, today

LEMMA LaterFinite ==
    ASSUME NEW n \in Nat, NEW T, T \subseteq 0..n
    PROVE  IsFiniteSet(T) /\ Cardinality(T) \in Nat
<1>1. T \in SUBSET Nat /\ \A e \in T : e <= n
  OBVIOUS
<1>2. IsFiniteSet(T)
  BY <1>1, FS_BoundedSetOfNaturals
<1> QED BY <1>2, FS_CardinalityType

LEMMA MoreLater ==
    ASSUME NEW n \in Nat, NEW B, B \subseteq 0..n, NEW A \in SUBSET B, NEW k \in Nat, Cardinality(A) >= k
    PROVE  Cardinality(B) >= k
<1>1. B \in SUBSET Nat /\ \A e \in B : e <= n
  <2>1. \A e \in B : e \in 0..n
    OBVIOUS
  <2>2. \A e : e \in 0..n => e \in Nat /\ e <= n
    OBVIOUS
  <2> QED BY ONLY <2>1, <2>2
<1>2. IsFiniteSet(B)
  BY <1>1, FS_BoundedSetOfNaturals
<1>3. IsFiniteSet(A) /\ Cardinality(A) <= Cardinality(B)
  BY <1>2, FS_Subset
<1>4. Cardinality(A) \in Nat /\ Cardinality(B) \in Nat
  BY <1>2, <1>3, FS_CardinalityType
<1> QED BY <1>3, <1>4

(* A file that was made is there, or was removed and held nothing, or has    *)
(* max_files_ later ones.                                                   *)
Retained(m, there) ==
    \A d \in m : d \notin there => Cardinality({e \in m : e > d}) >= MaxFiles

LEMMA RetainsMore ==
    ASSUME NEW n \in Nat, NEW m, NEW m2, m \subseteq m2, m2 \subseteq 0..n,
           NEW there, NEW there2, Retained(m, there),
           there \subseteq there2, m2 \subseteq m \union there2
    PROVE  Retained(m2, there2)
<1>1. SUFFICES ASSUME NEW d \in m2, d \notin there2
               PROVE  Cardinality({e \in m2 : e > d}) >= MaxFiles
  BY DEF Retained
<1>2. d \in m /\ d \notin there
  BY <1>1
<1> DEFINE A == {e \in m : e > d}
           B == {e \in m2 : e > d}
<1>3. Cardinality(A) >= MaxFiles /\ MaxFiles \in Nat
  BY <1>2, RotatingAssumption DEF Retained
<1>4. A \in SUBSET B /\ B \subseteq 0..n
  OBVIOUS
<1> HIDE DEF A, B
<1>5. Cardinality(B) >= MaxFiles
  BY <1>3, <1>4, MoreLater
<1> QED BY <1>5 DEF B

CalendarTypes ==
    /\ now \in Nat /\ day_file \in Nat /\ rotation_tp_ \in Nat /\ day_faults \in Nat /\ restarts \in Nat
    /\ remove_init_file_ \in BOOLEAN /\ written \in BOOLEAN /\ day_fd \in BOOLEAN
    /\ day_alive \in BOOLEAN /\ reopened \in BOOLEAN

(* What was made is of a day that has begun, and began before the rotation;  *)
(* it is over by then when the sink rotates at midnight.                    *)
MadeEarlier(st) ==
    /\ made \subseteq 0..DayOf(now)
    /\ \A d \in made : d * Period <= rotation_tp_ /\ (st.offset = 0 => d * Period + Period <= rotation_tp_)

CalendarQueue(st) ==
    /\ Line(filenames_q_) /\ \A i \in 1..Len(filenames_q_) : filenames_q_[i] \in made
    /\ ~reopened => Ascending(filenames_q_)
    /\ st.offset = 0 => ~reopened

CalendarDisk ==
    /\ disk \subseteq made /\ (~reopened => Retained(made, disk \union emptied))
    /\ remove_init_file_ => ~written

OneLife ==
    day_faults = 0 /\ restarts = 0 => \A d \in disk : \E i \in 1..Len(filenames_q_) : filenames_q_[i] = d

(* As long as no message was late, the open file is of a day that has begun, *)
(* and the rotation comes by the next day; with none open it is due.        *)
Punctual(st) ==
    ~late => /\ ~strays
             /\ day_alive /\ day_fd => /\ day_file <= DayOf(now)
                                       /\ rotation_tp_ <= day_file * Period + Period + st.offset
             /\ day_alive /\ ~day_fd => rotation_tp_ <= now

CalendarInv(st) ==
    CalendarTypes /\ MadeEarlier(st) /\ CalendarQueue(st) /\ CalendarDisk /\ OneLife /\ Punctual(st)

LEMMA CalendarStarts ==
    ASSUME NEW st, CalendarSetting(st), Files(st)!Init
    PROVE  CalendarInv(st)
<1> DEFINE d == DayOf(Start)
           n == Files(st)!next_rotation_tp_(Start)
           s == <<d>>
<1>1. /\ now = Start /\ day_file = d /\ day_fd = TRUE /\ disk = {d} /\ rotation_tp_ = n /\ day_alive = TRUE
      /\ filenames_q_ = s /\ remove_init_file_ = st.hourly /\ written = FALSE
      /\ made = {d} /\ emptied = {} /\ reopened = FALSE /\ late = FALSE /\ strays = FALSE
      /\ day_faults = 0 /\ restarts = 0
  <2>1. Start \in Nat /\ Files(st)!Day(Start) = d
    BY CalendarAssumption, NextRotation
  <2> HIDE DEF d, n
  <2> QED BY <2>1 DEF Files!Init, n
<1>2. /\ d \in Nat /\ d * Period <= Start /\ Start \in Nat /\ MaxFiles \in Nat /\ MaxFiles >= 1 /\ Period \in Nat
      /\ n \in Nat /\ Start < n /\ n <= d * Period + Period + st.offset
      /\ st.offset = 0 => n = d * Period + Period
  BY DayIs, NextRotation, CalendarAssumption, RotatingAssumption
<1>3. s \in Seq(Nat) /\ Len(s) = 1 /\ s[1] = d
  BY <1>2
<1>4. d = DayOf(now)
  BY <1>1
<1> HIDE DEF d, n, s
<1>5. Queue(s)
  BY <1>2, <1>3 DEF Queue, Line, Ascending
<1>6. CalendarTypes
  BY <1>1, <1>2 DEF CalendarTypes, CalendarSetting
<1>7. MadeEarlier(st)
  <2>1. d * Period \in Nat
    BY <1>2
  <2> QED BY <1>1, <1>2, <1>4, <2>1 DEF MadeEarlier
<1>8. CalendarQueue(st)
  BY <1>1, <1>3, <1>5 DEF CalendarQueue, Queue
<1>9. CalendarDisk /\ OneLife
  <2>1. \A x \in disk : \E i \in 1..Len(filenames_q_) : filenames_q_[i] = x
    BY <1>1, <1>3
  <2> QED BY <1>1, <2>1 DEF CalendarDisk, OneLife, Retained
<1>10. Punctual(st)
  BY <1>1, <1>2, <1>4 DEF Punctual
<1> QED BY <1>6, <1>7, <1>8, <1>9, <1>10 DEF CalendarInv

(* A message to the open file. *)
LEMMA DayWrites ==
    ASSUME NEW st, CalendarSetting(st), CalendarInv(st), NEW t \in Nat, t <= now, Files(st)!Log(t), Files(st)!Write(t)
    PROVE  CalendarInv(st)'
<1>1. CalendarTypes /\ MadeEarlier(st) /\ CalendarQueue(st) /\ CalendarDisk /\ OneLife /\ Punctual(st)
  BY DEF CalendarInv
<1>2. /\ UNCHANGED <<day_file, day_fd, rotation_tp_, filenames_q_, disk, made, emptied, reopened, now, restarts>>
      /\ day_alive /\ t < rotation_tp_ /\ remove_init_file_' = FALSE /\ written' \in {written, st.hourly}
      /\ day_faults' \in {day_faults, day_faults + 1}
      /\ \/ day_fd /\ day_alive' = day_alive /\ strays' = (strays \/ ~Files(st)!Own(day_file, t))
         \/ day_fd /\ day_alive' = day_alive /\ strays' = strays
         \/ ~day_fd /\ strays' = TRUE /\ day_alive' = FALSE
      /\ late' = (late \/ Files(st)!Day(t) # Files(st)!Day(now) \/ (t < rotation_tp_ /\ rotation_tp_ <= now))
  BY DEF Files!Log, Files!Write, Files!Fault
<1>3. CalendarTypes'
  <2>1. day_faults' \in Nat
    BY <1>1, <1>2 DEF CalendarTypes
  <2>2. day_alive' \in BOOLEAN
    BY <1>1, <1>2 DEF CalendarTypes
  <2>3. written' \in BOOLEAN
    BY <1>1, <1>2 DEF CalendarTypes, CalendarSetting
  <2> QED BY <1>1, <1>2, <2>1, <2>2, <2>3 DEF CalendarTypes
<1>4. MadeEarlier(st)'
  BY <1>1, <1>2 DEF MadeEarlier
<1>5. CalendarQueue(st)'
  BY <1>1, <1>2 DEF CalendarQueue
<1>6. CalendarDisk'
  BY <1>1, <1>2 DEF CalendarDisk, Retained
<1>7. OneLife'
  <2>1. day_faults' = 0 => day_faults = 0
    BY <1>1, <1>2 DEF CalendarTypes
  <2> QED BY <1>1, <1>2, <2>1 DEF OneLife
<1>8. Punctual(st)'
  <2>1. SUFFICES ASSUME ~late'
                 PROVE  /\ ~strays'
                        /\ day_alive' => /\ day_fd /\ day_file <= DayOf(now)
                                         /\ rotation_tp_ <= day_file * Period + Period + st.offset
    BY <1>2 DEF Punctual
  <2>2. ~late /\ Files(st)!Day(t) = Files(st)!Day(now) /\ ~(rotation_tp_ <= now)
    BY <1>2, <2>1
  <2>3. DayOf(t) = DayOf(now) /\ Files(st)!Day(t) = DayOf(t)
    BY <1>1, <2>2, NextRotation DEF CalendarTypes
  <2>4. day_fd
    BY <1>1, <1>2, <2>2 DEF Punctual
  <2>5. ~strays /\ day_file <= DayOf(t) /\ rotation_tp_ <= day_file * Period + Period + st.offset
    BY <1>1, <1>2, <2>2, <2>3, <2>4 DEF Punctual
  <2>6. Files(st)!Own(day_file, t)
    <3> DEFINE a == DayOf(t)
               o == st.offset
    <3>1. a \in Nat /\ a * Period <= t /\ day_file \in Nat /\ rotation_tp_ \in Nat /\ o \in 0..(Period - 1) /\ Period \in Nat
      BY <1>1, DayIs, CalendarAssumption DEF CalendarTypes, CalendarSetting
    <3>2. Files(st)!Own(day_file, t) <=> day_file = a \/ (day_file = a - 1 /\ t < a * Period + o)
      BY <2>3 DEF Files!Own
    <3>3. day_file <= a /\ t < day_file * Period + Period + o
      <4>1. t < rotation_tp_ /\ rotation_tp_ <= day_file * Period + Period + o /\ day_file <= a
        BY <1>2, <2>5
      <4> DEFINE x == day_file * Period
      <4>2. x \in Nat
        BY <3>1
      <4> HIDE DEF x, a, o
      <4>3. t < x + Period + o
        BY <3>1, <4>1, <4>2 DEF x
      <4> QED BY <4>1, <4>3 DEF x
    <3> HIDE DEF a, o
    <3>4. CASE day_file = a
      BY <3>2, <3>4
    <3>5. CASE day_file # a
      <4>1. day_file + 1 <= a /\ day_file + 1 \in Nat /\ (day_file + 1) * Period = day_file * Period + Period
        BY <3>1, <3>3, <3>5
      <4>2. ~(day_file + 1 < a)
        <5>1. SUFFICES ASSUME day_file + 1 < a PROVE FALSE
          OBVIOUS
        <5>2. (day_file + 1) * Period + Period <= a * Period
          BY <3>1, <4>1, <5>1, LaterStarts
        <5> DEFINE x == day_file * Period
                   y == a * Period
        <5>3. x \in Nat /\ y \in Nat
          BY <3>1
        <5>4. x + Period + Period <= y /\ t < x + Period + o /\ y <= t
          BY <3>1, <3>3, <4>1, <5>2
        <5> HIDE DEF x, y
        <5> QED BY <3>1, <5>3, <5>4
      <4>3. day_file = a - 1 /\ a = day_file + 1
        BY <3>1, <4>1, <4>2
      <4>4. t < a * Period + o
        BY <3>3, <4>1, <4>3
      <4> QED BY <3>2, <4>3, <4>4
    <3> QED BY <3>4, <3>5
  <2>7. ~strays'
    BY <1>2, <2>4, <2>5, <2>6
  <2> QED BY <2>3, <2>4, <2>5, <2>7
<1> QED BY <1>3, <1>4, <1>5, <1>6, <1>7, <1>8 DEF CalendarInv

(* What a rotation finds: the day of its message is not before one of a file. *)
LEMMA RotatesLater ==
    ASSUME NEW st, CalendarSetting(st), CalendarInv(st), NEW t \in Nat, t <= now, t >= rotation_tp_
    PROVE  /\ DayOf(t) \in Nat /\ DayOf(t) <= DayOf(now) /\ DayOf(now) \in Nat /\ now \in Nat
           /\ \A e \in made : e \in Nat /\ e <= DayOf(t) /\ (st.offset = 0 => e < DayOf(t))
<1>1. now \in Nat /\ rotation_tp_ \in Nat /\ MadeEarlier(st) /\ Period \in Nat
  BY CalendarAssumption DEF CalendarInv, CalendarTypes
<1>2. DayOf(t) \in Nat /\ DayOf(now) \in Nat /\ DayOf(t) <= DayOf(now)
  BY <1>1, DayIs, DayGrows
<1>3. ASSUME NEW e \in made PROVE e \in Nat /\ e <= DayOf(t) /\ (st.offset = 0 => e < DayOf(t))
  <2>1. e \in Nat /\ e * Period <= rotation_tp_ /\ (st.offset = 0 => e * Period + Period <= rotation_tp_)
    BY <1>1, <1>2 DEF MadeEarlier
  <2>2. e * Period \in Nat
    BY <1>1, <2>1
  <2>3. e * Period <= t /\ (st.offset = 0 => e * Period + Period <= t)
    BY <1>1, <2>1, <2>2
  <2> QED BY <2>1, <2>3, DayIsLast
<1> QED BY <1>1, <1>2, <1>3

(* An open of the file d for a time now makes the files early again. *)
LEMMA OpensEarly ==
    ASSUME NEW st, CalendarSetting(st), CalendarInv(st), NEW d \in Nat, d <= DayOf(now),
           now' = now, made' = made \union {d}, rotation_tp_' = Files(st)!next_rotation_tp_(now)
    PROVE  MadeEarlier(st)' /\ rotation_tp_' \in Nat
<1>1. now \in Nat /\ MadeEarlier(st) /\ Period \in Nat
  BY CalendarAssumption DEF CalendarInv, CalendarTypes
<1> DEFINE a == DayOf(now)
           n == Files(st)!next_rotation_tp_(now)
<1>2. a \in Nat /\ a * Period <= now /\ n \in Nat /\ now < n /\ (st.offset = 0 => n = a * Period + Period)
  BY <1>1, DayIs, NextRotation
<1>3. made' \subseteq 0..a
  BY <1>1, <1>2 DEF MadeEarlier
<1>4. DayOf(now)' = a
  OBVIOUS
<1> HIDE DEF a, n
<1>5. ASSUME NEW e \in made' PROVE e * Period <= n /\ (st.offset = 0 => e * Period + Period <= n)
  <2>1. e \in Nat /\ e <= a
    BY <1>2, <1>3
  <2>2. e * Period <= a * Period
    BY <1>2, <2>1, LaterStarts
  <2>3. e * Period \in Nat /\ a * Period \in Nat
    BY <1>1, <1>2, <2>1
  <2> QED BY <1>1, <1>2, <2>2, <2>3
<1>6. rotation_tp_' = n
  BY DEF n
<1> QED BY <1>2, <1>3, <1>4, <1>5, <1>6 DEF MadeEarlier

(* The removal of the empty first file, whether it succeeds or not. *)
LEMMA FirstRemoved ==
    ASSUME CalendarDisk, NEW left \in IF remove_init_file_ THEN {disk \ {day_file}, disk} ELSE {disk},
           emptied' = IF written THEN emptied ELSE emptied \union (disk \ left)
    PROVE  left \subseteq disk /\ disk \union emptied \subseteq left \union emptied' /\ emptied \subseteq emptied'
BY DEF CalendarDisk

(* sink_it_() rotates, but the open fails. *)
LEMMA DayUnopened ==
    ASSUME NEW st, CalendarSetting(st), CalendarInv(st), NEW t \in Nat, t <= now, t >= rotation_tp_,
           day_file' = Files(st)!Day(t), day_fd' = FALSE, written' = FALSE, day_faults' = day_faults + 1,
           NEW left \in IF remove_init_file_ THEN {disk \ {day_file}, disk} ELSE {disk},
           emptied' = IF written THEN emptied ELSE emptied \union (disk \ left),
           disk' = left, late => late',
           UNCHANGED <<rotation_tp_, filenames_q_, remove_init_file_, made, reopened, day_alive, strays, now, restarts>>
    PROVE  CalendarInv(st)'
<1>1. CalendarTypes /\ MadeEarlier(st) /\ CalendarQueue(st) /\ CalendarDisk /\ OneLife /\ Punctual(st)
  BY DEF CalendarInv
<1>2. CalendarTypes'
  <2>1. day_file' \in Nat
    BY NextRotation, DayIs
  <2>2. day_faults' \in Nat
    BY <1>1 DEF CalendarTypes
  <2>3. day_fd' \in BOOLEAN /\ written' \in BOOLEAN
    OBVIOUS
  <2> QED BY <1>1, <2>1, <2>2, <2>3 DEF CalendarTypes
<1>3. MadeEarlier(st)' /\ CalendarQueue(st)'
  BY <1>1 DEF MadeEarlier, CalendarQueue
<1>4. CalendarDisk'
  <2>1. left \subseteq disk /\ disk \union emptied \subseteq left \union emptied'
    BY <1>1, FirstRemoved
  <2>2. ~reopened => Retained(made, left \union emptied')
    BY <1>1, <2>1 DEF CalendarDisk, Retained
  <2> QED BY <1>1, <2>1, <2>2 DEF CalendarDisk
<1>5. OneLife'
  <2>1. day_faults' # 0
    BY <1>1 DEF CalendarTypes
  <2> QED BY <2>1 DEF OneLife
<1>6. Punctual(st)'
  <2>1. rotation_tp_ <= now
    BY <1>1 DEF CalendarTypes
  <2> QED BY <1>1, <2>1 DEF Punctual
<1> QED BY <1>2, <1>3, <1>4, <1>5, <1>6 DEF CalendarInv

(* sink_it_() rotates: the file is open then, but the write may fail. *)
LEMMA DayRotates ==
    ASSUME NEW st, CalendarSetting(st), CalendarInv(st), NEW t \in Nat, t <= now, t >= rotation_tp_,
           day_file' = Files(st)!Day(t), day_fd' = TRUE, written' \in {FALSE, st.hourly},
           rotation_tp_' = Files(st)!next_rotation_tp_(now), remove_init_file_' = FALSE,
           made' = made \union {day_file'},
           NEW left \in IF remove_init_file_ THEN {disk \ {day_file}, disk} ELSE {disk},
           emptied' = IF written THEN emptied ELSE emptied \union (disk \ left),
           late' = (late \/ Files(st)!Day(t) # Files(st)!Day(now) \/ (t < rotation_tp_ /\ rotation_tp_ <= now)),
           UNCHANGED <<day_alive, strays, now, restarts>>,
           \/ /\ day_faults' = day_faults + 1 /\ disk' = left \union {day_file'}
              /\ UNCHANGED <<filenames_q_, reopened>>
           \/ /\ Files(st)!delete_old_(day_file', left \union {day_file'})
              /\ reopened' = (reopened \/ \E i \in DOMAIN filenames_q_ : filenames_q_[i] = day_file')
    PROVE  CalendarInv(st)'
<1> DEFINE d == DayOf(t)
           s == filenames_q_
           r == Files(st)!Enqueued(s, d)
           E == left \union {d}
           crowded == Len(s) = MaxFiles
           m == made \union {d}
           Held == \E i \in 1..Len(s) : s[i] = d
<1>1. CalendarTypes /\ MadeEarlier(st) /\ CalendarQueue(st) /\ CalendarDisk /\ OneLife /\ Punctual(st)
  BY DEF CalendarInv
<1>2. /\ d \in Nat /\ d <= DayOf(now) /\ DayOf(now) \in Nat /\ now \in Nat
      /\ \A e \in made : e \in Nat /\ e <= d /\ (st.offset = 0 => e < d)
  BY RotatesLater
<1>3. day_file' = d
  BY NextRotation
<1>4. MadeEarlier(st)' /\ rotation_tp_' \in Nat
  BY <1>2, <1>3, OpensEarly
<1>5. /\ s \in Seq(Nat) /\ Len(s) \in Nat /\ Len(s) >= 1 /\ MaxFiles \in Nat /\ Line(s)
      /\ \A i \in 1..Len(s) : s[i] \in made
      /\ (~reopened => Ascending(s)) /\ (st.offset = 0 => ~reopened)
  BY <1>1, RotatingAssumption DEF CalendarQueue, Line
<1>6. DOMAIN s = 1..Len(s) /\ Head(s) = s[1] /\ 1 \in 1..Len(s) /\ Len(s) \in 1..Len(s)
  BY <1>5
<1>7. /\ QueueMoved(s, d, r)
      /\ Ascending(s) /\ s[Len(s)] < d => Ascending(r) /\ (crowded => \A i \in 1..Len(r) : s[1] < r[i])
  BY <1>2, <1>5, EnqueuedIs
<1>8. \/ /\ day_faults' = day_faults + 1 /\ disk' = E /\ filenames_q_' = s /\ reopened' = reopened
      \/ /\ filenames_q_' = r /\ reopened' = (reopened \/ Held)
         /\ \/ disk' = (IF crowded THEN E \ {Head(s)} ELSE E) /\ day_faults' = day_faults
            \/ disk' = E /\ day_faults' = day_faults + 1
  BY <1>3, <1>6 DEF Files!delete_old_, Files!Fault
<1>9. CalendarTypes'
  <2>1. day_faults' \in Nat
    BY <1>1, <1>8 DEF CalendarTypes
  <2>2. reopened' \in BOOLEAN
    BY <1>1, <1>8 DEF CalendarTypes
  <2>3. written' \in BOOLEAN
    BY DEF CalendarSetting
  <2> QED BY <1>1, <1>2, <1>3, <1>4, <2>1, <2>2, <2>3 DEF CalendarTypes
<1>10. Punctual(st)'
  <2>1. SUFFICES ASSUME ~late'
                 PROVE  ~strays /\ d <= DayOf(now)
                        /\ rotation_tp_' <= d * Period + Period + st.offset
    BY <1>3 DEF Punctual
  <2>2. ~late /\ Files(st)!Day(t) = Files(st)!Day(now)
    BY <2>1
  <2>3. DayOf(t) = DayOf(now)
    BY <1>2, <2>2, NextRotation
  <2> QED BY <1>1, <1>2, <2>2, <2>3, NextRotation DEF Punctual
<1>11. made' = m /\ m \subseteq 0..DayOf(now)
  <2>1. made \subseteq 0..DayOf(now)
    BY <1>1 DEF MadeEarlier
  <2>2. d \in 0..DayOf(now)
    BY <1>2
  <2>3. made' = m
    BY <1>3
  <2> HIDE DEF d
  <2> QED BY <2>1, <2>2, <2>3
<1>12. left \subseteq disk /\ disk \union emptied \subseteq left \union emptied' /\ disk \subseteq made
  BY <1>1, FirstRemoved DEF CalendarDisk
<1> HIDE DEF d, r
<1>13. ~Held /\ ~reopened => Ascending(s) /\ s[Len(s)] < d
  <2>1. SUFFICES ASSUME ~Held, ~reopened PROVE s[Len(s)] < d
    BY <1>5
  <2>2. s[Len(s)] \in made /\ s[Len(s)] # d
    BY <1>5, <1>6, <2>1
  <2> QED BY <1>2, <2>2
<1>14. st.offset = 0 => ~Held
  <2>1. SUFFICES ASSUME st.offset = 0, NEW i \in 1..Len(s), s[i] = d PROVE FALSE
    OBVIOUS
  <2>2. d < d
    BY <1>2, <1>5, <2>1
  <2> QED BY <1>2, <2>2
<1>15. /\ Line(r) /\ Len(r) \in Nat /\ Len(r) \in 1..Len(r) /\ r[Len(r)] = d
       /\ \A i \in 1..Len(r) : r[i] \in m
       /\ \A k \in 1..Len(s) : k > 1 \/ ~crowded => \E i \in 1..Len(r) : r[i] = s[k]
  <2>1. Line(r) /\ Len(r) \in Nat /\ Len(r) \in 1..Len(r)
    BY <1>5, <1>7 DEF QueueMoved, Line
  <2> QED BY <1>5, <1>7, <2>1 DEF QueueMoved
<1>16. CalendarQueue(st)'
  <2>1. CASE filenames_q_' = s /\ reopened' = reopened
    BY <1>1, <1>11, <2>1 DEF CalendarQueue
  <2>2. CASE filenames_q_' = r /\ reopened' = (reopened \/ Held)
    BY <1>5, <1>7, <1>11, <1>13, <1>14, <1>15, <2>2 DEF CalendarQueue
  <2> QED BY <1>8, <2>1, <2>2
<1>17. OneLife'
  <2>1. SUFFICES ASSUME day_faults' = 0, restarts = 0, NEW x \in disk'
                 PROVE  \E i \in 1..Len(filenames_q_') : filenames_q_'[i] = x
    BY DEF OneLife
  <2>2. /\ day_faults = 0 /\ filenames_q_' = r /\ disk' = (IF crowded THEN E \ {Head(s)} ELSE E)
    <3>1. day_faults' # day_faults + 1
      BY <1>1, <2>1 DEF CalendarTypes
    <3> QED BY <1>8, <2>1, <3>1
  <2>3. CASE x = d
    BY <1>15, <2>2, <2>3
  <2>4. CASE x # d
    <3>1. x \in disk /\ (crowded => x # s[1])
      BY <1>6, <1>12, <2>1, <2>2, <2>4
    <3>2. PICK k \in 1..Len(s) : s[k] = x
      BY <1>1, <2>1, <2>2, <3>1 DEF OneLife
    <3>3. k > 1 \/ ~crowded
      BY <1>5, <3>1, <3>2
    <3> QED BY <1>15, <2>2, <3>2, <3>3
  <2> QED BY <2>3, <2>4
<1>18. CalendarDisk'
  <2>1. disk' \subseteq made'
    BY <1>8, <1>11, <1>12
  <2>2. ~reopened' => Retained(m, E \union emptied')
    <3>1. ~reopened' => Retained(made, disk \union emptied)
      BY <1>1, <1>8 DEF CalendarDisk
    <3>2. made \subseteq m /\ disk \union emptied \subseteq E \union emptied' /\ m \subseteq made \union (E \union emptied')
      BY <1>12
    <3>3. m \subseteq 0..DayOf(now) /\ DayOf(now) \in Nat
      BY <1>2, <1>11
    <3> HIDE DEF m, E
    <3> QED BY <3>1, <3>2, <3>3, RetainsMore
  <2>3. CASE disk' = E
    BY <1>11, <2>1, <2>2, <2>3 DEF CalendarDisk
  <2>4. CASE disk' # E
    <3>1. crowded /\ disk' = E \ {s[1]} /\ reopened' = (reopened \/ Held)
      BY <1>6, <1>8, <2>4
    <3>2. ASSUME NEW x \in m, x \notin disk' \union emptied', ~reopened'
          PROVE  Cardinality({e \in m : e > x}) >= MaxFiles
      <4>1. CASE x # s[1]
        <5>1. x \notin E \union emptied'
          BY <3>1, <3>2, <4>1
        <5> QED BY <2>2, <3>2, <5>1 DEF Retained
      <4>2. CASE x = s[1]
        <5> DEFINE T == {e \in m : e > x}
        <5>1. /\ Ascending(r) /\ Len(r) = MaxFiles /\ \A i \in 1..Len(r) : s[1] < r[i]
          BY <1>7, <1>13, <3>1, <3>2 DEF QueueMoved
        <5>2. \A i \in 1..Len(r) : r[i] \in T
          BY <1>5, <1>6, <1>11, <1>15, <4>2, <5>1
        <5>3. T \subseteq 0..DayOf(now)
          BY <1>11
        <5> HIDE DEF T
        <5>4. IsFiniteSet(T)
          BY <1>2, <5>3, LaterFinite
        <5>5. Queue(r)
          BY <1>15, <5>1 DEF Queue
        <5>6. Cardinality(T) >= MaxFiles
          BY <5>1, <5>2, <5>4, <5>5, ManyDays
        <5> QED BY <5>6 DEF T
      <4> QED BY <4>1, <4>2
    <3>3. ~reopened' => Retained(m, disk' \union emptied')
      BY <3>2 DEF Retained
    <3> QED BY <1>11, <2>1, <3>3 DEF CalendarDisk
  <2> QED BY <2>3, <2>4
<1> QED BY <1>4, <1>9, <1>10, <1>16, <1>17, <1>18 DEF CalendarInv

LEMMA ClockTicks ==
    ASSUME NEW st, CalendarSetting(st), CalendarInv(st), Files(st)!Tick
    PROVE  CalendarInv(st)'
<1>1. CalendarTypes /\ MadeEarlier(st) /\ CalendarQueue(st) /\ CalendarDisk /\ OneLife /\ Punctual(st)
  BY DEF CalendarInv
<1>2. /\ now' = now + 1
      /\ UNCHANGED <<day_file, day_fd, rotation_tp_, filenames_q_, remove_init_file_, disk, written, day_alive,
                     made, emptied, reopened, late, strays, day_faults, restarts>>
  BY DEF Files!Tick
<1>3. now \in Nat /\ now' \in Nat /\ rotation_tp_ \in Nat
  BY <1>1, <1>2 DEF CalendarTypes
<1>4. DayOf(now) \in Nat /\ DayOf(now') \in Nat /\ DayOf(now) <= DayOf(now')
  BY <1>2, <1>3, DayIs, DayGrows
<1>5. CalendarTypes' /\ CalendarQueue(st)' /\ CalendarDisk' /\ OneLife'
  BY <1>1, <1>2, <1>3 DEF CalendarTypes, CalendarQueue, CalendarDisk, OneLife
<1>6. MadeEarlier(st)'
  <2>1. made' \subseteq 0..DayOf(now')
    BY <1>1, <1>2, <1>4 DEF MadeEarlier
  <2> QED BY <1>1, <1>2, <2>1 DEF MadeEarlier
<1>7. Punctual(st)'
  <2>1. SUFFICES ASSUME ~late
                 PROVE  /\ ~strays
                        /\ day_alive /\ day_fd => /\ day_file <= DayOf(now')
                                                  /\ rotation_tp_ <= day_file * Period + Period + st.offset
                        /\ day_alive /\ ~day_fd => rotation_tp_ <= now'
    BY <1>2 DEF Punctual
  <2>2. day_file \in Nat
    BY <1>1 DEF CalendarTypes
  <2>3. day_alive /\ day_fd => day_file <= DayOf(now')
    BY <1>1, <1>4, <2>1, <2>2 DEF Punctual
  <2>4. day_alive /\ ~day_fd => rotation_tp_ <= now'
    BY <1>1, <1>2, <1>3, <2>1 DEF Punctual
  <2> QED BY <1>1, <2>1, <2>3, <2>4 DEF Punctual
<1> QED BY <1>5, <1>6, <1>7 DEF CalendarInv

(* The constructor opens the file of the day; its queue is the last days in   *)
(* a row with a file.                                                       *)
LEMMA DayOpens ==
    ASSUME NEW st, CalendarSetting(st), CalendarInv(st),
           day_file' = Files(st)!Day(now), disk' = disk \union {Files(st)!Day(now)},
           made' = made \union {Files(st)!Day(now)}, day_fd' = TRUE, day_alive' = TRUE,
           rotation_tp_' = Files(st)!next_rotation_tp_(now), filenames_q_' = Files(st)!LastFiles(now, disk'),
           NEW blank \in BOOLEAN, remove_init_file_' = (st.hourly /\ blank), written' = (st.hourly /\ ~blank),
           restarts' = restarts + 1, UNCHANGED <<day_faults, now, emptied, reopened, late, strays>>
    PROVE  CalendarInv(st)'
<1> DEFINE d == DayOf(now)
           E == disk \union {d}
           r == Files(st)!LastFiles(now, E)
<1>1. CalendarTypes /\ MadeEarlier(st) /\ CalendarQueue(st) /\ CalendarDisk /\ OneLife /\ Punctual(st)
  BY DEF CalendarInv
<1>2. now \in Nat /\ d \in Nat /\ restarts \in Nat
  BY <1>1, DayIs DEF CalendarTypes
<1>3. /\ Files(st)!Day(now) = d /\ rotation_tp_' <= d * Period + Period + st.offset
  BY <1>2, NextRotation
<1>4. day_file' = d /\ disk' = E /\ made' = made \union {d} /\ filenames_q_' = r
  BY <1>3
<1>5. MadeEarlier(st)' /\ rotation_tp_' \in Nat
  BY <1>2, <1>3, OpensEarly
<1>6. Queue(r) /\ r[Len(r)] = d /\ \A i \in 1..Len(r) : r[i] \in E
  BY <1>2, LastFilesAre
<1>7. CalendarTypes'
  <2>1. restarts' \in Nat /\ day_faults' \in Nat /\ now' \in Nat /\ day_file' \in Nat
    BY <1>1, <1>2, <1>4 DEF CalendarTypes
  <2>2. remove_init_file_' \in BOOLEAN /\ written' \in BOOLEAN /\ day_fd' \in BOOLEAN /\ day_alive' \in BOOLEAN
    OBVIOUS
  <2>3. reopened' \in BOOLEAN
    BY <1>1 DEF CalendarTypes
  <2> QED BY <1>5, <2>1, <2>2, <2>3 DEF CalendarTypes
<1>8. Punctual(st)'
  <2>1. d <= DayOf(now)'
    BY <1>2
  <2>2. ~late => ~strays
    BY <1>1 DEF Punctual
  <2> QED BY <1>3, <1>4, <2>1, <2>2 DEF Punctual
<1>9. OneLife'
  <2>1. restarts' # 0
    BY <1>2
  <2> QED BY <2>1 DEF OneLife
<1>10. made \union {d} \subseteq 0..d /\ disk \subseteq made
  <2>1. made \subseteq 0..d
    BY <1>1 DEF MadeEarlier
  <2>2. disk \subseteq made
    BY <1>1 DEF CalendarDisk
  <2>3. d \in 0..d
    BY <1>2
  <2> QED BY <2>1, <2>2, <2>3
<1> HIDE DEF d, r
<1>11. CalendarQueue(st)'
  <2>1. \A i \in 1..Len(r) : r[i] \in made'
    BY <1>4, <1>6, <1>10
  <2>2. st.offset = 0 => ~reopened'
    BY <1>1 DEF CalendarQueue
  <2> QED BY <1>4, <1>6, <2>1, <2>2 DEF CalendarQueue, Queue
<1>12. CalendarDisk'
  <2>1. ~reopened => Retained(made \union {d}, E \union emptied)
    <3> DEFINE m == made \union {d}
               there == disk \union emptied
               there2 == E \union emptied
    <3>1. ~reopened => Retained(made, there)
      BY <1>1 DEF CalendarDisk
    <3>2. made \subseteq m /\ m \subseteq 0..d /\ there \subseteq there2 /\ m \subseteq made \union there2
      BY <1>10
    <3> HIDE DEF m, there, there2
    <3>3. ~reopened => Retained(m, there2)
      BY <1>2, <3>1, <3>2, RetainsMore
    <3> QED BY <3>3 DEF m, there2
  <2>2. remove_init_file_' => ~written'
    OBVIOUS
  <2>3. disk' \subseteq made'
    BY <1>4, <1>10
  <2>4. ~reopened' => Retained(made', disk' \union emptied')
    BY <1>4, <2>1
  <2> QED BY <2>2, <2>3, <2>4 DEF CalendarDisk
<1> QED BY <1>5, <1>7, <1>8, <1>9, <1>11, <1>12 DEF CalendarInv

(* It throws: there is no sink. *)
LEMMA DayThrows ==
    ASSUME NEW st, CalendarInv(st), day_faults' = day_faults + 1, restarts' = restarts + 1,
           day_fd' = FALSE, day_alive' = FALSE,
           UNCHANGED <<now, day_file, rotation_tp_, filenames_q_, remove_init_file_, disk, written, made,
                       emptied, reopened, late, strays>>
    PROVE  CalendarInv(st)'
<1>1. CalendarTypes /\ MadeEarlier(st) /\ CalendarQueue(st) /\ CalendarDisk /\ OneLife /\ Punctual(st)
  BY DEF CalendarInv
<1>2. CalendarTypes'
  <2>1. day_faults' \in Nat /\ restarts' \in Nat
    BY <1>1 DEF CalendarTypes
  <2>2. day_fd' \in BOOLEAN /\ day_alive' \in BOOLEAN
    OBVIOUS
  <2> QED BY <1>1, <2>1, <2>2 DEF CalendarTypes
<1>3. MadeEarlier(st)' /\ CalendarQueue(st)' /\ CalendarDisk'
  BY <1>1 DEF MadeEarlier, CalendarQueue, CalendarDisk
<1>4. OneLife'
  <2>1. restarts' # 0
    BY <1>1 DEF CalendarTypes
  <2> QED BY <2>1 DEF OneLife
<1>5. Punctual(st)'
  BY <1>1 DEF Punctual
<1> QED BY <1>2, <1>3, <1>4, <1>5 DEF CalendarInv

LEMMA CalendarSteps ==
    ASSUME NEW st, CalendarSetting(st), CalendarInv(st), Files(st)!Next \/ UNCHANGED calendar
    PROVE  CalendarInv(st)'
<1>1. now \in Nat
  BY DEF CalendarInv, CalendarTypes
<1>2. ASSUME NEW e \in Delays, e <= now, Files(st)!Log(now - e) PROVE CalendarInv(st)'
  <2> DEFINE t == now - e
  <2>1. t \in Nat /\ t <= now
    BY <1>1, <1>2, CalendarAssumption
  <2>2. Files(st)!Log(t)
    BY <1>2
  <2> HIDE DEF t
  <2>3. CASE Files(st)!Write(t)
    BY <2>1, <2>2, <2>3, DayWrites
  <2>4. CASE Files(st)!Rotate(t)
    <3>1. /\ t >= rotation_tp_ /\ day_file' = Files(st)!Day(t)
          /\ UNCHANGED <<day_alive, strays, now, restarts>>
          /\ late' = (late \/ Files(st)!Day(t) # Files(st)!Day(now) \/ (t < rotation_tp_ /\ rotation_tp_ <= now))
      BY <2>2, <2>4 DEF Files!Rotate, Files!Log
    <3>2. PICK left \in IF remove_init_file_ THEN {disk \ {day_file}, disk} ELSE {disk} :
              /\ emptied' = IF written THEN emptied ELSE emptied \union (disk \ left)
              /\ \/ /\ day_faults' = day_faults + 1 /\ disk' = left /\ day_fd' = FALSE /\ written' = FALSE
                    /\ UNCHANGED <<rotation_tp_, filenames_q_, remove_init_file_, made, reopened>>
                 \/ /\ day_fd' = TRUE /\ rotation_tp_' = Files(st)!next_rotation_tp_(now)
                    /\ remove_init_file_' = FALSE /\ written' \in {FALSE, st.hourly}
                    /\ made' = made \union {day_file'}
                    /\ \/ /\ day_faults' = day_faults + 1 /\ disk' = left \union {day_file'}
                          /\ UNCHANGED <<filenames_q_, reopened>>
                       \/ /\ Files(st)!delete_old_(day_file', left \union {day_file'})
                          /\ reopened' = (reopened \/ \E i \in DOMAIN filenames_q_ : filenames_q_[i] = day_file')
      BY <2>4 DEF Files!Rotate, Files!Fault
    <3>3. CASE /\ day_faults' = day_faults + 1 /\ disk' = left /\ day_fd' = FALSE /\ written' = FALSE
               /\ UNCHANGED <<rotation_tp_, filenames_q_, remove_init_file_, made, reopened>>
      BY <2>1, <3>1, <3>2, <3>3, DayUnopened
    <3>4. CASE /\ day_fd' = TRUE /\ rotation_tp_' = Files(st)!next_rotation_tp_(now)
               /\ remove_init_file_' = FALSE /\ written' \in {FALSE, st.hourly}
               /\ made' = made \union {day_file'}
               /\ \/ /\ day_faults' = day_faults + 1 /\ disk' = left \union {day_file'}
                     /\ UNCHANGED <<filenames_q_, reopened>>
                  \/ /\ Files(st)!delete_old_(day_file', left \union {day_file'})
                     /\ reopened' = (reopened \/ \E i \in DOMAIN filenames_q_ : filenames_q_[i] = day_file')
      BY <2>1, <3>1, <3>2, <3>4, DayRotates
    <3> QED BY <3>2, <3>3, <3>4
  <2> QED BY <2>2, <2>3, <2>4 DEF Files!Log
<1>3. CASE Files(st)!Tick
  BY <1>3, ClockTicks
<1>4. CASE Files(st)!Restart
  <2>1. restarts' = restarts + 1 /\ UNCHANGED <<now, emptied, reopened, late, strays>>
    BY <1>4 DEF Files!Restart
  <2>2. CASE \E blank \in Files(st)!BlankSizes :
                /\ day_file' = Files(st)!Day(now) /\ disk' = disk \union {Files(st)!Day(now)}
                /\ made' = made \union {Files(st)!Day(now)} /\ day_fd' = TRUE /\ day_alive' = TRUE
                /\ rotation_tp_' = Files(st)!next_rotation_tp_(now)
                /\ filenames_q_' = Files(st)!LastFiles(now, disk')
                /\ remove_init_file_' = (st.hourly /\ blank) /\ written' = (st.hourly /\ ~blank)
                /\ UNCHANGED day_faults
    <3>1. Files(st)!BlankSizes \subseteq BOOLEAN
      BY DEF Files!BlankSizes
    <3>2. PICK blank \in BOOLEAN :
                /\ day_file' = Files(st)!Day(now) /\ disk' = disk \union {Files(st)!Day(now)}
                /\ made' = made \union {Files(st)!Day(now)} /\ day_fd' = TRUE /\ day_alive' = TRUE
                /\ rotation_tp_' = Files(st)!next_rotation_tp_(now)
                /\ filenames_q_' = Files(st)!LastFiles(now, disk')
                /\ remove_init_file_' = (st.hourly /\ blank) /\ written' = (st.hourly /\ ~blank)
                /\ UNCHANGED day_faults
      BY <2>2, <3>1
    <3> QED BY <2>1, <3>2, DayOpens
  <2>3. CASE /\ day_faults' = day_faults + 1 /\ day_fd' = FALSE /\ day_alive' = FALSE
             /\ UNCHANGED <<day_file, rotation_tp_, filenames_q_, remove_init_file_, disk, written, made>>
    BY <2>1, <2>3, DayThrows
  <2> QED BY <1>4, <2>2, <2>3 DEF Files!Restart, Files!Fault
<1>5. CASE UNCHANGED calendar
  BY <1>5 DEF CalendarInv, CalendarTypes, MadeEarlier, CalendarQueue, CalendarDisk, OneLife, Punctual, calendar
<1> QED BY <1>2, <1>3, <1>4, <1>5 DEF Files!Next

LEMMA CalendarInvRetains ==
    ASSUME NEW st, CalendarSetting(st), CalendarInv(st)
    PROVE  Retains(st)
<1>1. CalendarTypes /\ MadeEarlier(st) /\ CalendarQueue(st) /\ CalendarDisk /\ OneLife /\ Punctual(st)
  BY DEF CalendarInv
<1>2. \A S : Files(st)!Cardinality(S) = Cardinality(S)
  BY DEF Cardinality, Files!Cardinality
<1>3. Files(st)!LastRetained
  <2>1. SUFFICES ASSUME ~reopened, NEW d \in made, Cardinality({e \in made : e > d}) < MaxFiles
                 PROVE  d \in disk \union emptied
    BY <1>1, <1>2 DEF Files!LastRetained, CalendarQueue
  <2>2. SUFFICES ASSUME d \notin disk \union emptied PROVE FALSE
    OBVIOUS
  <2> DEFINE T == {e \in made : e > d}
             c == Cardinality(T)
  <2>3. c >= MaxFiles
    BY <1>1, <2>1, <2>2 DEF CalendarDisk, Retained
  <2>4. c \in Nat
    <3>1. DayOf(now) \in Nat /\ T \subseteq 0..DayOf(now)
      BY <1>1, DayIs DEF CalendarTypes, MadeEarlier
    <3> HIDE DEF T
    <3> QED BY <3>1, LaterFinite
  <2>5. c < MaxFiles /\ MaxFiles \in Nat
    BY <2>1, RotatingAssumption
  <2> HIDE DEF c
  <2> QED BY ONLY <2>3, <2>4, <2>5
<1>4. Files(st)!OwnFile
  BY <1>1 DEF Files!OwnFile, Punctual
<1>5. Files(st)!OnlyTheLast
  <2>1. SUFFICES ASSUME day_faults = 0, restarts = 0 PROVE Cardinality(disk) <= MaxFiles
    BY <1>2 DEF Files!OnlyTheLast
  <2>2. Line(filenames_q_) /\ \A d \in disk : \E i \in 1..Len(filenames_q_) : filenames_q_[i] = d
    BY <1>1, <2>1 DEF CalendarQueue, OneLife
  <2> QED BY <2>2, FewDays
<1> QED BY <1>3, <1>4, <1>5 DEF Retains

LEMMA SettingsAre == CalendarSetting(HourlyFiles) /\ CalendarSetting(DailyFiles) /\ CalendarSetting(LaterFiles)
BY CalendarAssumption DEF CalendarSetting, HourlyFiles, DailyFiles, LaterFiles

(* Of the calendar's sinks, each with its setting. *)
CalendarsInv ==
    /\ part = "hourly" => CalendarInv(HourlyFiles)
    /\ part = "daily" => CalendarInv(DailyFiles)
    /\ part = "daily later" => CalendarInv(LaterFiles)

(* The files that a calendar sink made, those that exist, the queue that it   *)
(* counts them with and the time of its next rotation are related by an      *)
(* inductive invariant, whatever call of the disk fails, however late its    *)
(* messages come and however often it starts again.                         *)
THEOREM CalendarInductive == LoggingSpec => []CalendarsInv
<1>1. LoggingInit => CalendarsInv
  <2>1. SUFFICES ASSUME LoggingInit PROVE CalendarsInv
    OBVIOUS
  <2>2. CASE part = "hourly"
    <3>1. Files(HourlyFiles)!Init
      BY <2>1, <2>2 DEF LoggingInit
    <3> QED BY <2>2, <3>1, SettingsAre, CalendarStarts DEF CalendarsInv
  <2>3. CASE part = "daily later"
    <3>1. Files(LaterFiles)!Init
      BY <2>1, <2>3 DEF LoggingInit
    <3> QED BY <2>3, <3>1, SettingsAre, CalendarStarts DEF CalendarsInv
  <2>4. CASE part # "hourly" /\ part # "daily later"
    <3>1. Files(DailyFiles)!Init
      BY <2>1, <2>4 DEF LoggingInit
    <3> QED BY <2>4, <3>1, SettingsAre, CalendarStarts DEF CalendarsInv
  <2> QED BY <2>2, <2>3, <2>4
<1>2. CalendarsInv /\ [LoggingNext]_state => CalendarsInv'
  <2>1. SUFFICES ASSUME CalendarsInv, [LoggingNext]_state PROVE CalendarsInv'
    OBVIOUS
  <2>2. part' = part
    BY <2>1 DEF LoggingNext, state
  <2>3. CASE part = "hourly"
    <3>1. Files(HourlyFiles)!Next \/ UNCHANGED calendar
      BY <2>1, <2>3 DEF LoggingNext, state
    <3>2. CalendarInv(HourlyFiles)'
      BY <2>1, <2>3, <3>1, SettingsAre, CalendarSteps DEF CalendarsInv
    <3> QED BY <2>2, <2>3, <3>2 DEF CalendarsInv
  <2>4. CASE part = "daily"
    <3>1. Files(DailyFiles)!Next \/ UNCHANGED calendar
      BY <2>1, <2>4 DEF LoggingNext, state
    <3>2. CalendarInv(DailyFiles)'
      BY <2>1, <2>4, <3>1, SettingsAre, CalendarSteps DEF CalendarsInv
    <3> QED BY <2>2, <2>4, <3>2 DEF CalendarsInv
  <2>5. CASE part = "daily later"
    <3>1. Files(LaterFiles)!Next \/ UNCHANGED calendar
      BY <2>1, <2>5 DEF LoggingNext, state
    <3>2. CalendarInv(LaterFiles)'
      BY <2>1, <2>5, <3>1, SettingsAre, CalendarSteps DEF CalendarsInv
    <3> QED BY <2>2, <2>5, <3>2 DEF CalendarsInv
  <2>6. CASE part \notin {"hourly", "daily", "daily later"}
    BY <2>2, <2>6 DEF CalendarsInv
  <2> QED BY <2>3, <2>4, <2>5, <2>6
<1> QED BY <1>1, <1>2, PTL DEF LoggingSpec

(* Whatever fails, however late messages come and however often the process   *)
(* starts again, the last max_files_ files that a calendar sink made are     *)
(* there, but for an empty one and unless a file was counted twice, which a  *)
(* sink that rotates at midnight or hourly never does; a life without        *)
(* failures leaves no more than those; and messages that are not late are    *)
(* in their own file.                                                       *)
THEOREM CalendarFilesRetained == LoggingSpec => []CalendarRetains
<1>1. CalendarsInv => CalendarRetains
  BY SettingsAre, CalendarInvRetains DEF CalendarsInv, CalendarRetains
<1> QED BY <1>1, CalendarInductive, PTL
=============================================================================

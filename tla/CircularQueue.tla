--------------------------- MODULE CircularQueue ---------------------------
(***************************************************************************)
(* circular_q of src/include/spdlog/details/circular_q.h: a ring of one    *)
(* more cell than it may hold items, so that head_ = tail_ only when it is *)
(* empty.  It implements BoundedQueue: the items are the cells from head_  *)
(* up to tail_.                                                            *)
(***************************************************************************)
EXTENDS Integers, Sequences

CONSTANTS
    Items,
    MaxItems,   \* max_items of the constructor
    Blank       \* what a cell holds before an item is put into it

ASSUME MaxItemsIsNat == MaxItems \in Nat

max_items_ == MaxItems + 1   \* one is reserved as marker for full q

Cells == 0..MaxItems

VARIABLES head_, tail_, v_, overrun_counter_

vars == <<head_, tail_, v_, overrun_counter_>>

TypeOK ==
    /\ head_ \in Cells /\ tail_ \in Cells
    /\ v_ \in [Cells -> Items \union {Blank}]
    /\ overrun_counter_ \in Nat

Init ==
    /\ head_ = 0 /\ tail_ = 0 /\ overrun_counter_ = 0
    /\ v_ = [i \in Cells |-> Blank]

After(i) == (i + 1) % max_items_

empty == tail_ = head_
full  == After(tail_) = head_
size  == IF tail_ >= head_ THEN tail_ - head_ ELSE max_items_ - (head_ - tail_)

at(i) == v_[(head_ + i) % max_items_]

(* Seeded error: the oldest item is found in the way of the newest too late. *)
push_back_FullFirst(x) ==
    /\ v_' = [v_ EXCEPT ![tail_] = x]
    /\ tail_' = After(tail_)
    /\ IF tail_ = head_
       THEN head_' = After(head_) /\ overrun_counter_' = overrun_counter_ + 1
       ELSE UNCHANGED <<head_, overrun_counter_>>

push_back(x) ==
    /\ v_' = [v_ EXCEPT ![tail_] = x]
    /\ tail_' = After(tail_)
    /\ IF tail_' = head_
       THEN head_' = After(head_) /\ overrun_counter_' = overrun_counter_ + 1
       ELSE UNCHANGED <<head_, overrun_counter_>>

(* front() and at(), then pop_front(): callers ask whether it is empty first. *)
pop_front ==
    /\ ~empty
    /\ head_' = After(head_)
    /\ UNCHANGED <<tail_, v_, overrun_counter_>>

reset_overrun_counter == overrun_counter_' = 0 /\ UNCHANGED <<head_, tail_, v_>>

Next == (\E x \in Items : push_back(x)) \/ pop_front \/ reset_overrun_counter

Spec == Init /\ [][Next]_vars

-----------------------------------------------------------------------------
(* Properties *)

Content == [i \in 1..size |-> at(i - 1)]

Bounded == INSTANCE BoundedQueue
             WITH Capacity <- MaxItems, content <- Content, overruns <- overrun_counter_

(* The ring behaves as the bounded sequence. *)
ImplementsBoundedQueue == Bounded!Spec

(* full() and empty() tell what size() tells, and no blank cell is read. *)
SizesAgree ==
    /\ full <=> size = MaxItems
    /\ empty <=> size = 0
    /\ \A i \in 0..(size - 1) : at(i) \in Items
=============================================================================

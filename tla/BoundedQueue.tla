---------------------------- MODULE BoundedQueue ----------------------------
(***************************************************************************)
(* What circular_q promises to the thread pool, the backtracer and the     *)
(* file sinks: a sequence of at most Capacity items, whose oldest item     *)
(* makes room for a new one, and the number of items that have.            *)
(***************************************************************************)
EXTENDS Integers, Sequences

CONSTANTS Items, Capacity

VARIABLES content, overruns

vars == <<content, overruns>>

Init == content = <<>> /\ overruns = 0

Push(x) ==
    IF Len(content) < Capacity
    THEN content' = Append(content, x) /\ UNCHANGED overruns
    ELSE content' = Tail(Append(content, x)) /\ overruns' = overruns + 1

Pop == content # <<>> /\ content' = Tail(content) /\ UNCHANGED overruns

ResetOverruns == overruns' = 0 /\ UNCHANGED content

Next == (\E x \in Items : Push(x)) \/ Pop \/ ResetOverruns

Spec == Init /\ [][Next]_vars
=============================================================================

-------------------------- MODULE MCButtonSessions --------------------------
(* ButtonSessions for TLC: threads and callbacks are interchangeable. *)
EXTENDS ButtonSessions, TLC

Symmetry == Permutations(Threads) \union Permutations(Callbacks)
=============================================================================

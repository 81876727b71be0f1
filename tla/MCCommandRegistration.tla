----------------------- MODULE MCCommandRegistration -----------------------
(* CommandRegistration for TLC: two releases that differ in both directions. *)
EXTENDS CommandRegistration, TLC

MCTables == {{"ping", "language", "login"}, {"ping", "about"}}
=============================================================================

----------------------- MODULE MCLanguagePreferences -----------------------
(* LanguagePreferences for TLC: shards are interchangeable in safety runs. *)
EXTENDS LanguagePreferences, TLC

ShardSymmetry == Permutations(Shards)
=============================================================================

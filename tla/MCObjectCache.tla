--------------------------- MODULE MCObjectCache ---------------------------
(* ObjectCache for TLC: three objects of an id that both threads change,    *)
(* as shards do with a user, and two of an id that one thread changes.      *)
EXTENDS ObjectCache, TLC

CONSTANTS t1, t2, o1, o2, o3, p1, p2, a, b

MCIdOf     == (o1 :> a) @@ (o2 :> a) @@ (o3 :> a) @@ (p1 :> b) @@ (p2 :> b)
MCChangers == (a :> {t1, t2}) @@ (b :> {t2})
=============================================================================

------------------------- MODULE PreferenceService -------------------------
(***************************************************************************)
(* What a member of a Discord server may rely on when using /language and  *)
(* /ping: every user has one language at any time, a /language that is     *)
(* answered has put its language in force at one instant of the call, and  *)
(* a /ping that is answered speaks a language that was in force at one     *)
(* instant of the call.                                                    *)
(*                                                                         *)
(* The service promises no more than the code can keep.  Before it applies *)
(* a language other than the default, a set may leave the user with the    *)
(* default for a while, and a set that fails there leaves the user with    *)
(* the default for good.  LanguagePreferences implements this module.      *)
(***************************************************************************)
CONSTANTS Shards,           \* the threads that serve calls
          Users,            \* Discord users
          Languages,        \* language codes
          DefaultLanguage   \* the language of a user who has chosen none

VARIABLES pref,    \* pref[u]: the language in force for u
          job,     \* job[s]: the call that s serves, or served last
          phase,   \* phase[s]: how far that call has got
          shown    \* shown[s]: the language that a get of s has read

vars == <<pref, job, phase, shown>>

Resting == {"idle", "done", "failed"}
Sets    == [kind : {"set"}, user : Users, language : Languages]
Gets    == [kind : {"get"}, user : Users]

Init ==
    /\ pref = [u \in Users |-> DefaultLanguage]
    /\ job = [s \in Shards |-> [kind |-> "none"]]
    /\ phase = [s \in Shards |-> "idle"]
    /\ shown = [s \in Shards |-> DefaultLanguage]

Advance(s, from, to) ==
    /\ phase[s] \in from
    /\ phase' = [phase EXCEPT ![s] = to]

Begin(s, j) ==
    /\ Advance(s, Resting, "open")
    /\ job' = [job EXCEPT ![s] = j]
    /\ shown' = [shown EXCEPT ![s] = DefaultLanguage]
    /\ UNCHANGED pref

(* A set forgets the previous language before it applies its own. *)
Forget(s) ==
    /\ phase[s] = "open"
    /\ job[s].kind = "set"
    /\ pref' = [pref EXCEPT ![job[s].user] = DefaultLanguage]
    /\ UNCHANGED <<job, phase, shown>>

Apply(s) ==
    /\ Advance(s, {"open"}, "applied")
    /\ job[s].kind = "set"
    /\ pref' = [pref EXCEPT ![job[s].user] = job[s].language]
    /\ UNCHANGED <<job, shown>>

Read(s) ==
    /\ Advance(s, {"open"}, "applied")
    /\ job[s].kind = "get"
    /\ shown' = [shown EXCEPT ![s] = pref[job[s].user]]
    /\ UNCHANGED <<pref, job>>

Answer(s) ==
    /\ Advance(s, {"applied"}, "done")
    /\ UNCHANGED <<pref, job, shown>>

Fail(s) ==
    /\ Advance(s, {"open", "applied"}, "failed")
    /\ UNCHANGED <<pref, job, shown>>

(* The process stops: every call in progress is gone, what was applied stays. *)
Crash ==
    /\ phase' = [s \in Shards |-> "idle"]
    /\ UNCHANGED <<pref, job, shown>>

Serve(s) == Forget(s) \/ Apply(s) \/ Read(s) \/ Answer(s) \/ Fail(s)

Next ==
    \/ \E s \in Shards : Serve(s) \/ \E j \in Sets \union Gets : Begin(s, j)
    \/ Crash

Spec == Init /\ [][Next]_vars
=============================================================================

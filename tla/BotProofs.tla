----------------------------- MODULE BotProofs -----------------------------
(***************************************************************************)
(* Proofs about Bot, for every set of shards and of environment files.     *)
(*                                                                         *)
(* The calls of /login: LInv.  Start-up: DecoderInv, for Decode; EnvInv,   *)
(* for load(), whose heart is Along, the invariant of the loop that edits  *)
(* a line while it reads it; and StartInv, which puts the two together.    *)
(***************************************************************************)
EXTENDS Bot, SequenceTheorems, WellFoundedInduction, TLAPS

Running(s) == Login!Running(s)
Objects == Login!Objects

(* What a call owns when it comes to a step. *)
HeldAt ==
    [idle |-> {}, import |-> {}, class |-> {"genshin"}, instance |-> {"genshin", "Client"},
     method |-> {"genshin", "Client", "clientInstance"},
     pack |-> {"genshin", "Client", "clientInstance", "loginMethod"},
     login |-> {"genshin", "Client", "clientInstance", "loginMethod", "email", "password", "args"},
     print |-> {"genshin", "Client", "clientInstance", "loginMethod", "email", "password", "args",
                "cookies"}]

LoginTypeOK ==
    /\ up \in BOOLEAN /\ crashed \in BOOLEAN
    /\ pc \in [Shards -> DOMAIN HeldAt \union {"release"}]
    /\ held \in [Shards -> SUBSET Objects]
    /\ todo \in [Shards -> SUBSET Objects]
    /\ leaked \in [Shards -> SUBSET Objects]
    /\ refused \in [Shards -> SUBSET Objects]
    /\ raced \subseteq Shards

(* A call that overlaps no other has the interpreter, up, to itself. *)
Alone == \A s \in Shards : Running(s) /\ s \notin raced =>
             up /\ \A r \in Shards \ {s} : ~Running(r)

(* On the way in a call owns what its step says and has nothing to give      *)
(* back; on the way out it owns all that it still gives back, and of the     *)
(* rest only what is known to stay.                                         *)
HeldByStep == \A s \in Shards : pc[s] # "release" => held[s] = HeldAt[pc[s]] /\ todo[s] = {}
HeldInRelease ==
    \A s \in Shards : pc[s] = "release" =>
        /\ todo[s] \subseteq held[s]
        /\ held[s] \ todo[s] \subseteq {"email", "password"} \union refused[s]

(* The history starts afresh with a call. *)
HistoryOfCall ==
    \A s \in Shards : Running(s) =>
        leaked[s] = {} /\ (pc[s] # "release" => refused[s] = {})

LInv ==
    /\ LoginTypeOK /\ Alone /\ HeldByStep /\ HeldInRelease /\ HistoryOfCall
    /\ Login!CrashExplained /\ Login!LeaksAreKnown /\ Login!DownBetweenCalls

-----------------------------------------------------------------------------
(* The steps of start-up leave the calls of /login alone, and the others are *)
(* theirs: the bot's process implements LoginCommand.                       *)
LEMMA CallsAreLogin == BotSpec => Login!Spec
<1>1. BotInit => Login!Init
  BY DEF BotInit
<1>2. [BotNext]_<<vars, login>> => [Login!Next]_(Login!vars)
  BY DEF BotNext, Starting, Serving, login, Login!vars, Login!observed
<1> QED BY <1>1, <1>2, PTL DEF BotSpec, Login!Spec

LEMMA ObjectsAre ==
    Objects = {"genshin", "Client", "clientInstance", "loginMethod", "email", "password", "args",
               "cookies"}
<1>1. Objects \subseteq {"genshin", "Client", "clientInstance", "loginMethod", "email", "password",
                         "args", "cookies"}
  BY DEF Objects, Login!Objects, Login!Obtains
<1>2. \A o \in {"genshin", "Client", "clientInstance", "loginMethod", "email", "password", "args",
                "cookies"} : \E step \in DOMAIN Login!Obtains : o \in Login!Obtains[step]
  BY DEF Login!Obtains
<1>3. \A step \in DOMAIN Login!Obtains : Login!Obtains[step] \subseteq Objects
  BY DEF Objects, Login!Objects
<1> QED BY <1>1, <1>2, <1>3

(* The tables of the handler, step by step. *)
LEMMA Tables ==
    /\ DOMAIN Login!Obtains = {"import", "class", "instance", "method", "pack", "login"}
    /\ DOMAIN Login!Unwinds = {"import", "class", "instance", "method", "pack"}
    /\ DOMAIN HeldAt = {"idle", "import", "class", "instance", "method", "pack", "login", "print"}
    /\ \A step \in DOMAIN Login!Obtains :
          /\ Login!After(step) \in DOMAIN HeldAt \ {"idle"}
          /\ HeldAt[Login!After(step)] = HeldAt[step] \union Login!Obtains[step]
          /\ Login!Obtains[step] \subseteq Objects
    /\ \A step \in DOMAIN Login!Unwinds :
          Login!Unwinds[step] \subseteq HeldAt[step] /\ HeldAt[step] \subseteq Login!Unwinds[step]
    /\ \A step \in DOMAIN HeldAt : HeldAt[step] \subseteq Objects
    /\ HeldAt["import"] = {} /\ HeldAt["idle"] = {}
    /\ HeldAt["print"] = Login!LastReleases \union {"email", "password"}
    /\ Login!LastReleases \subseteq Objects
    /\ Login!LastReleases \subseteq HeldAt["print"]
<1>1. DOMAIN Login!Obtains = {"import", "class", "instance", "method", "pack", "login"}
  BY DEF Login!Obtains
<1>2. DOMAIN Login!Unwinds = {"import", "class", "instance", "method", "pack"}
  BY DEF Login!Unwinds
<1>3. DOMAIN HeldAt = {"idle", "import", "class", "instance", "method", "pack", "login", "print"}
  BY DEF HeldAt
<1>4. ASSUME NEW step \in DOMAIN Login!Obtains
      PROVE  /\ Login!After(step) \in DOMAIN HeldAt \ {"idle"}
             /\ HeldAt[Login!After(step)] = HeldAt[step] \union Login!Obtains[step]
             /\ Login!Obtains[step] \subseteq Objects
  BY <1>1, <1>3, ObjectsAre DEF Login!After, HeldAt, Login!Obtains
<1>5. ASSUME NEW step \in DOMAIN Login!Unwinds
      PROVE  /\ Login!Unwinds[step] \subseteq HeldAt[step]
             /\ HeldAt[step] \subseteq Login!Unwinds[step]
  BY <1>2 DEF HeldAt, Login!Unwinds
<1>6. ASSUME NEW step \in DOMAIN HeldAt PROVE HeldAt[step] \subseteq Objects
  BY <1>3, ObjectsAre DEF HeldAt
<1>7. /\ HeldAt["import"] = {} /\ HeldAt["idle"] = {}
      /\ HeldAt["print"] = Login!LastReleases \union {"email", "password"}
      /\ Login!LastReleases \subseteq Objects
      /\ Login!LastReleases \subseteq HeldAt["print"]
  BY ObjectsAre DEF HeldAt, Login!LastReleases
<1> QED BY <1>1, <1>2, <1>3, <1>4, <1>5, <1>6, <1>7

LEMMA LInvInit == Login!Init => LInv
<1>1. SUFFICES ASSUME Login!Init PROVE LInv
  OBVIOUS
<1>2. HeldAt["idle"] = {} /\ "idle" \in DOMAIN HeldAt
  BY DEF HeldAt
<1>3. LoginTypeOK
  BY <1>1, <1>2 DEF Login!Init, LoginTypeOK
<1>4. \A s \in Shards : pc[s] = "idle" /\ held[s] = {} /\ todo[s] = {} /\ leaked[s] = {}
  BY <1>1 DEF Login!Init
<1>5. ~up /\ ~crashed
  BY <1>1 DEF Login!Init
<1>6. Alone /\ HistoryOfCall
  BY <1>4 DEF Alone, HistoryOfCall, Running, Login!Running
<1>7. HeldByStep /\ HeldInRelease
  BY <1>2, <1>4 DEF HeldByStep, HeldInRelease
<1> QED BY <1>3, <1>4, <1>5, <1>6, <1>7
        DEF LInv, Login!CrashExplained, Login!LeaksAreKnown, Login!DownBetweenCalls

LEMMA LTypeNext == LoginTypeOK /\ [Login!Next]_(Login!vars) => LoginTypeOK'
<1>1. SUFFICES ASSUME LoginTypeOK, [Login!Next]_(Login!vars) PROVE LoginTypeOK'
  OBVIOUS
<1> USE <1>1, Tables DEF LoginTypeOK
<1>2. CASE UNCHANGED Login!vars
  BY <1>2 DEF Login!vars, Login!observed
<1>3. CASE Login!Restart
  BY <1>3 DEF Login!Restart
<1>4. ASSUME NEW s \in Shards, Login!Initialize(s) PROVE LoginTypeOK'
  BY <1>4 DEF Login!Initialize
<1>5. ASSUME NEW s \in Shards, Login!Obtain(s) PROVE LoginTypeOK'
  BY <1>5 DEF Login!Obtain, Login!observed
<1>6. ASSUME NEW s \in Shards, Login!Fail(s) PROVE LoginTypeOK'
  BY <1>6, ObjectsAre DEF Login!Fail, Login!Unwind, Login!observed
<1>7. ASSUME NEW s \in Shards, Login!NotCallable(s) PROVE LoginTypeOK'
  BY <1>7 DEF Login!NotCallable, Login!Unwind
<1>8. ASSUME NEW s \in Shards, Login!LoginFails(s) PROVE LoginTypeOK'
  BY <1>8 DEF Login!LoginFails, Login!observed
<1>9. ASSUME NEW s \in Shards, Login!PrintCookies(s) PROVE LoginTypeOK'
  BY <1>9 DEF Login!PrintCookies, Login!Unwind, Login!observed
<1>10. ASSUME NEW s \in Shards, NEW o \in todo[s], Login!Release(s, o) PROVE LoginTypeOK'
  BY <1>10 DEF Login!Release, Login!observed
<1>11. ASSUME NEW s \in Shards, Login!Finalize(s) PROVE LoginTypeOK'
  BY <1>11 DEF Login!Finalize
<1>12. ASSUME NEW s \in Shards, Login!Break(s) PROVE LoginTypeOK'
  BY <1>12 DEF Login!Break, Login!observed
<1> QED BY <1>1, <1>2, <1>3, <1>4, <1>5, <1>6, <1>7, <1>8, <1>9, <1>10, <1>11, <1>12
        DEF Login!Next, Login!Step

-----------------------------------------------------------------------------
(* Each action keeps the rest of the invariant. *)

(* What a shard's own step leaves of what every shard owns. *)
LEMMA HeldOf ==
    ASSUME HeldByStep, HeldInRelease, NEW s \in Shards,
           \A r \in Shards \ {s} : /\ pc'[r] = pc[r] /\ held'[r] = held[r]
                                   /\ todo'[r] = todo[r] /\ refused'[r] = refused[r],
           pc'[s] # "release" => held'[s] = HeldAt[pc'[s]] /\ todo'[s] = {},
           pc'[s] = "release" => /\ todo'[s] \subseteq held'[s]
                                 /\ held'[s] \ todo'[s] \subseteq {"email", "password"} \union refused'[s]
    PROVE  HeldByStep' /\ HeldInRelease'
BY DEF HeldByStep, HeldInRelease

LEMMA InitializeKeeps ==
    ASSUME LInv, LoginTypeOK', NEW s \in Shards, Login!Initialize(s)
    PROVE  LInv'
<1> USE DEF LInv, Login!Initialize
<1>1. Alone'
  BY DEF Alone, Running, Login!Running, LoginTypeOK
<1>2. HeldByStep' /\ HeldInRelease'
  <2>1. \A r \in Shards \ {s} : /\ pc'[r] = pc[r] /\ held'[r] = held[r]
                                /\ todo'[r] = todo[r] /\ refused'[r] = refused[r]
    BY DEF LoginTypeOK
  <2>2. pc'[s] = "import" /\ held'[s] = HeldAt["import"] /\ todo'[s] = {}
    BY Tables DEF LoginTypeOK, HeldByStep
  <2> QED BY <2>1, <2>2, HeldOf
<1>3. HistoryOfCall'
  BY DEF HistoryOfCall, Running, Login!Running, LoginTypeOK
<1>4. Login!CrashExplained' /\ Login!LeaksAreKnown' /\ Login!DownBetweenCalls'
  BY DEF Login!CrashExplained, Login!LeaksAreKnown, Login!DownBetweenCalls, LoginTypeOK
<1> QED BY <1>1, <1>2, <1>3, <1>4

LEMMA ObtainKeeps ==
    ASSUME LInv, LoginTypeOK', NEW s \in Shards, Login!Obtain(s)
    PROVE  LInv'
<1> USE DEF LInv, Login!Obtain, Login!observed
<1>1. Alone'
  BY Tables DEF Alone, Running, Login!Running, LoginTypeOK
<1>2. HeldByStep' /\ HeldInRelease'
  <2>1. \A r \in Shards \ {s} : /\ pc'[r] = pc[r] /\ held'[r] = held[r]
                                /\ todo'[r] = todo[r] /\ refused'[r] = refused[r]
    BY DEF LoginTypeOK
  <2>2. /\ pc'[s] # "release" /\ held'[s] = HeldAt[pc'[s]] /\ todo'[s] = {}
    <3>1. held'[s] = HeldAt[pc[s]] \union Login!Obtains[pc[s]] /\ todo'[s] = {}
      BY Tables DEF LoginTypeOK, HeldByStep
    <3> QED BY <3>1, Tables DEF LoginTypeOK
  <2> QED BY <2>1, <2>2, HeldOf
<1>3. HistoryOfCall'
  BY Tables DEF HistoryOfCall, Running, Login!Running, LoginTypeOK
<1>4. Login!CrashExplained' /\ Login!LeaksAreKnown' /\ Login!DownBetweenCalls'
  BY Tables DEF Login!CrashExplained, Login!LeaksAreKnown, Login!DownBetweenCalls, LoginTypeOK
<1> QED BY <1>1, <1>2, <1>3, <1>4

LEMMA FailKeeps ==
    ASSUME LInv, LoginTypeOK', NEW s \in Shards, Login!Fail(s)
    PROVE  LInv'
<1> USE DEF LInv, Login!Fail, Login!Unwind, Login!observed
<1>1. Alone'
  BY Tables DEF Alone, Running, Login!Running, LoginTypeOK
<1>2. HeldByStep' /\ HeldInRelease'
  <2>1. \A r \in Shards \ {s} : /\ pc'[r] = pc[r] /\ held'[r] = held[r]
                                /\ todo'[r] = todo[r] /\ refused'[r] = refused[r]
    BY DEF LoginTypeOK
  <2>2. /\ pc'[s] = "release" /\ todo'[s] \subseteq held'[s]
        /\ held'[s] \ todo'[s] \subseteq {"email", "password"}
    <3>1. held[s] = HeldAt[pc[s]]
      BY Tables DEF LoginTypeOK, HeldByStep
    <3>2. todo'[s] = Login!Unwinds[pc[s]] /\ pc'[s] = "release"
      BY DEF LoginTypeOK
    <3>3. held'[s] \subseteq held[s] \union {"email", "password"} /\ held[s] \subseteq held'[s]
      BY DEF LoginTypeOK
    <3> QED BY <3>1, <3>2, <3>3, Tables
  <2> QED BY <2>1, <2>2, HeldOf
<1>3. HistoryOfCall'
  BY Tables DEF HistoryOfCall, Running, Login!Running, LoginTypeOK
<1>4. Login!CrashExplained' /\ Login!LeaksAreKnown' /\ Login!DownBetweenCalls'
  BY Tables DEF Login!CrashExplained, Login!LeaksAreKnown, Login!DownBetweenCalls, LoginTypeOK
<1> QED BY <1>1, <1>2, <1>3, <1>4

LEMMA NotCallableKeeps ==
    ASSUME LInv, LoginTypeOK', NEW s \in Shards, Login!NotCallable(s)
    PROVE  LInv'
<1> USE DEF LInv, Login!NotCallable, Login!Unwind
<1>1. Alone'
  BY Tables DEF Alone, Running, Login!Running, LoginTypeOK
<1>2. HeldByStep' /\ HeldInRelease'
  <2>1. \A r \in Shards \ {s} : /\ pc'[r] = pc[r] /\ held'[r] = held[r]
                                /\ todo'[r] = todo[r] /\ refused'[r] = refused[r]
    BY DEF LoginTypeOK
  <2>2. /\ pc'[s] = "release" /\ todo'[s] \subseteq held'[s]
        /\ held'[s] \ todo'[s] \subseteq refused'[s]
    <3>1. held[s] = HeldAt[pc[s]] /\ pc[s] \in DOMAIN Login!Unwinds
      BY Tables DEF LoginTypeOK, HeldByStep
    <3>2. todo'[s] = Login!Unwinds[pc[s]] /\ pc'[s] = "release"
      BY DEF LoginTypeOK
    <3>3. held'[s] = held[s] \union Login!Obtains[pc[s]] /\ refused'[s] = Login!Obtains[pc[s]]
      BY DEF LoginTypeOK
    <3> QED BY <3>1, <3>2, <3>3, Tables
  <2> QED BY <2>1, <2>2, HeldOf
<1>3. HistoryOfCall'
  BY Tables DEF HistoryOfCall, Running, Login!Running, LoginTypeOK
<1>4. Login!CrashExplained' /\ Login!DownBetweenCalls'
  BY DEF Login!CrashExplained, Login!DownBetweenCalls, LoginTypeOK
<1>5. Login!LeaksAreKnown'
  <2>1. leaked'[s] = {} /\ \A r \in Shards \ {s} : leaked'[r] = leaked[r] /\ refused'[r] = refused[r]
    BY DEF HistoryOfCall, Running, Login!Running, LoginTypeOK
  <2> QED BY <2>1 DEF Login!LeaksAreKnown
<1> QED BY <1>1, <1>2, <1>3, <1>4, <1>5

LEMMA LoginFailsKeeps ==
    ASSUME LInv, LoginTypeOK', NEW s \in Shards, Login!LoginFails(s)
    PROVE  LInv'
<1> USE DEF LInv, Login!LoginFails, Login!observed
<1>1. Alone'
  BY Tables DEF Alone, Running, Login!Running, LoginTypeOK
<1>2. HeldByStep' /\ HeldInRelease'
  <2>1. \A r \in Shards \ {s} : /\ pc'[r] = pc[r] /\ held'[r] = held[r]
                                /\ todo'[r] = todo[r] /\ refused'[r] = refused[r]
    BY DEF LoginTypeOK
  <2>2. /\ pc'[s] = pc[s] /\ held'[s] = held[s] /\ todo'[s] = todo[s] /\ refused'[s] = refused[s]
    OBVIOUS
  <2> QED BY <2>1, <2>2, HeldOf DEF HeldByStep, HeldInRelease
<1>3. HistoryOfCall'
  BY Tables DEF HistoryOfCall, Running, Login!Running, LoginTypeOK
<1>4. Login!CrashExplained' /\ Login!LeaksAreKnown' /\ Login!DownBetweenCalls'
  BY Tables DEF Login!CrashExplained, Login!LeaksAreKnown, Login!DownBetweenCalls, LoginTypeOK
<1> QED BY <1>1, <1>2, <1>3, <1>4

LEMMA PrintCookiesKeeps ==
    ASSUME LInv, LoginTypeOK', NEW s \in Shards, Login!PrintCookies(s)
    PROVE  LInv'
<1> USE DEF LInv, Login!PrintCookies, Login!Unwind, Login!observed
<1>1. Alone'
  BY Tables DEF Alone, Running, Login!Running, LoginTypeOK
<1>2. HeldByStep' /\ HeldInRelease'
  <2>1. \A r \in Shards \ {s} : /\ pc'[r] = pc[r] /\ held'[r] = held[r]
                                /\ todo'[r] = todo[r] /\ refused'[r] = refused[r]
    BY DEF LoginTypeOK
  <2>2. held[s] = HeldAt["print"] /\ held'[s] = held[s] /\ todo[s] = {} /\ pc[s] = "print"
    BY DEF HeldByStep
  <2>3. CASE Login!Unwind(s, Login!LastReleases)
    <3>1. pc'[s] = "release" /\ todo'[s] = Login!LastReleases
      BY <2>3 DEF LoginTypeOK
    <3> QED BY <2>1, <2>2, <3>1, Tables, HeldOf
  <2>4. CASE UNCHANGED <<pc, todo>>
    BY <2>1, <2>2, <2>4, HeldOf
  <2> QED BY <2>3, <2>4
<1>3. HistoryOfCall'
  BY Tables DEF HistoryOfCall, Running, Login!Running, LoginTypeOK
<1>4. Login!CrashExplained' /\ Login!LeaksAreKnown' /\ Login!DownBetweenCalls'
  BY Tables DEF Login!CrashExplained, Login!LeaksAreKnown, Login!DownBetweenCalls, LoginTypeOK
<1> QED BY <1>1, <1>2, <1>3, <1>4

LEMMA ReleaseKeeps ==
    ASSUME LInv, LoginTypeOK', NEW s \in Shards, NEW o \in todo[s], Login!Release(s, o)
    PROVE  LInv'
<1> USE DEF LInv, Login!Release, Login!observed
<1>1. Alone'
  BY DEF Alone, Running, Login!Running
<1>2. HeldByStep' /\ HeldInRelease'
  <2>1. \A r \in Shards \ {s} : /\ pc'[r] = pc[r] /\ held'[r] = held[r]
                                /\ todo'[r] = todo[r] /\ refused'[r] = refused[r]
    BY DEF LoginTypeOK
  <2>2. /\ pc'[s] = "release" /\ todo'[s] = todo[s] \ {o} /\ held'[s] = held[s] \ {o}
        /\ refused'[s] = refused[s]
    BY DEF LoginTypeOK
  <2>3. /\ todo[s] \subseteq held[s]
        /\ held[s] \ todo[s] \subseteq {"email", "password"} \union refused[s]
    BY DEF HeldInRelease
  <2> QED BY <2>1, <2>2, <2>3, HeldOf
<1>3. HistoryOfCall'
  BY DEF HistoryOfCall, Running, Login!Running
<1>4. ~crashed'
  BY DEF HeldInRelease
<1>5. Login!CrashExplained' /\ Login!LeaksAreKnown' /\ Login!DownBetweenCalls'
  BY <1>4 DEF Login!CrashExplained, Login!LeaksAreKnown, Login!DownBetweenCalls
<1> QED BY <1>1, <1>2, <1>3, <1>5

(* The call that stops the interpreter is the only one that runs, or has     *)
(* overlapped those that do.                                                *)
LEMMA FinalizeKeeps ==
    ASSUME LInv, LoginTypeOK', NEW s \in Shards, Login!Finalize(s)
    PROVE  LInv'
<1> USE DEF LInv, Login!Finalize
<1>1. Alone'
  <2>1. \A r \in Shards \ {s} : pc'[r] = pc[r] /\ (pc[r] # "idle" => r \in raced)
    BY DEF LoginTypeOK, Alone, Running, Login!Running
  <2>2. pc'[s] = "idle"
    BY DEF LoginTypeOK
  <2> QED BY <2>1, <2>2 DEF Alone, Running, Login!Running
<1>2. HeldByStep' /\ HeldInRelease'
  <2>1. \A r \in Shards \ {s} : /\ pc'[r] = pc[r] /\ held'[r] = held[r]
                                /\ todo'[r] = todo[r] /\ refused'[r] = refused[r]
    BY DEF LoginTypeOK
  <2>2. pc'[s] = "idle" /\ held'[s] = {} /\ todo'[s] = {} /\ HeldAt["idle"] = {}
    BY Tables DEF LoginTypeOK
  <2> QED BY <2>1, <2>2, HeldOf
<1>3. HistoryOfCall'
  BY DEF HistoryOfCall, Running, Login!Running, LoginTypeOK
<1>4. Login!LeaksAreKnown'
  <2>1. \A r \in Shards \ {s} : leaked'[r] = leaked[r] /\ refused'[r] = refused[r]
    BY DEF LoginTypeOK
  <2>2. leaked'[s] = held[s] /\ refused'[s] = refused[s] /\ todo[s] = {}
    BY DEF LoginTypeOK
  <2>3. held[s] \ todo[s] \subseteq {"email", "password"} \union refused[s]
    BY DEF HeldInRelease
  <2> QED BY <2>1, <2>2, <2>3 DEF Login!LeaksAreKnown
<1>5. Login!CrashExplained' /\ Login!DownBetweenCalls'
  BY DEF Login!CrashExplained, Login!DownBetweenCalls
<1> QED BY <1>1, <1>2, <1>3, <1>4, <1>5

(* Nothing breaks a call that has the interpreter to itself. *)
LEMMA BreakKeeps ==
    ASSUME LInv, LoginTypeOK', NEW s \in Shards, Login!Break(s)
    PROVE  LInv'
<1> USE DEF LInv, Login!Break, Login!observed
<1>1. Alone' /\ HistoryOfCall'
  BY DEF Alone, HistoryOfCall, Running, Login!Running
<1>2. HeldByStep' /\ HeldInRelease'
  BY DEF HeldByStep, HeldInRelease
<1>3. s \in raced
  BY DEF Alone, Running
<1>4. Login!CrashExplained' /\ Login!LeaksAreKnown' /\ Login!DownBetweenCalls'
  BY <1>3 DEF Login!CrashExplained, Login!LeaksAreKnown, Login!DownBetweenCalls
<1> QED BY <1>1, <1>2, <1>4

LEMMA LInvNext == LInv /\ [Login!Next]_(Login!vars) => LInv'
<1>1. SUFFICES ASSUME LInv, [Login!Next]_(Login!vars) PROVE LInv'
  OBVIOUS
<1>2. LoginTypeOK'
  BY <1>1, LTypeNext DEF LInv
<1>3. CASE UNCHANGED Login!vars
  <2> USE <1>1, <1>3 DEF LInv, Login!vars, Login!observed
  <2>1. Alone' /\ HeldByStep' /\ HeldInRelease' /\ HistoryOfCall'
    BY DEF Alone, HeldByStep, HeldInRelease, HistoryOfCall, Running, Login!Running
  <2>2. Login!CrashExplained' /\ Login!LeaksAreKnown' /\ Login!DownBetweenCalls'
    BY DEF Login!CrashExplained, Login!LeaksAreKnown, Login!DownBetweenCalls
  <2> QED BY <1>2, <2>1, <2>2
<1>4. CASE Login!Restart
  <2>1. \A s \in Shards : /\ pc'[s] = "idle" /\ held'[s] = {} /\ todo'[s] = {}
                         /\ leaked'[s] = {}
    BY <1>4 DEF Login!Restart
  <2>2. ~up' /\ ~crashed'
    BY <1>4 DEF Login!Restart
  <2>3. Alone' /\ HistoryOfCall'
    BY <2>1 DEF Alone, HistoryOfCall, Running, Login!Running
  <2>4. HeldByStep' /\ HeldInRelease'
    BY <2>1, Tables DEF HeldByStep, HeldInRelease
  <2> QED BY <1>2, <2>1, <2>2, <2>3, <2>4
          DEF LInv, Login!CrashExplained, Login!LeaksAreKnown, Login!DownBetweenCalls
<1>5. ASSUME NEW s \in Shards, Login!Initialize(s) \/ Login!Step(s) PROVE LInv'
  BY <1>1, <1>2, <1>5, InitializeKeeps, ObtainKeeps, FailKeeps, NotCallableKeeps, LoginFailsKeeps,
     PrintCookiesKeeps, ReleaseKeeps, FinalizeKeeps, BreakKeeps DEF Login!Step
<1> QED BY <1>1, <1>3, <1>4, <1>5 DEF Login!Next

-----------------------------------------------------------------------------
THEOREM LoginInductive == BotSpec => []LInv
<1>1. Login!Spec => []LInv
  BY LInvInit, LInvNext, PTL DEF Login!Spec
<1> QED BY <1>1, CallsAreLogin, PTL

(* A crash of the process is that of a call that overlapped another, or of   *)
(* one that had the login's result in its hands.                            *)
THEOREM CrashIsExplained == BotSpec => []CrashExplained
<1>1. LInv => CrashExplained
  BY DEF LInv, CrashExplained
<1> QED BY <1>1, LoginInductive, PTL

(* A call that overlaps no other owns references into a running interpreter  *)
(* only, and what any call leaves behind is known.                          *)
THEOREM ReferencesAreAccounted == BotSpec => []ReferencesAccounted
<1>1. LInv => Login!NoDanglingReference
  BY Tables DEF LInv, Alone, HeldByStep, Running, Login!Running, Login!NoDanglingReference
<1>2. LInv => ReferencesAccounted
  BY <1>1 DEF LInv, ReferencesAccounted
<1> QED BY <1>2, LoginInductive, PTL

(* Between calls the interpreter is down, whatever the calls before did. *)
THEOREM InterpreterDownBetweenCalls == BotSpec => []DownBetweenCalls
<1>1. LInv => DownBetweenCalls
  BY DEF LInv, DownBetweenCalls
<1> QED BY <1>1, LoginInductive, PTL

-----------------------------------------------------------------------------
(* The decoder. *)

Quad(g)   == [k \in 1..4 |-> Dec!Sextet(input[4 * g + k])]
Code      == 0..65
Byte      == 0..255

(* While Decode runs, the groups before i have given their bytes, as many as *)
(* there is room for, and j is behind them.                                 *)
DecoderType ==
    /\ input \in Seq(Code)
    /\ decoding \in {"check", "loop", "returned", "refused"}
    /\ i \in Nat /\ j \in Nat
    /\ decoding = "check" => i = 0 /\ j = 0
    /\ decoding = "refused" => Len(input) % 4 # 0

Decoded ==
    decoding \in {"loop", "returned"} =>
        /\ input # <<>> /\ Len(input) % 4 = 0
        /\ out_len = 3 * (Len(input) \div 4) - Dec!Padding
        /\ Len(out) = out_len /\ out \in Seq(Byte)
        /\ i % 4 = 0 /\ i <= Len(input)
        /\ j = IF 3 * (i \div 4) < out_len THEN 3 * (i \div 4) ELSE out_len
        /\ \A g \in 0..(i \div 4 - 1) : \A k \in 1..3 :
              3 * g + k <= out_len => out[3 * g + k] = Dec!Bytes(Dec!triple(Quad(g)))[k]
        /\ decoding = "returned" => i = Len(input)

DecoderInv == DecoderType /\ Decoded

LEMMA QuadIs ==
    ASSUME DecoderType, Len(input) % 4 = 0, NEW g \in 0..(Len(input) \div 4 - 1)
    PROVE  /\ Quad(g) \in [1..4 -> 0..64]
           /\ Dec!triple(Quad(g)) \in Nat
           /\ \A k \in 1..3 : Dec!Bytes(Dec!triple(Quad(g)))[k] \in Byte
<1>1. Len(input) \in Nat /\ \A k \in 1..Len(input) : input[k] \in 0..65
  <2>1. input \in Seq(Code)
    BY DEF DecoderType
  <2>2. Len(input) \in Nat /\ \A k \in 1..Len(input) : input[k] \in Code
    BY <2>1
  <2> QED BY <2>2 DEF Code
<1>2. \A k \in 1..4 : 4 * g + k \in 1..Len(input)
  BY <1>1
<1>3. \A c \in 0..65 : Dec!Sextet(c) \in 0..64
  BY DEF Dec!Sextet, Dec!Pad
<1>4. Quad(g) \in [1..4 -> 0..64]
  BY <1>1, <1>2, <1>3 DEF Quad
<1>5. ASSUME NEW s \in [1..4 -> 0..64] PROVE Dec!triple(s) \in Nat
  <2>1. \A k \in 1..4 : s[k] \in 0..64
    OBVIOUS
  <2>2. s[1] \in Nat /\ s[2] \in Nat /\ s[3] \in Nat /\ s[4] \in Nat
    <3>1. \A x \in 0..64 : x \in Nat
      OBVIOUS
    <3>2. 1 \in 1..4 /\ 2 \in 1..4 /\ 3 \in 1..4 /\ 4 \in 1..4
      OBVIOUS
    <3> QED BY <2>1, <3>1, <3>2
  <2>3. ASSUME NEW a \in Nat, NEW b \in Nat PROVE a * 64 + b \in Nat
    OBVIOUS
  <2>4. s[1] * 64 + s[2] \in Nat
    BY <2>2, <2>3
  <2>5. (s[1] * 64 + s[2]) * 64 + s[3] \in Nat
    BY <2>2, <2>3, <2>4
  <2>6. ((s[1] * 64 + s[2]) * 64 + s[3]) * 64 + s[4] \in Nat
    BY <2>2, <2>3, <2>5
  <2> QED BY <2>6 DEF Dec!triple
<1>6. ASSUME NEW t \in Nat, NEW k \in 1..3 PROVE Dec!Bytes(t)[k] \in Byte
  <2>1. (t \div 65536) % 256 \in Byte /\ (t \div 256) % 256 \in Byte /\ t % 256 \in Byte
    BY DEF Byte
  <2>2. k = 1 \/ k = 2 \/ k = 3
    OBVIOUS
  <2>3. CASE k = 1
    BY <2>1, <2>3 DEF Dec!Bytes
  <2>4. CASE k = 2
    BY <2>1, <2>4 DEF Dec!Bytes
  <2>5. CASE k = 3
    BY <2>1, <2>5 DEF Dec!Bytes
  <2> QED BY <2>2, <2>3, <2>4, <2>5
<1>7. Dec!triple(Quad(g)) \in Nat
  BY <1>4, <1>5
<1> QED BY <1>4, <1>6, <1>7

LEMMA PaddingIs ==
    ASSUME DecoderType, input # <<>>
    PROVE  Dec!Padding \in 0..2
BY DEF Dec!Padding, Dec!IsPad

LEMMA DecoderNext ==
    ASSUME DecoderInv, input # <<>>, Dec!Next
    PROVE  DecoderInv'
<1>1. input' = input /\ Len(input) \in Nat /\ Len(input) > 0
  BY DEF DecoderInv, DecoderType, Dec!Next, Dec!Check, Dec!Turn, Dec!Finish
<1>2. Dec!Padding \in 0..2
  BY PaddingIs DEF DecoderInv
<1>3. Dec!Padding' = Dec!Padding /\ \A g : Quad(g)' = Quad(g)
  BY <1>1 DEF Dec!Padding, Dec!IsPad, Quad
<1>4. CASE Dec!Check
  <2>1. CASE Len(input) % 4 # 0
    BY <1>1, <1>4, <2>1 DEF Dec!Check, DecoderInv, DecoderType, Decoded
  <2>2. CASE Len(input) % 4 = 0
    <3>1. out_len' = 3 * (Len(input) \div 4) - Dec!Padding
      BY <1>1, <1>4, <2>2 DEF Dec!Check
    <3>2. out_len' \in Nat
      BY <1>1, <1>2, <2>2, <3>1
    <3>3. out' = [k \in 1..out_len' |-> 0] /\ decoding' = "loop"
      BY <1>1, <1>4, <2>2, <3>2 DEF Dec!Check
    <3>4. i' = 0 /\ j' = 0
      BY <1>4 DEF Dec!Check, DecoderInv, DecoderType
    <3>5. out' \in Seq(Byte) /\ Len(out') = out_len'
      <4>1. 0 \in Byte
        BY DEF Byte
      <4> QED BY <3>2, <3>3, <4>1
    <3>6. DecoderType'
      BY <1>1, <3>3, <3>4 DEF DecoderInv, DecoderType
    <3>7. Decoded'
      BY <1>1, <1>3, <2>2, <3>1, <3>2, <3>3, <3>4, <3>5 DEF Decoded
    <3> QED BY <3>6, <3>7 DEF DecoderInv
  <2> QED BY <2>1, <2>2
<1>5. CASE Dec!Turn
  <2> DEFINE g0 == i \div 4
             bytes == Dec!Bytes(Dec!triple(Quad(g0)))
  <2>1. /\ decoding = "loop" /\ i < Len(input) /\ i' = i + 4
        /\ decoding' = decoding /\ out_len' = out_len
    BY <1>5 DEF Dec!Turn
  <2>2. /\ i \in Nat /\ i % 4 = 0 /\ Len(input) % 4 = 0
        /\ out_len = 3 * (Len(input) \div 4) - Dec!Padding
    BY <2>1 DEF DecoderInv, DecoderType, Decoded
  <2>3. /\ g0 \in Nat /\ i = 4 * g0 /\ g0 \in 0..(Len(input) \div 4 - 1)
        /\ i + 4 <= Len(input) /\ (i + 4) \div 4 = g0 + 1 /\ (i + 4) % 4 = 0
    BY <1>1, <2>1, <2>2
  <2>4. out_len \in Nat /\ 3 * g0 < out_len
    BY <1>1, <1>2, <2>2, <2>3
  <2>5. j = 3 * g0
    BY <2>1, <2>4 DEF DecoderInv, Decoded
  <2>6. [k \in 1..4 |-> Dec!Sextet(input[i + k])] = Quad(g0)
    BY <2>3 DEF Quad
  <2>7. /\ j' = IF j + 3 < out_len THEN j + 3 ELSE out_len
        /\ out' = [k \in 1..out_len |-> IF k \in (j + 1)..j' THEN bytes[k - j] ELSE out[k]]
    BY <1>5, <2>6 DEF Dec!Turn
  <2>8. /\ \A k \in 1..3 : bytes[k] \in Byte
        /\ out \in Seq(Byte) /\ Len(out) = out_len
    BY <2>1, <2>2, <2>3, QuadIs DEF DecoderInv, Decoded
  <2> HIDE DEF g0, bytes
  <2>9. j' \in Nat /\ j' <= j + 3 /\ j' <= out_len /\ j \in Nat
    BY <2>3, <2>4, <2>5, <2>7
  <2>10. out' \in Seq(Byte) /\ Len(out') = out_len
    <3>1. ASSUME NEW k \in 1..out_len
          PROVE  (IF k \in (j + 1)..j' THEN bytes[k - j] ELSE out[k]) \in Byte
      <4>1. CASE k \in (j + 1)..j'
        <5>1. k - j \in 1..3
          BY <2>4, <2>9, <4>1
        <5> QED BY <2>8, <4>1, <5>1 DEF Byte
      <4>2. CASE k \notin (j + 1)..j'
        BY <2>4, <2>8, <4>2
      <4> QED BY <4>1, <4>2
    <3> QED BY <2>4, <2>7, <3>1
  <2>11. ASSUME NEW g \in 0..g0, NEW k \in 1..3, 3 * g + k <= out_len
         PROVE  out'[3 * g + k] = Dec!Bytes(Dec!triple(Quad(g)))[k]
    <3>1. 3 * g + k \in 1..out_len
      BY <2>4, <2>11
    <3>2. CASE g = g0
      <4>1. 3 * g + k \in (j + 1)..j' /\ 3 * g + k - j = k
        BY <2>3, <2>4, <2>5, <2>7, <2>11, <3>2
      <4>2. ASSUME NEW x \in 1..out_len, x \in (j + 1)..j', x - j = k PROVE out'[x] = bytes[k]
        BY <2>7, <4>2
      <4>3. out'[3 * g + k] = bytes[k]
        <5> DEFINE x == 3 * g + k
        <5>1. x \in 1..out_len /\ x \in (j + 1)..j' /\ x - j = k
          BY <2>3, <2>9, <3>1, <4>1
        <5> HIDE DEF x
        <5>2. out'[x] = bytes[k]
          BY <4>2, <5>1
        <5> QED BY <5>2 DEF x
      <4> QED BY <3>2, <4>3 DEF bytes
    <3>3. CASE g # g0
      <4>1. g \in 0..(g0 - 1) /\ 3 * g + k <= j
        BY <2>3, <2>5, <3>3
      <4>2. out'[3 * g + k] = out[3 * g + k]
        BY <2>7, <2>9, <3>1, <4>1
      <4>3. out[3 * g + k] = Dec!Bytes(Dec!triple(Quad(g)))[k]
        BY <2>1, <2>11, <4>1 DEF DecoderInv, Decoded, g0
      <4> QED BY <4>2, <4>3
    <3> QED BY <3>2, <3>3
  <2>12. DecoderType'
    BY <1>1, <2>1, <2>2, <2>9 DEF DecoderInv, DecoderType
  <2>13. j' = IF 3 * (g0 + 1) < out_len THEN 3 * (g0 + 1) ELSE out_len
    BY <2>3, <2>4, <2>5, <2>7
  <2>14. (i' \div 4) = g0 + 1 /\ i' % 4 = 0 /\ i' <= Len(input) /\ g0 + 1 - 1 = g0
    BY <2>1, <2>3
  <2>15. Decoded'
    <3>1. \A g \in 0..((i' \div 4) - 1) : \A k \in 1..3 :
              3 * g + k <= out_len => out'[3 * g + k] = Dec!Bytes(Dec!triple(Quad(g)))[k]
      <4>1. 0..((i' \div 4) - 1) = 0..g0
        BY <2>3, <2>14
      <4> QED BY <2>11, <4>1
    <3>2. \A g : Dec!Bytes(Dec!triple(Quad(g)))' = Dec!Bytes(Dec!triple(Quad(g)))
      BY <1>3 DEF Dec!Bytes, Dec!triple
    <3> QED BY <1>1, <1>3, <2>1, <2>2, <2>10, <2>13, <2>14, <3>1, <3>2 DEF Decoded
  <2> QED BY <2>12, <2>15 DEF DecoderInv
<1>6. CASE Dec!Finish
  <2>1. /\ decoding = "loop" /\ decoding' = "returned" /\ i = Len(input)
        /\ UNCHANGED <<input, i, j, out_len, out>>
    <3>1. decoding = "loop" /\ i >= Len(input) /\ decoding' = "returned" /\ UNCHANGED <<input, i, j, out_len, out>>
      BY <1>6 DEF Dec!Finish
    <3>2. i \in Nat /\ i <= Len(input)
      BY <3>1 DEF DecoderInv, DecoderType, Decoded
    <3> QED BY <1>1, <3>1, <3>2
  <2> QED BY <1>3, <2>1 DEF DecoderInv, DecoderType, Decoded, Dec!Bytes, Dec!triple, Quad
<1> QED BY <1>4, <1>5, <1>6 DEF Dec!Next

(* Four sextets are three bytes. *)
SextetsToBytes(s) ==
    <<s[1] * 4 + s[2] \div 16, (s[2] % 16) * 16 + s[3] \div 4, (s[3] % 4) * 64 + s[4]>>

LEMMA BytesOfTriple ==
    ASSUME NEW s \in [1..4 -> 0..63]
    PROVE  Dec!Bytes(Dec!triple(s)) = SextetsToBytes(s)
<1> DEFINE s1 == s[1]  s2 == s[2]  s3 == s[3]  s4 == s[4]
           q2 == s2 \div 16  r2 == s2 % 16  q3 == s3 \div 4  r3 == s3 % 4
           a == s1 * 4 + q2
           b == r2 * 16 + q3
           c == r3 * 64 + s4
           t == ((s1 * 64 + s2) * 64 + s3) * 64 + s4
<1>1. s1 \in 0..63 /\ s2 \in 0..63 /\ s3 \in 0..63 /\ s4 \in 0..63
  <2>1. \A k \in 1..4 : s[k] \in 0..63
    OBVIOUS
  <2>2. 1 \in 1..4 /\ 2 \in 1..4 /\ 3 \in 1..4 /\ 4 \in 1..4
    OBVIOUS
  <2> QED BY <2>1, <2>2, Zenon
<1>2. t = Dec!triple(s) /\ <<a, b, c>> = SextetsToBytes(s)
  BY DEF Dec!triple, SextetsToBytes
<1> HIDE DEF s1, s2, s3, s4
<1>3. s2 = 16 * q2 + r2 /\ q2 \in 0..3 /\ r2 \in 0..15
  BY <1>1
<1>4. s3 = 4 * q3 + r3 /\ q3 \in 0..15 /\ r3 \in 0..3
  BY <1>1
<1> HIDE DEF q2, r2, q3, r3
<1>5. a \in 0..255 /\ b \in 0..255 /\ c \in 0..255
  BY <1>1, <1>3, <1>4
<1>6. t = (a * 256 + b) * 256 + c
  BY <1>1, <1>3, <1>4
<1> HIDE DEF a, b, c, t
<1> DEFINE r == b * 256 + c
           u == a * 256 + b
<1>7. t \in Int /\ t = 65536 * a + r /\ r \in Int /\ 0 <= r /\ r < 65536
  BY <1>5, <1>6
<1>8. t = u * 256 + c /\ u \in Int
  BY <1>5, <1>6
<1>9. u % 256 = b /\ a % 256 = a
  BY <1>5
<1> HIDE DEF r, u
<1>10. t \div 65536 = a
  BY <1>5, <1>7
<1>11. t \div 256 = u /\ t % 256 = c
  BY <1>5, <1>7, <1>8
<1>12. Dec!Bytes(t) = <<a, b, c>>
  BY <1>9, <1>10, <1>11 DEF Dec!Bytes
<1> QED BY <1>2, <1>12

LEMMA GroupsGiveTheirBytes ==
    ASSUME DecoderInv
    PROVE  Dec!SpoilsOneGroup
<1>1. SUFFICES ASSUME decoding = "returned", NEW g \in 0..(Len(input) \div 4 - 1),
                      Dec!Bad \notin {Quad(g)[k] : k \in 1..4}
               PROVE  \A k \in 1..3 : 3 * g + k <= Len(out) => out[3 * g + k] = SextetsToBytes(Quad(g))[k]
  BY DEF Dec!SpoilsOneGroup, Quad, SextetsToBytes
<1>2. /\ Len(input) % 4 = 0 /\ i = Len(input) /\ out_len = Len(out) /\ Len(input) \in Nat
      /\ DecoderType
  BY <1>1 DEF DecoderInv, Decoded, DecoderType
<1>3. Quad(g) \in [1..4 -> 0..63]
  <2>1. Quad(g) \in [1..4 -> 0..64]
    BY <1>1, <1>2, QuadIs
  <2>2. \A k \in 1..4 : Quad(g)[k] # 64
    BY <1>1 DEF Dec!Bad
  <2> QED BY <2>1, <2>2
<1>4. \A k \in 1..3 : 3 * g + k <= out_len => out[3 * g + k] = Dec!Bytes(Dec!triple(Quad(g)))[k]
  BY <1>1, <1>2 DEF DecoderInv, Decoded
<1> QED BY <1>2, <1>3, <1>4, BytesOfTriple

(* Base64's groups. *)
ByteOf(bytes, k) == IF k <= Len(bytes) THEN bytes[k] ELSE 0
GroupOf(bytes, g) ==
    LET a == ByteOf(bytes, 3 * g + 1)  b == ByteOf(bytes, 3 * g + 2)  c == ByteOf(bytes, 3 * g + 3)
    IN  <<a \div 4, (a % 4) * 16 + b \div 16, (b % 16) * 4 + c \div 64, c % 64>>

LEMMA EncodeIs ==
    ASSUME NEW bytes \in Seq(Byte)
    PROVE  /\ Len(Dec!Encode(bytes)) = 4 * ((Len(bytes) + 2) \div 3)
           /\ \A g \in 0..((Len(bytes) + 2) \div 3 - 1) : \A k \in 1..4 :
                 Dec!Encode(bytes)[4 * g + k] = IF 4 * g + k <= (4 * Len(bytes) + 2) \div 3 THEN GroupOf(bytes, g)[k]
                                                ELSE Dec!Pad
<1> DEFINE n == Len(bytes)
           m == (n + 2) \div 3
           cell(x) == IF x <= (4 * n + 2) \div 3 THEN GroupOf(bytes, (x - 1) \div 4)[((x - 1) % 4) + 1] ELSE Dec!Pad
<1>1. Dec!Encode(bytes) = [x \in 1..(4 * m) |-> cell(x)]
  BY DEF Dec!Encode, GroupOf, ByteOf
<1>2. Len(Dec!Encode(bytes)) = 4 * m
  BY <1>1
<1>3. ASSUME NEW x \in Int, NEW g \in Int, NEW k \in 1..4, x = 4 * g + k
      PROVE  (x - 1) \div 4 = g /\ ((x - 1) % 4) + 1 = k
  <2> DEFINE y == x - 1  e == k - 1
  <2>1. y \in Int /\ e \in 0..3 /\ y = g * 4 + e /\ e + 1 = k
    BY <1>3
  <2> HIDE DEF y, e
  <2>2. y \div 4 = g /\ y % 4 = e
    BY <2>1
  <2> QED BY <2>1, <2>2 DEF y
<1>4. ASSUME NEW g \in 0..(m - 1), NEW k \in 1..4
      PROVE  Dec!Encode(bytes)[4 * g + k] = IF 4 * g + k <= (4 * n + 2) \div 3 THEN GroupOf(bytes, g)[k]
                                            ELSE Dec!Pad
  <2> DEFINE x == 4 * g + k
  <2>1. x \in 1..(4 * m) /\ x \in Int /\ g \in Int /\ x = 4 * g + k
    OBVIOUS
  <2> HIDE DEF x
  <2>2. (x - 1) \div 4 = g /\ ((x - 1) % 4) + 1 = k
    BY <1>3, <2>1
  <2>3. Dec!Encode(bytes)[x] = cell(x)
    BY <1>1, <2>1
  <2>4. Dec!Encode(bytes)[x] = IF x <= (4 * n + 2) \div 3 THEN GroupOf(bytes, g)[k] ELSE Dec!Pad
    BY <2>2, <2>3
  <2> QED BY <2>4 DEF x
<1> QED BY <1>2, <1>4

LEMMA GroupIs ==
    ASSUME NEW bytes \in Seq(Byte), NEW g \in Nat
    PROVE  /\ GroupOf(bytes, g) \in [1..4 -> 0..63]
           /\ \A k \in 1..3 : SextetsToBytes(GroupOf(bytes, g))[k] = ByteOf(bytes, 3 * g + k)
<1> DEFINE a == ByteOf(bytes, 3 * g + 1)
           b == ByteOf(bytes, 3 * g + 2)
           c == ByteOf(bytes, 3 * g + 3)
           a1 == a \div 4   a0 == a % 4
           b1 == b \div 16  b0 == b % 16
           c1 == c \div 64  c0 == c % 64
           s == GroupOf(bytes, g)
<1>1. a \in 0..255 /\ b \in 0..255 /\ c \in 0..255
  <2>1. \A x \in Nat \ {0} : ByteOf(bytes, x) \in Byte
    <3>1. 0 \in Byte /\ \A x \in 1..Len(bytes) : bytes[x] \in Byte
      <4>1. 0 \in Byte
        BY DEF Byte
      <4> QED BY <4>1
    <3> QED BY <3>1 DEF ByteOf
  <2> QED BY <2>1, SMTT(60) DEF Byte
<1>2. s = <<a1, a0 * 16 + b1, b0 * 4 + c1, c0>>
  BY DEF GroupOf
<1> HIDE DEF a, b, c, s
<1>3. a = 4 * a1 + a0 /\ a1 \in 0..63 /\ a0 \in 0..3
  BY <1>1
<1>4. b = 16 * b1 + b0 /\ b1 \in 0..15 /\ b0 \in 0..15
  BY <1>1
<1>5. c = 64 * c1 + c0 /\ c1 \in 0..3 /\ c0 \in 0..63
  BY <1>1
<1> HIDE DEF a1, a0, b1, b0, c1, c0
<1>6. a0 * 16 + b1 \in 0..63 /\ b0 * 4 + c1 \in 0..63
  BY <1>3, <1>4, <1>5
<1>7. s \in [1..4 -> 0..63]
  <2>1. s[1] = a1 /\ s[2] = a0 * 16 + b1 /\ s[3] = b0 * 4 + c1 /\ s[4] = c0 /\ DOMAIN s = 1..4
        /\ s = [k \in 1..4 |-> s[k]]
    BY <1>2
  <2>2. \A k \in 1..4 : k = 1 \/ k = 2 \/ k = 3 \/ k = 4
    OBVIOUS
  <2>3. \A k \in 1..4 : s[k] \in 0..63
    BY <1>3, <1>5, <1>6, <2>1, <2>2, Zenon
  <2> QED BY <2>1, <2>3
<1> DEFINE s2 == a0 * 16 + b1
           s3 == b0 * 4 + c1
<1>8. s2 \div 16 = a0 /\ s2 % 16 = b1
  <2>1. s2 \in Int /\ s2 = a0 * 16 + b1 /\ b1 \in 0..15 /\ a0 \in Int
    BY <1>3, <1>4, <1>6
  <2> HIDE DEF s2
  <2> QED BY <2>1
<1>9. s3 \div 4 = b0 /\ s3 % 4 = c1
  <2>1. s3 \in Int /\ s3 = b0 * 4 + c1 /\ c1 \in 0..3 /\ b0 \in Int
    BY <1>4, <1>5, <1>6
  <2> HIDE DEF s3
  <2> QED BY <2>1
<1>10. SextetsToBytes(s) = <<a1 * 4 + s2 \div 16, (s2 % 16) * 16 + s3 \div 4, (s3 % 4) * 64 + c0>>
  BY <1>2 DEF SextetsToBytes
<1>11. a1 * 4 + a0 = a /\ b1 * 16 + b0 = b /\ c1 * 64 + c0 = c
  BY <1>3, <1>4, <1>5
<1> HIDE DEF s2, s3
<1>12. SextetsToBytes(s) = <<a, b, c>>
  BY <1>8, <1>9, <1>10, <1>11
<1>13. ASSUME NEW k \in 1..3 PROVE SextetsToBytes(s)[k] = ByteOf(bytes, 3 * g + k)
  <2>1. k = 1 \/ k = 2 \/ k = 3
    OBVIOUS
  <2> QED BY <1>12, <2>1 DEF a, b, c
<1> QED BY <1>7, <1>13 DEF s

(* What Encode put in comes out. *)
LEMMA EncodedDecodes ==
    ASSUME DecoderInv, decoding = "returned", NEW bytes \in Seq(Byte), input = Dec!Encode(bytes)
    PROVE  out = bytes
<1> DEFINE n == Len(bytes)
           m == (n + 2) \div 3
           last == (4 * n + 2) \div 3
<1>1. /\ input # <<>> /\ Len(out) = out_len /\ out_len = 3 * (Len(input) \div 4) - Dec!Padding
      /\ i = Len(input) /\ out \in Seq(Byte) /\ Len(input) % 4 = 0
      /\ \A g \in 0..(i \div 4 - 1) : \A k \in 1..3 :
              3 * g + k <= out_len => out[3 * g + k] = Dec!Bytes(Dec!triple(Quad(g)))[k]
  BY DEF DecoderInv, Decoded
<1>2. n \in Nat /\ m \in Nat
  OBVIOUS
<1>3. /\ Len(input) = 4 * m
      /\ \A g \in 0..(m - 1) : \A k \in 1..4 :
            input[4 * g + k] = IF 4 * g + k <= last THEN GroupOf(bytes, g)[k] ELSE Dec!Pad
  BY <1>2, EncodeIs
<1>4. \/ n = 3 * m /\ last = 4 * m
      \/ n = 3 * m - 1 /\ last = 4 * m - 1
      \/ n = 3 * m - 2 /\ last = 4 * m - 2
  OBVIOUS
<1>5. m \in Nat \ {0}
  <2>1. input \in Seq(Code)
    BY DEF DecoderInv, DecoderType
  <2>2. Len(input) # 0
    BY <1>1, <2>1
  <2> QED BY <1>2, <1>3, <2>2
<1> HIDE DEF m, last
<1>6. ASSUME NEW g \in 0..(m - 1)
      PROVE  /\ g \in Nat /\ GroupOf(bytes, g) \in [1..4 -> 0..63]
             /\ \A k \in 1..4 : GroupOf(bytes, g)[k] \in 0..63 /\ GroupOf(bytes, g)[k] # Dec!Pad
  <2>1. g \in Nat
    BY <1>5
  <2>2. GroupOf(bytes, g) \in [1..4 -> 0..63]
    BY <2>1, GroupIs
  <2>3. \A k \in 1..4 : GroupOf(bytes, g)[k] \in 0..63
    BY <2>2
  <2>4. \A x \in 0..63 : x # Dec!Pad
    BY DEF Dec!Pad
  <2> QED BY <2>1, <2>2, <2>3, <2>4
<1>7. ASSUME NEW k \in 3..4
      PROVE  Dec!IsPad(4 * (m - 1) + k) = IF 4 * (m - 1) + k <= last THEN 0 ELSE 1
  <2>1. m - 1 \in 0..(m - 1) /\ k \in 1..4
    BY <1>5
  <2>2. input[4 * (m - 1) + k] = IF 4 * (m - 1) + k <= last THEN GroupOf(bytes, m - 1)[k] ELSE Dec!Pad
    BY <1>3, <2>1
  <2>3. GroupOf(bytes, m - 1)[k] # Dec!Pad
    BY <1>6, <2>1
  <2> QED BY <2>2, <2>3 DEF Dec!IsPad
<1>8. Dec!Padding = 3 * m - n
  <2>1. 4 * (m - 1) + 4 = Len(input) /\ 4 * (m - 1) + 3 = Len(input) - 1
    BY <1>3, <1>5
  <2>2. /\ Dec!IsPad(Len(input)) = IF 4 * m <= last THEN 0 ELSE 1
        /\ Dec!IsPad(Len(input) - 1) = IF 4 * m - 1 <= last THEN 0 ELSE 1
    <3>1. Dec!IsPad(4 * (m - 1) + 4) = IF 4 * (m - 1) + 4 <= last THEN 0 ELSE 1
      BY <1>7
    <3>2. Dec!IsPad(4 * (m - 1) + 3) = IF 4 * (m - 1) + 3 <= last THEN 0 ELSE 1
      BY <1>7
    <3>3. 4 * (m - 1) + 4 = 4 * m /\ 4 * (m - 1) + 3 = 4 * m - 1
      BY <1>5
    <3> QED BY <2>1, <3>1, <3>2, <3>3
  <2> QED BY <1>2, <1>4, <1>5, <2>2 DEF Dec!Padding
<1>9. out_len = n
  BY <1>1, <1>2, <1>3, <1>5, <1>8
<1>10. ASSUME NEW g \in 0..(m - 1) PROVE Quad(g) = GroupOf(bytes, g)
  <2>1. GroupOf(bytes, g) \in [1..4 -> 0..63]
    BY <1>6
  <2>2. ASSUME NEW k \in 1..4 PROVE Dec!Sextet(input[4 * g + k]) = GroupOf(bytes, g)[k]
    <3>1. CASE 4 * g + k <= last
      <4>1. GroupOf(bytes, g)[k] # Dec!Pad
        BY <1>6
      <4> QED BY <1>3, <3>1, <4>1 DEF Dec!Sextet
    <3>2. CASE ~(4 * g + k <= last)
      <4>1. g = m - 1 /\ (k = 4 \/ (k = 3 /\ n = 3 * m - 2)) /\ n < 3 * m
        <5>1. last \in Int /\ m \in Nat /\ g \in Nat /\ g <= m - 1 /\ 4 * g + k > last
          BY <1>4, <1>5, <3>2
        <5> HIDE DEF n
        <5>2. CASE n = 3 * m /\ last = 4 * m
          BY <5>1, <5>2
        <5>3. CASE n = 3 * m - 1 /\ last = 4 * m - 1
          <6>1. g = m - 1
            BY <5>1, <5>3
          <6>2. k = 4
            BY <5>1, <5>3, <6>1
          <6> QED BY <5>1, <5>3, <6>1, <6>2
        <5>4. CASE n = 3 * m - 2 /\ last = 4 * m - 2
          BY <5>1, <5>4
        <5> QED BY <1>4, <5>2, <5>3, <5>4
      <4>2. ByteOf(bytes, 3 * g + 3) = 0 /\ (k = 3 => ByteOf(bytes, 3 * g + 2) = 0)
        BY <1>2, <1>5, <4>1 DEF ByteOf
      <4>3. (0 % 16) * 4 + 0 \div 64 = 0 /\ 0 % 64 = 0
        OBVIOUS
      <4>4. GroupOf(bytes, g)[k] = 0
        BY <4>1, <4>2, <4>3 DEF GroupOf
      <4> QED BY <1>3, <3>2, <4>4 DEF Dec!Sextet
    <3> QED BY <3>1, <3>2
  <2> QED BY <2>1, <2>2 DEF Quad
<1>11. ASSUME NEW g \in 0..(m - 1), NEW k \in 1..3, 3 * g + k <= n
       PROVE  out[3 * g + k] = ByteOf(bytes, 3 * g + k)
  <2>1. i \div 4 = m
    BY <1>1, <1>3, <1>5
  <2>2. out[3 * g + k] = Dec!Bytes(Dec!triple(Quad(g)))[k]
    BY <1>1, <1>9, <1>11, <2>1
  <2>3. Quad(g) = GroupOf(bytes, g) /\ GroupOf(bytes, g) \in [1..4 -> 0..63]
    BY <1>6, <1>10
  <2>4. Dec!Bytes(Dec!triple(Quad(g))) = SextetsToBytes(GroupOf(bytes, g))
    BY <2>3, BytesOfTriple
  <2>5. g \in Nat
    OBVIOUS
  <2> QED BY <2>2, <2>4, <2>5, GroupIs
<1>12. ASSUME NEW x \in 1..n PROVE out[x] = bytes[x]
  <2> DEFINE y == x - 1
  <2>1. y \in Nat /\ y < n
    BY <1>2
  <2> HIDE DEF y
  <2>2. \E d \in Nat, r \in 0..2 : y = 3 * d + r
    <3>1. y = 3 * (y \div 3) + (y % 3) /\ y \div 3 \in Nat /\ y % 3 \in 0..2
      <4> DEFINE d == y \div 3  r == y % 3
      <4>1. d \in Nat /\ r \in 0..2
        BY <2>1
      <4>2. y = d * 3 + r
        BY <2>1
      <4> QED BY <4>1, <4>2
    <3> QED BY <3>1
  <2>3. PICK d \in Nat, r \in 0..2 : y = 3 * d + r
    BY <2>2
  <2> DEFINE k == r + 1
  <2>4. d \in 0..(m - 1) /\ k \in 1..3 /\ x = 3 * d + k /\ x <= n
    BY <1>2, <1>4, <1>5, <2>1, <2>3 DEF y
  <2> HIDE DEF k
  <2>5. out[3 * d + k] = ByteOf(bytes, 3 * d + k)
    BY <1>11, <2>4
  <2> QED BY <2>4, <2>5 DEF ByteOf
<1>13. Len(out) = Len(bytes)
  BY <1>1, <1>9
<1> QED BY <1>1, <1>12, <1>13, SeqEqual

-----------------------------------------------------------------------------
(* The environment file: texts, and where a character is found in them.     *)

Less == OpToRel(<, Nat)

LEMMA LeastNat ==
    ASSUME NEW T \in SUBSET Nat, T # {}
    PROVE  \E n \in T : \A m \in T : n <= m
<1>1. IsWellFoundedOn(Less, Nat)
  BY NatLessThanWellFounded, Zenon DEF Less
<1>2. PICK n \in T : \A m \in T : ~ (<<m, n>> \in Less)
  BY <1>1, WFMin
<1>3. \A m, l \in Nat : m < l => <<m, l>> \in Less
  BY Zenon DEF Less, OpToRel
<1>4. \A m \in T : ~(m < n)
  BY <1>2, <1>3
<1> QED BY <1>4

LEMMA NatInduct ==
    ASSUME NEW T, 0 \in T, \A n \in Nat : n \in T => n + 1 \in T
    PROVE  \A n \in Nat : n \in T
<1> DEFINE N == {n \in Nat : n \notin T}
<1>1. SUFFICES ASSUME N # {} PROVE FALSE
  OBVIOUS
<1>2. PICK n \in N : \A m \in N : n <= m
  BY <1>1, LeastNat
<1>3. n \in Nat \ {0} /\ n - 1 \in Nat
  BY <1>2
<1>4. n - 1 \in T
  BY <1>2, <1>3
<1> QED BY <1>2, <1>3, <1>4

(* A text is a sequence of characters, the provers' STRING or one of the two  *)
(* that Dotenv puts in itself and that they do not read as strings.          *)
Char == STRING \union {"\\", "$"}
Text == Seq(Char)

LEMMA FindIs ==
    ASSUME NEW t \in Text, NEW c, NEW from \in Nat \ {0}
    PROVE  LET f == Env!Find(t, c, from)
           IN  /\ f \in Nat
               /\ f = 0 => \A x \in Int : from <= x /\ x <= Len(t) => t[x] # c
               /\ f # 0 => /\ from <= f /\ f <= Len(t) /\ t[f] = c
                           /\ \A x \in Int : from <= x /\ x < f => t[x] # c
<1> DEFINE S == {x \in from..Len(t) : t[x] = c}
<1>1. Len(t) \in Nat
  BY DEF Text
<1>2. Env!Find(t, c, from) = IF S = {} THEN 0 ELSE Env!Min(S)
  BY DEF Env!Find
<1>3. CASE S = {}
  BY <1>1, <1>2, <1>3
<1>4. CASE S # {}
  <2>1. S \in SUBSET Nat
    BY <1>1
  <2>2. \E n \in S : \A m \in S : n <= m
    BY <1>4, <2>1, LeastNat
  <2>3. Env!Min(S) \in S /\ \A m \in S : Env!Min(S) <= m
    BY <2>2 DEF Env!Min
  <2> DEFINE f == Env!Min(S)
  <2> HIDE DEF f
  <2>4. f \in Int /\ from <= f /\ f <= Len(t) /\ t[f] = c
    BY <1>1, <2>3 DEF f
  <2>5. ASSUME NEW x \in Int, from <= x, x < f PROVE t[x] # c
    <3>1. x \in S => f <= x
      BY <2>3 DEF f
    <3>2. x \in from..Len(t)
      BY <1>1, <2>4, <2>5
    <3> QED BY <2>4, <2>5, <3>1, <3>2
  <2>6. Env!Find(t, c, from) = f /\ f # 0 /\ f \in Nat
    BY <1>2, <1>4, <2>4 DEF f
  <2> QED BY <2>4, <2>5, <2>6
<1> QED BY <1>3, <1>4

(* From a to b of t there stands what stands from a2 to b2 of u. *)
Same(t, a, b, u, a2, b2) ==
    /\ t \in Text /\ a \in Nat \ {0} /\ b \in Int /\ b <= Len(t)
    /\ u \in Text /\ a2 \in Nat \ {0} /\ b2 \in Int /\ b2 <= Len(u)
    /\ b - a = b2 - a2
    /\ \A x \in Nat : a + x <= b => t[a + x] = u[a2 + x]

(* Where a text is found does not depend on what stands before it. *)
LEMMA FindAligned ==
    ASSUME NEW t, NEW u, NEW c, NEW p, NEW r, Same(t, p, Len(t), u, r, Len(u))
    PROVE  LET f == Env!Find(t, c, p)
               g == Env!Find(u, c, r)
           IN  (f = 0 <=> g = 0) /\ (f # 0 => f - p = g - r)
<1> DEFINE f == Env!Find(t, c, p)
           g == Env!Find(u, c, r)
<1>0. /\ t \in Text /\ u \in Text /\ p \in Nat \ {0} /\ r \in Nat \ {0}
      /\ Len(t) - p = Len(u) - r /\ \A x \in Nat : p + x <= Len(t) => t[p + x] = u[r + x]
  BY DEF Same
<1>1. Len(t) \in Nat /\ Len(u) \in Nat
  BY <1>0 DEF Text
<1>2. /\ f \in Nat
      /\ f = 0 => \A x \in Int : p <= x /\ x <= Len(t) => t[x] # c
      /\ f # 0 => p <= f /\ f <= Len(t) /\ t[f] = c /\ \A x \in Int : p <= x /\ x < f => t[x] # c
  BY <1>0, FindIs
<1>3. /\ g \in Nat
      /\ g = 0 => \A x \in Int : r <= x /\ x <= Len(u) => u[x] # c
      /\ g # 0 => r <= g /\ g <= Len(u) /\ u[g] = c /\ \A x \in Int : r <= x /\ x < g => u[x] # c
  BY <1>0, FindIs
<1> HIDE DEF f, g
<1>4. ASSUME f # 0 PROVE g # 0 /\ g <= r + (f - p)
  <2>1. f - p \in Nat /\ p + (f - p) = f /\ r + (f - p) <= Len(u) /\ r + (f - p) \in Int
    BY <1>0, <1>1, <1>2, <1>4
  <2>2. u[r + (f - p)] = c
    BY <1>0, <1>2, <1>4, <2>1
  <2> QED BY <1>0, <1>3, <2>1, <2>2
<1>5. ASSUME g # 0 PROVE f # 0 /\ f <= p + (g - r)
  <2>1. g - r \in Nat /\ r + (g - r) = g /\ p + (g - r) <= Len(t) /\ p + (g - r) \in Int
    BY <1>0, <1>1, <1>3, <1>5
  <2>2. t[p + (g - r)] = c
    BY <1>0, <1>3, <1>5, <2>1
  <2> QED BY <1>0, <1>2, <2>1, <2>2
<1>6. f # 0 => f - p = g - r
  BY <1>0, <1>2, <1>3, <1>4, <1>5
<1> QED BY <1>4, <1>5, <1>6 DEF f, g

LEMMA SubIs ==
    ASSUME NEW t \in Text, NEW a \in Nat \ {0}, NEW b \in Int, b <= Len(t)
    PROVE  /\ SubSeq(t, a, b) \in Text
           /\ Len(SubSeq(t, a, b)) = IF a <= b THEN b - a + 1 ELSE 0
           /\ \A x \in 1..(b - a + 1) : SubSeq(t, a, b)[x] = t[a + x - 1]
<1>1. \A x \in a..b : t[x] \in Char
  BY DEF Text
<1>2. SubSeq(t, a, b) \in Seq(Char)
  BY <1>1, SubSeqProperties
<1> QED BY <1>1, <1>2, SubSeqProperties DEF Text

Sub(t, a, b) == SubSeq(t, a, b)

LEMMA SubAligned ==
    ASSUME NEW t, NEW a, NEW b, NEW u, NEW a2, NEW b2, Same(t, a, b, u, a2, b2)
    PROVE  Sub(t, a, b) = Sub(u, a2, b2)
<1> DEFINE v == SubSeq(t, a, b)
           w == SubSeq(u, a2, b2)
<1>0. /\ t \in Text /\ a \in Nat \ {0} /\ b \in Int /\ b <= Len(t)
      /\ u \in Text /\ a2 \in Nat \ {0} /\ b2 \in Int /\ b2 <= Len(u)
      /\ b - a = b2 - a2
  BY DEF Same
<1>1. /\ v \in Text /\ Len(v) = IF a <= b THEN b - a + 1 ELSE 0
      /\ \A x \in 1..(b - a + 1) : v[x] = t[a + x - 1]
  BY <1>0, SubIs
<1>2. /\ w \in Text /\ Len(w) = IF a2 <= b2 THEN b2 - a2 + 1 ELSE 0
      /\ \A x \in 1..(b2 - a2 + 1) : w[x] = u[a2 + x - 1]
  BY <1>0, SubIs
<1> HIDE DEF v, w
<1>3. Len(v) = Len(w)
  BY <1>0, <1>1, <1>2
<1>4. ASSUME NEW x \in 1..Len(v) PROVE v[x] = w[x]
  <2>1. x \in 1..(b - a + 1) /\ x \in 1..(b2 - a2 + 1)
    BY <1>0, <1>1, <1>4
  <2> DEFINE y == x - 1
  <2>2. y \in Nat /\ a + y <= b /\ a + x - 1 = a + y /\ a2 + x - 1 = a2 + y
    BY <1>0, <2>1
  <2> HIDE DEF y
  <2>3. t[a + y] = u[a2 + y]
    BY <2>2 DEF Same
  <2> QED BY <1>1, <1>2, <2>1, <2>2, <2>3
<1> QED BY <1>1, <1>2, <1>3, <1>4, SeqEqual DEF Text, v, w, Sub

-----------------------------------------------------------------------------
(* The expansion of a text, which Dotenv defines from its end.              *)

Body(t, vs, e, x) ==
    IF x > Len(t) THEN <<>>
    ELSE IF t[x] # "$" \/ x = Len(t) THEN <<t[x]>> \o e[x + 1]
    ELSE IF t[x + 1] = "\\" THEN <<"\\">> \o e[x + 2]
    ELSE IF t[x + 1] # "{" THEN Env!ValueOf(vs, Env!From(t, x + 1))
    ELSE IF Env!Find(t, "}", x + 2) = 0 THEN <<"$">> \o e[x + 1]
    ELSE Env!ValueOf(vs, SubSeq(t, x + 2, Env!Find(t, "}", x + 2) - 1)) \o e[Env!Find(t, "}", x + 2) + 1]

Expander(t, vs) == CHOOSE e : e = [x \in 1..(Len(t) + 3) |-> Body(t, vs, e, x)]

LEMMA ExpansionIs == \A t, vs : Env!Expansion(t, vs) = Expander(t, vs)[1]
BY DEF Env!Expansion, Expander, Body

LEMMA BodyLocal ==
    ASSUME NEW t \in Text, NEW vs, NEW e, NEW f, NEW x \in 1..(Len(t) + 3),
           \A y \in 1..(Len(t) + 3) : y > x => e[y] = f[y]
    PROVE  Body(t, vs, e, x) = Body(t, vs, f, x)
<1>1. Len(t) \in Nat
  BY DEF Text
<1>2. x <= Len(t) => e[x + 1] = f[x + 1] /\ e[x + 2] = f[x + 2]
  BY <1>1
<1> DEFINE c == Env!Find(t, "}", x + 2)
<1>3. x <= Len(t) /\ c # 0 => e[c + 1] = f[c + 1]
  <2>1. x + 2 \in Nat \ {0}
    OBVIOUS
  <2>2. c \in Nat /\ (c # 0 => x + 2 <= c /\ c <= Len(t))
    BY <2>1, FindIs
  <2> HIDE DEF c
  <2> QED BY <1>1, <2>2
<1>4. CASE x > Len(t)
  BY <1>4 DEF Body
<1>5. CASE x <= Len(t)
  <2>1. ~(x > Len(t)) /\ e[x + 1] = f[x + 1] /\ e[x + 2] = f[x + 2] /\ (c # 0 => e[c + 1] = f[c + 1])
    <3> HIDE DEF c
    <3>1. ~(x > Len(t))
      BY <1>1, <1>5
    <3> QED BY <1>2, <1>3, <1>5, <3>1, Zenon
  <2>2. CASE c = 0
    BY <2>1, <2>2, Zenon DEF Body
  <2>3. CASE c # 0
    BY <2>1, <2>3, Zenon DEF Body
  <2> QED BY <2>2, <2>3
<1> QED BY <1>1, <1>4, <1>5

LEMMA ExpanderExists ==
    ASSUME NEW t \in Text, NEW vs
    PROVE  \E e : e = [x \in 1..(Len(t) + 3) |-> Body(t, vs, e, x)]
<1> DEFINE L == Len(t) + 3
           D == 1..L
           T == {m \in Nat : \E e : /\ DOMAIN e = D /\ e = [x \in D |-> e[x]]
                                    /\ \A x \in D : x > L - m => e[x] = Body(t, vs, e, x)}
<1>1. L \in Nat
  BY DEF Text
<1>2. 0 \in T
  <2> DEFINE e == [x \in D |-> <<>>]
  <2>1. DOMAIN e = D /\ e = [x \in D |-> e[x]] /\ \A x \in D : ~(x > L - 0)
    BY <1>1
  <2> HIDE DEF D, e
  <2> QED BY <2>1
<1>3. ASSUME NEW m \in Nat, m \in T PROVE m + 1 \in T
  <2>1. PICK e : /\ DOMAIN e = D /\ e = [x \in D |-> e[x]]
                 /\ \A x \in D : x > L - m => e[x] = Body(t, vs, e, x)
    BY <1>3
  <2>2. CASE m >= L
    <3>1. \A x \in D : x > L - m
      BY <1>1, <2>2
    <3> HIDE DEF D
    <3> QED BY <2>1, <3>1
  <2>3. CASE m < L
    <3> DEFINE f == [x \in D |-> IF x = L - m THEN Body(t, vs, e, x) ELSE e[x]]
    <3>1. L - m \in D /\ \A x \in D : x > L - (m + 1) => x >= L - m
      BY <1>1, <2>3
    <3>2. \A x \in D : x > L - m => f[x] = e[x]
      BY <1>1, <2>3
    <3>3. DOMAIN f = D /\ f = [x \in D |-> f[x]]
      OBVIOUS
    <3>4. f[L - m] = Body(t, vs, e, L - m)
      BY <3>1
    <3> HIDE DEF f
    <3>5. ASSUME NEW x \in D, x > L - (m + 1) PROVE f[x] = Body(t, vs, f, x)
      <4>1. \A y \in D : y > x => e[y] = f[y]
        BY <1>1, <2>3, <3>1, <3>2, <3>5
      <4>2. Body(t, vs, e, x) = Body(t, vs, f, x)
        BY <4>1, BodyLocal
      <4>3. f[x] = Body(t, vs, e, x)
        BY <1>1, <2>1, <2>3, <3>1, <3>2, <3>4, <3>5
      <4> QED BY <4>2, <4>3
    <3> HIDE DEF D
    <3> QED BY <3>3, <3>5
  <2> QED BY <1>1, <2>2, <2>3
<1>4. L \in T
  <2> HIDE DEF T, L
  <2> QED BY <1>1, <1>2, <1>3, NatInduct
<1>5. PICK e : /\ DOMAIN e = D /\ e = [x \in D |-> e[x]]
               /\ \A x \in D : x > L - L => e[x] = Body(t, vs, e, x)
  BY <1>4
<1>6. \A x \in D : e[x] = Body(t, vs, e, x)
  BY <1>1, <1>5
<1> HIDE DEF D
<1>7. [x \in D |-> e[x]] = [x \in D |-> Body(t, vs, e, x)]
  BY <1>6
<1>8. e = [x \in D |-> Body(t, vs, e, x)]
  BY <1>5, <1>7
<1> QED BY <1>8 DEF D

LEMMA ExpanderIs ==
    ASSUME NEW t \in Text, NEW vs
    PROVE  \A x \in 1..(Len(t) + 3) : Expander(t, vs)[x] = Body(t, vs, Expander(t, vs), x)
<1> DEFINE e == Expander(t, vs)
<1>1. e = [x \in 1..(Len(t) + 3) |-> Body(t, vs, e, x)]
  BY ExpanderExists DEF Expander
<1> HIDE DEF e
<1> QED BY <1>1 DEF e

LEMMA Concat ==
    ASSUME NEW t \in Text, NEW u \in Text
    PROVE  /\ t \o u \in Text /\ Len(t \o u) = Len(t) + Len(u)
           /\ \A x \in 1..(Len(t) + Len(u)) : (t \o u)[x] = IF x <= Len(t) THEN t[x] ELSE u[x - Len(t)]
BY ConcatProperties DEF Text

LEMMA Concat3 ==
    ASSUME NEW t \in Text, NEW u \in Text, NEW v \in Text
    PROVE  (t \o u) \o v = t \o (u \o v)
BY ConcatAssociative DEF Text

LEMMA NoText == <<>> \in Text /\ \A t \in Text : t \o <<>> = t /\ <<>> \o t = t
BY ConcatEmptySeq DEF Text

LEMMA OneElement == ASSUME NEW S, NEW c \in S PROVE <<c>> \in Seq(S) /\ Len(<<c>>) = 1 /\ <<c>>[1] = c
OBVIOUS

LEMMA OneCharacter ==
    ASSUME NEW c \in Char
    PROVE  <<c>> \in Text /\ Len(<<c>>) = 1 /\ <<c>>[1] = c
BY OneElement, Zenon DEF Text

LEMMA Specials == "\\" \in Char /\ "$" \in Char
BY Zenon DEF Char

LEMMA ElementOf == \A t \in Text : Len(t) \in Nat /\ \A x \in 1..Len(t) : t[x] \in Char
BY DEF Text

Values(vs) == vs \in [DOMAIN vs -> Text]

LEMMA ValueIsText == ASSUME NEW vs, Values(vs), NEW x PROVE Env!ValueOf(vs, x) \in Text
BY NoText DEF Values, Env!ValueOf, Env!has

LEMMA BodyIsText ==
    ASSUME NEW t \in Text, NEW vs, Values(vs), NEW e, NEW x \in 1..(Len(t) + 3),
           \A y \in 1..(Len(t) + 3) : y > x => e[y] \in Text
    PROVE  Body(t, vs, e, x) \in Text
<1>1. Len(t) \in Nat
  BY ElementOf
<1>2. CASE x > Len(t)
  BY <1>2, NoText DEF Body
<1>3. CASE x <= Len(t)
  <2> DEFINE c == Env!Find(t, "}", x + 2)
  <2>1. e[x + 1] \in Text /\ e[x + 2] \in Text /\ ~(x > Len(t))
    BY <1>1, <1>3
  <2>2. c # 0 => e[c + 1] \in Text
    <3>1. x + 2 \in Nat \ {0}
      OBVIOUS
    <3>2. c \in Nat /\ (c # 0 => x + 2 <= c /\ c <= Len(t))
      BY <3>1, FindIs
    <3> HIDE DEF c
    <3> QED BY <1>1, <3>2
  <2>3. <<t[x]>> \in Text /\ <<"\\">> \in Text /\ <<"$">> \in Text
    <3>1. t[x] \in Char
      BY <1>1, <1>3, ElementOf
    <3> QED BY <3>1, Specials, OneCharacter, Zenon
  <2>4. /\ <<t[x]>> \o e[x + 1] \in Text /\ <<"\\">> \o e[x + 2] \in Text /\ <<"$">> \o e[x + 1] \in Text
        /\ c # 0 => Env!ValueOf(vs, SubSeq(t, x + 2, c - 1)) \o e[c + 1] \in Text
        /\ Env!ValueOf(vs, Env!From(t, x + 1)) \in Text
    BY <2>1, <2>2, <2>3, Concat, ValueIsText
  <2> QED BY <2>1, <2>4, Zenon DEF Body
<1> QED BY <1>1, <1>2, <1>3

LEMMA ExpanderType ==
    ASSUME NEW t \in Text, NEW vs, Values(vs)
    PROVE  \A x \in 1..(Len(t) + 3) : Expander(t, vs)[x] \in Text
<1> DEFINE e == Expander(t, vs)
           L == Len(t) + 3
           T == {m \in Nat : \A x \in 1..L : x > L - m => e[x] \in Text}
<1>1. L \in Nat
  BY ElementOf
<1>2. 0 \in T
  BY <1>1
<1>3. ASSUME NEW m \in Nat, m \in T PROVE m + 1 \in T
  <2>0. m + 1 \in Nat
    OBVIOUS
  <2>1. SUFFICES ASSUME NEW x \in 1..L, x > L - (m + 1) PROVE e[x] \in Text
    BY <2>0, Zenon
  <2>2. \A y \in 1..L : y > x => e[y] \in Text
    BY <1>1, <1>3, <2>1
  <2>3. e[x] = Body(t, vs, e, x)
    BY ExpanderIs
  <2> QED BY <2>2, <2>3, BodyIsText
<1> HIDE DEF T
<1>4. \A m \in Nat : m \in T
  BY <1>2, <1>3, NatInduct
<1>5. L \in T
  BY <1>1, <1>4
<1> QED BY <1>1, <1>5 DEF T

(* Where nothing is referred to, nothing is replaced. *)
LEMMA PlainPart ==
    ASSUME NEW t \in Text, NEW vs, Values(vs), NEW k \in Nat \ {0}, NEW l \in Nat, k <= l, l <= Len(t) + 1,
           \A x \in Int : k <= x /\ x < l => t[x] # "$" \/ x = Len(t)
    PROVE  Expander(t, vs)[k] = SubSeq(t, k, l - 1) \o Expander(t, vs)[l]
<1> DEFINE e == Expander(t, vs)
           T == {d \in Nat : \A x \in Nat : x = l - d /\ x >= k => e[x] = SubSeq(t, x, l - 1) \o e[l]}
<1>1. Len(t) \in Nat /\ e[l] \in Text /\ \A x \in 1..(Len(t) + 1) : e[x] = Body(t, vs, e, x)
  BY ExpanderType, ExpanderIs, ElementOf
<1> HIDE DEF e
<1>2. 0 \in T
  <2>1. SubSeq(t, l, l - 1) = <<>> /\ l - 0 = l
    BY SubSeqEmpty
  <2> QED BY <1>1, <2>1, NoText
<1>3. ASSUME NEW d \in Nat, d \in T PROVE d + 1 \in T
  <2>0. d + 1 \in Nat
    OBVIOUS
  <2>1. SUFFICES ASSUME NEW x \in Nat, x = l - (d + 1), x >= k
                 PROVE  e[x] = SubSeq(t, x, l - 1) \o e[l]
    BY <2>0, Zenon
  <2>2. x \in Nat \ {0} /\ k <= x /\ x < l /\ x + 1 = l - d /\ x + 1 >= k /\ x \in 1..Len(t) /\ x \in 1..(Len(t) + 1)
    BY <1>1, <2>1
  <2>3. e[x + 1] = SubSeq(t, x + 1, l - 1) \o e[l]
    <3> DEFINE y == x + 1
    <3>1. y \in Nat /\ y = l - d /\ y >= k
      BY <2>2
    <3>2. y \in Nat /\ y = l - d /\ y >= k => e[y] = SubSeq(t, y, l - 1) \o e[l]
      <4> HIDE DEF y
      <4> QED BY <1>3, <3>1
    <3> QED BY <3>1, <3>2
  <2>4. e[x] = <<t[x]>> \o e[x + 1]
    <3>1. t[x] # "$" \/ x = Len(t)
      BY <2>2
    <3>2. ~(x > Len(t))
      BY <1>1, <2>2
    <3> QED BY <1>1, <2>2, <3>1, <3>2, Zenon DEF Body
  <2>5. <<t[x]>> \in Text /\ SubSeq(t, x + 1, l - 1) \in Text
    <3>1. l - 1 \in Int /\ l - 1 <= Len(t) /\ x + 1 \in Nat \ {0}
      BY <1>1, <2>2
    <3> QED BY <2>2, <3>1, ElementOf, OneCharacter, SubIs
  <2>6. SubSeq(t, x, l - 1) = <<t[x]>> \o SubSeq(t, x + 1, l - 1)
    <3>1. l - 1 \in x..Len(t)
      BY <1>1, <2>2
    <3> QED BY <2>2, <3>1, SubSeqRecursiveFirst DEF Text
  <2>7. e[x] = SubSeq(t, x, l - 1) \o e[l]
    <3>1. (<<t[x]>> \o SubSeq(t, x + 1, l - 1)) \o e[l] = <<t[x]>> \o (SubSeq(t, x + 1, l - 1) \o e[l])
      BY <1>1, <2>5, Concat3, ZenonT(60)
    <3> QED BY <2>3, <2>4, <2>6, <3>1
  <2> QED BY <2>7
<1> HIDE DEF T
<1>4. l - k \in T
  <2>1. l - k \in Nat
    OBVIOUS
  <2> QED BY <1>2, <1>3, <2>1, NatInduct
<1>5. k \in Nat /\ k = l - (l - k) /\ k >= k
  OBVIOUS
<1> QED BY <1>4, <1>5 DEF T, e

(* The loop of expandVariables has come to p of the line, which is k of the  *)
(* original: what is left of the two is the same, and what stands before p   *)
(* is what the original's first k - 1 characters mean.                       *)
Along(t, p, u, k, vs) ==
    /\ t \in Text /\ u \in Text /\ p \in Nat \ {0} /\ k \in Nat \ {0}
    /\ p <= Len(t) + 1 /\ k <= Len(u) + 1
    /\ Len(t) - p = Len(u) - k
    /\ \A x \in Nat : p + x <= Len(t) => t[p + x] = u[k + x]
    /\ Env!Expansion(u, vs) = SubSeq(t, 1, p - 1) \o Expander(u, vs)[k]

LEMMA AlongStart ==
    ASSUME NEW t \in Text, NEW vs, Values(vs)
    PROVE  Along(t, 1, t, 1, vs)
<1>1. Len(t) \in Nat /\ SubSeq(t, 1, 1 - 1) = <<>>
  BY ElementOf, SubSeqEmpty
<1>2. Expander(t, vs)[1] \in Text
  BY <1>1, ExpanderType
<1>3. Env!Expansion(t, vs) = SubSeq(t, 1, 1 - 1) \o Expander(t, vs)[1]
  BY <1>1, <1>2, NoText, ExpansionIs
<1> QED BY <1>1, <1>3 DEF Along

LEMMA Cut ==
    ASSUME NEW t \in Text, NEW p \in Nat \ {0}, NEW l \in Nat, p <= l, l <= Len(t) + 1
    PROVE  SubSeq(t, 1, p - 1) \o SubSeq(t, p, l - 1) = SubSeq(t, 1, l - 1)
<1>0. Len(t) \in Nat
  BY ElementOf
<1>1. 1 \in 1..(Len(t) + 1) /\ p - 1 \in (1 - 1)..(l - 1) /\ l - 1 \in 0..Len(t) /\ (p - 1) + 1 = p
  BY <1>0
<1>2. /\ SubSeq(t, 1, p - 1) \in Text /\ Len(SubSeq(t, 1, p - 1)) = p - 1
      /\ \A x \in 1..(p - 1) : SubSeq(t, 1, p - 1)[x] = t[x]
  <2>1. p - 1 \in Int /\ p - 1 <= Len(t) /\ 1 \in Nat \ {0}
    BY <1>0
  <2> QED BY <1>0, <2>1, SubIs
<1>3. /\ SubSeq(t, p, l - 1) \in Text /\ Len(SubSeq(t, p, l - 1)) = l - p
      /\ \A x \in 1..(l - p) : SubSeq(t, p, l - 1)[x] = t[p + x - 1]
  <2>1. l - 1 \in Int /\ l - 1 <= Len(t)
    BY <1>0
  <2> QED BY <1>0, <2>1, SubIs
<1>4. /\ SubSeq(t, 1, l - 1) \in Text /\ Len(SubSeq(t, 1, l - 1)) = l - 1
      /\ \A x \in 1..(l - 1) : SubSeq(t, 1, l - 1)[x] = t[x]
  <2>1. l - 1 \in Int /\ l - 1 <= Len(t) /\ 1 \in Nat \ {0}
    BY <1>0
  <2> QED BY <1>0, <2>1, SubIs
<1> DEFINE a == SubSeq(t, 1, p - 1)
           b == SubSeq(t, p, l - 1)
           c == SubSeq(t, 1, l - 1)
<1> HIDE DEF a, b, c
<1>5. /\ a \o b \in Text /\ Len(a \o b) = l - 1
      /\ \A x \in 1..(l - 1) : (a \o b)[x] = IF x <= p - 1 THEN a[x] ELSE b[x - (p - 1)]
  BY <1>0, <1>2, <1>3, Concat DEF a, b
<1>6. \A x \in 1..(l - 1) : (a \o b)[x] = c[x]
  <2>1. TAKE x \in 1..(l - 1)
  <2>2. CASE x <= p - 1
    BY <1>0, <1>2, <1>4, <1>5, <2>2 DEF a, c
  <2>3. CASE ~(x <= p - 1)
    <3>1. x - (p - 1) \in 1..(l - p) /\ p + (x - (p - 1)) - 1 = x
      BY <1>0, <2>3
    <3> QED BY <1>0, <1>3, <1>4, <1>5, <2>3, <3>1 DEF b, c
  <2> QED BY <2>2, <2>3
<1>7. a \o b = c
  BY <1>4, <1>5, <1>6, SeqEqual DEF Text, c
<1> QED BY <1>7 DEF a, b, c

LEMMA Advance ==
    ASSUME NEW t, NEW p, NEW u, NEW k, NEW vs, Along(t, p, u, k, vs), Values(vs),
           NEW l \in Nat, p <= l, l <= Len(t) + 1,
           \A x \in Int : p <= x /\ x < l => t[x] # "$" \/ x = Len(t)
    PROVE  Along(t, l, u, k + (l - p), vs)
<1> DEFINE m == k + (l - p)
           e == Expander(u, vs)
<1>1. /\ t \in Text /\ u \in Text /\ p \in Nat \ {0} /\ k \in Nat \ {0}
      /\ p <= Len(t) + 1 /\ k <= Len(u) + 1 /\ Len(t) - p = Len(u) - k
      /\ \A x \in Nat : p + x <= Len(t) => t[p + x] = u[k + x]
      /\ Env!Expansion(u, vs) = SubSeq(t, 1, p - 1) \o e[k]
      /\ Len(t) \in Nat /\ Len(u) \in Nat
  BY ElementOf DEF Along
<1>2. m \in Nat /\ k <= m /\ m <= Len(u) + 1 /\ Len(t) - l = Len(u) - m
  BY <1>1
<1> HIDE DEF m, e
<1>3. ASSUME NEW x \in Int, k <= x, x < m PROVE u[x] # "$" \/ x = Len(u)
  <2> DEFINE y == x - k
  <2>1. y \in Nat /\ p + y <= Len(t) /\ k + y = x /\ p + y \in Int /\ p <= p + y /\ p + y < l
    BY <1>1, <1>2, <1>3 DEF m
  <2>2. p + y = Len(t) => x = Len(u)
    BY <1>1, <2>1
  <2> HIDE DEF y
  <2>3. t[p + y] = u[k + y] /\ (t[p + y] # "$" \/ p + y = Len(t))
    BY <1>1, <2>1
  <2> QED BY <2>1, <2>2, <2>3
<1>4. e[k] = SubSeq(u, k, m - 1) \o e[m]
  BY <1>1, <1>2, <1>3, PlainPart, ZenonT(60) DEF e
<1>5. SubSeq(u, k, m - 1) = SubSeq(t, p, l - 1)
  <2>1. /\ m - 1 \in Int /\ m - 1 <= Len(u) /\ l - 1 \in Int /\ l - 1 <= Len(t)
        /\ (m - 1) - k = (l - 1) - p
    BY <1>1, <1>2 DEF m
  <2>2. ASSUME NEW x \in Nat, k + x <= m - 1 PROVE u[k + x] = t[p + x]
    <3>1. p + x <= Len(t)
      BY <1>1, <1>2, <2>2
    <3> QED BY <1>1, <3>1
  <2> DEFINE m1 == m - 1
             l1 == l - 1
  <2> HIDE DEF m1, l1
  <2>3. /\ m1 \in Int /\ m1 <= Len(u) /\ l1 \in Int /\ l1 <= Len(t) /\ m1 - k = l1 - p
        /\ \A x \in Nat : k + x <= m1 => u[k + x] = t[p + x]
    BY <2>1, <2>2 DEF m1, l1
  <2>4. SubSeq(u, k, m1) = SubSeq(t, p, l1)
    <3>1. Same(u, k, m1, t, p, l1)
      BY <1>1, <2>3 DEF Same
    <3>2. Sub(u, k, m1) = Sub(t, p, l1)
      BY <3>1, SubAligned
    <3> QED BY <3>2 DEF Sub
  <2> QED BY <2>4 DEF m1, l1
<1>6. SubSeq(t, 1, p - 1) \o SubSeq(t, p, l - 1) = SubSeq(t, 1, l - 1)
  BY <1>1, Cut
<1>7. Env!Expansion(u, vs) = SubSeq(t, 1, l - 1) \o e[m]
  <2>1. SubSeq(t, 1, p - 1) \in Text /\ SubSeq(t, p, l - 1) \in Text
    <3>1. p - 1 \in Int /\ p - 1 <= Len(t) /\ l - 1 \in Int /\ l - 1 <= Len(t) /\ 1 \in Nat \ {0}
      BY <1>1
    <3> QED BY <1>1, <3>1, SubIs
  <2>2. e[m] \in Text
    <3>1. m \in 1..(Len(u) + 3)
      BY <1>1, <1>2
    <3> QED BY <1>1, <3>1, ExpanderType DEF e
  <2> DEFINE a == SubSeq(t, 1, p - 1)
             b == SubSeq(t, p, l - 1)
  <2> HIDE DEF a, b
  <2>3. Env!Expansion(u, vs) = a \o (b \o e[m]) /\ a \o b = SubSeq(t, 1, l - 1)
    BY <1>1, <1>4, <1>5, <1>6 DEF a, b
  <2>4. (a \o b) \o e[m] = a \o (b \o e[m])
    BY <2>1, <2>2, Concat3 DEF a, b
  <2> QED BY <2>3, <2>4
<1>8. ASSUME NEW x \in Nat, l + x <= Len(t) PROVE t[l + x] = u[m + x]
  <2> DEFINE y == (l - p) + x
  <2>1. y \in Nat /\ p + y = l + x /\ k + y = m + x
    BY <1>1 DEF m
  <2> HIDE DEF y
  <2>2. p + y <= Len(t)
    BY <1>8, <2>1
  <2>3. t[p + y] = u[k + y]
    BY <1>1, <2>1, <2>2
  <2> QED BY <2>1, <2>3
<1>9. l \in Nat \ {0} /\ m \in Nat \ {0}
  BY <1>1, <1>2
<1> QED BY <1>1, <1>2, <1>7, <1>8, <1>9 DEF Along, m, e

(* At the end of the line the whole of it is done. *)
LEMMA AlongEnd ==
    ASSUME NEW t, NEW p, NEW u, NEW k, NEW vs, Along(t, p, u, k, vs), Values(vs),
           Env!Find(t, "$", p) \in {0, Len(t)}
    PROVE  t = Env!Expansion(u, vs)
<1> DEFINE f == Env!Find(t, "$", p)
           l == Len(t) + 1
<1>1. t \in Text /\ u \in Text /\ p \in Nat \ {0} /\ p <= l /\ Len(t) \in Nat /\ l \in Nat /\ Len(u) \in Nat
      /\ k + (l - p) = Len(u) + 1
  BY ElementOf DEF Along
<1>2. /\ f \in Nat
      /\ f = 0 => \A x \in Int : p <= x /\ x <= Len(t) => t[x] # "$"
      /\ f # 0 => \A x \in Int : p <= x /\ x < f => t[x] # "$"
  BY <1>1, FindIs
<1> HIDE DEF f
<1>3. f = 0 \/ f = Len(t)
  BY DEF f
<1>4. ASSUME NEW x \in Int, p <= x, x < l PROVE t[x] # "$" \/ x = Len(t)
  BY <1>1, <1>2, <1>3, <1>4
<1>5. Along(t, l, u, k + (l - p), vs)
  <2>1. l <= Len(t) + 1
    BY <1>1
  <2> HIDE DEF l
  <2> QED BY <1>1, <1>4, <2>1, Advance
<1>6. Env!Expansion(u, vs) = SubSeq(t, 1, Len(t)) \o Expander(u, vs)[Len(u) + 1]
  <2>1. l - 1 = Len(t)
    BY <1>1
  <2> HIDE DEF l
  <2> QED BY <1>1, <1>5, <2>1 DEF Along
<1>7. Expander(u, vs)[Len(u) + 1] = <<>>
  <2> DEFINE x == Len(u) + 1
  <2>1. x \in 1..(Len(u) + 3) /\ x > Len(u)
    BY <1>1
  <2> HIDE DEF x
  <2>2. Expander(u, vs)[x] = Body(u, vs, Expander(u, vs), x)
    BY <1>1, <2>1, ExpanderIs
  <2>3. Expander(u, vs)[x] = <<>>
    BY <2>1, <2>2, Zenon DEF Body
  <2> QED BY <2>3 DEF x
<1>8. SubSeq(t, 1, Len(t)) = t
  BY <1>1, SubSeqFull DEF Text
<1> QED BY <1>1, <1>6, <1>7, <1>8, NoText

(* What Splice puts in counts as done, and what it cuts out as read. *)
LEMMA SpliceKeeps ==
    ASSUME NEW t, NEW f, NEW u, NEW g, NEW vs, Along(t, f, u, g, vs), Values(vs),
           NEW last \in Nat, f <= last, last <= Len(t), NEW v \in Text,
           Expander(u, vs)[g] = v \o Expander(u, vs)[g + (last + 1 - f)]
    PROVE  Along(SubSeq(t, 1, f - 1) \o v \o Env!From(t, last + 1), f + Len(v), u, g + (last + 1 - f), vs)
<1> DEFINE a == SubSeq(t, 1, f - 1)
           b == SubSeq(t, last + 1, Len(t))
           w == (a \o v) \o b
           m == g + (last + 1 - f)
           q == f + Len(v)
           e == Expander(u, vs)
<1>1. /\ t \in Text /\ u \in Text /\ f \in Nat \ {0} /\ g \in Nat \ {0}
      /\ f <= Len(t) + 1 /\ g <= Len(u) + 1 /\ Len(t) - f = Len(u) - g
      /\ \A x \in Nat : f + x <= Len(t) => t[f + x] = u[g + x]
      /\ Env!Expansion(u, vs) = a \o e[g]
      /\ Len(t) \in Nat /\ Len(u) \in Nat /\ Len(v) \in Nat
  BY ElementOf DEF Along
<1>2. a \in Text /\ Len(a) = f - 1
  <2>1. f - 1 \in Int /\ f - 1 <= Len(t) /\ 1 \in Nat \ {0}
    BY <1>1
  <2> QED BY <1>1, <2>1, SubIs
<1>3. /\ b \in Text /\ Len(b) = Len(t) - last
      /\ \A x \in 1..(Len(t) - last) : b[x] = t[last + x]
  <2>1. last + 1 \in Nat \ {0} /\ Len(t) \in Int /\ Len(t) <= Len(t)
    BY <1>1
  <2>2. /\ b \in Text /\ Len(b) = IF last + 1 <= Len(t) THEN Len(t) - (last + 1) + 1 ELSE 0
        /\ \A x \in 1..(Len(t) - (last + 1) + 1) : b[x] = t[last + 1 + x - 1]
    BY <1>1, <2>1, SubIs, SMTT(60)
  <2> HIDE DEF b
  <2>3. Len(b) = Len(t) - last /\ Len(t) - (last + 1) + 1 = Len(t) - last
    BY <1>1, <2>2
  <2>4. ASSUME NEW x \in 1..(Len(t) - last) PROVE b[x] = t[last + x]
    <3>1. last + 1 + x - 1 = last + x /\ x \in 1..(Len(t) - (last + 1) + 1)
      BY <1>1, <2>3
    <3>2. b[x] = t[last + 1 + x - 1]
      BY <2>2, <3>1
    <3> QED BY <3>1, <3>2
  <2> QED BY <2>2, <2>3, <2>4
<1> HIDE DEF a, b
<1>4. /\ a \o v \in Text /\ Len(a \o v) = q - 1 /\ q \in Nat \ {0}
      /\ w \in Text /\ Len(w) = q - 1 + (Len(t) - last)
      /\ \A x \in 1..(q - 1) : w[x] = (a \o v)[x]
      /\ \A x \in 1..(Len(t) - last) : w[q - 1 + x] = b[x]
  <2>1. a \o v \in Text /\ Len(a \o v) = q - 1 /\ q \in Nat \ {0}
    <3>1. a \o v \in Text /\ Len(a \o v) = Len(a) + Len(v)
      BY <1>2, Concat
    <3>2. Len(a) + Len(v) = q - 1 /\ q \in Nat \ {0}
      BY <1>1, <1>2
    <3> QED BY <3>1, <3>2
  <2> DEFINE c == a \o v
  <2> HIDE DEF c, q
  <2>2. /\ c \o b \in Text /\ Len(c \o b) = Len(c) + Len(b)
        /\ \A x \in 1..(Len(c) + Len(b)) : (c \o b)[x] = IF x <= Len(c) THEN c[x] ELSE b[x - Len(c)]
    BY <1>3, <2>1, Concat DEF c
  <2>3. Len(c) = q - 1 /\ w = c \o b
    BY <2>1 DEF c
  <2> HIDE DEF w
  <2>4. \A x \in 1..(q - 1) : w[x] = c[x]
    BY <1>1, <1>3, <2>1, <2>2, <2>3
  <2>5. ASSUME NEW x \in 1..(Len(t) - last) PROVE w[q - 1 + x] = b[x]
    <3> DEFINE y == q - 1 + x
    <3>1. y \in 1..(Len(c) + Len(b)) /\ ~(y <= Len(c)) /\ y - Len(c) = x
      BY <1>1, <1>3, <2>1, <2>3, SMTT(60)
    <3> HIDE DEF y
    <3>2. w[y] = b[x]
      BY <2>2, <2>3, <3>1
    <3> QED BY <3>2 DEF y
  <2> QED BY <1>3, <2>1, <2>2, <2>3, <2>4, <2>5 DEF c
<1> HIDE DEF w, e
<1>5. m \in Nat \ {0} /\ m <= Len(u) + 1 /\ Len(u) - m = Len(t) - last - 1 /\ e[m] \in Text
  <2>1. m \in Nat \ {0} /\ m <= Len(u) + 1 /\ Len(u) - m = Len(t) - last - 1 /\ m \in 1..(Len(u) + 3)
    BY <1>1
  <2> HIDE DEF m
  <2>2. e[m] \in Text
    BY <1>1, <2>1, ExpanderType DEF e
  <2> QED BY <2>1, <2>2
<1>6. Len(w) - q = Len(u) - m /\ q <= Len(w) + 1
  <2> HIDE DEF q, m
  <2>1. q \in Int /\ Len(w) = q - 1 + (Len(t) - last)
    BY <1>4
  <2>2. m \in Int /\ Len(u) - m = Len(t) - last - 1 /\ Len(t) \in Int /\ Len(u) \in Int
    BY <1>1, <1>5
  <2> QED BY ONLY <2>1, <2>2, last \in Nat, last <= Len(t)
<1>7. ASSUME NEW x \in Nat, q + x <= Len(w) PROVE w[q + x] = u[m + x]
  <2> DEFINE y == last + 1 - f + x
             z == x + 1
  <2>1. /\ z \in 1..(Len(t) - last) /\ q - 1 + z = q + x
        /\ y \in Nat /\ f + y = last + z /\ g + y = m + x /\ f + y <= Len(t)
    <3> HIDE DEF q
    <3> QED BY <1>1, <1>4, <1>7 DEF m
  <2> HIDE DEF y, z
  <2>2. w[q - 1 + z] = b[z] /\ b[z] = t[last + z]
    BY <1>3, <1>4, <2>1
  <2>3. t[f + y] = u[g + y]
    BY <1>1, <2>1
  <2> QED BY <2>1, <2>2, <2>3
<1>8. SubSeq(w, 1, q - 1) = a \o v
  <2> DEFINE c == a \o v
             r == q - 1
  <2> HIDE DEF c
  <2>1. r \in Nat /\ r <= Len(w) /\ 1 \in Nat \ {0} /\ r - 1 + 1 = r /\ r \in Int
    <3> HIDE DEF q
    <3> QED BY <1>1, <1>4
  <2> HIDE DEF r
  <2>2. c \in Text /\ Len(c) = r /\ w \in Text /\ \A x \in 1..r : w[x] = c[x]
    BY <1>4 DEF c, r
  <2>3. /\ SubSeq(w, 1, r) \in Text /\ Len(SubSeq(w, 1, r)) = IF 1 <= r THEN r - 1 + 1 ELSE 0
        /\ \A x \in 1..(r - 1 + 1) : SubSeq(w, 1, r)[x] = w[1 + x - 1]
    BY <2>1, <2>2, SubIs
  <2> DEFINE d == SubSeq(w, 1, r)
  <2> HIDE DEF d
  <2>4. d \in Text /\ Len(d) = r
    BY <2>1, <2>3 DEF d
  <2>5. \A x \in 1..r : d[x] = w[x]
    <3>1. TAKE x \in 1..r
    <3>2. x \in 1..(r - 1 + 1) /\ 1 + x - 1 = x
      BY <2>1
    <3> QED BY <2>3, <3>2 DEF d
  <2>6. d = c
    BY <2>2, <2>4, <2>5, SeqEqual DEF Text
  <2> QED BY <2>6 DEF d, c, r
<1>9. Env!Expansion(u, vs) = (a \o v) \o e[m]
  <2>1. e[g] = v \o e[m]
    BY DEF e
  <2> HIDE DEF m
  <2>2. (a \o v) \o e[m] = a \o (v \o e[m])
    BY <1>2, <1>5, Concat3
  <2> QED BY <1>1, <2>1, <2>2
<1>10. Along(w, q, u, m, vs)
  <2> HIDE DEF q, m
  <2> QED BY <1>1, <1>4, <1>5, <1>6, <1>7, <1>8, <1>9 DEF Along, e
<1> QED BY <1>10 DEF a, b, w, Env!From

(* One turn of the loop keeps up with what the line means. *)
LEMMA TurnKeeps ==
    ASSUME NEW t, NEW p, NEW u, NEW k, NEW vs, Along(t, p, u, k, vs), Values(vs),
           NEW f, f = Env!Find(t, "$", p), f # 0, f # Len(t)
    PROVE  \E m : Along(Env!Turn(t, f, vs).line, Env!Turn(t, f, vs).pos, u, m, vs)
<1> DEFINE g == k + (f - p)
           e == Expander(u, vs)
<1>1. /\ t \in Text /\ u \in Text /\ p \in Nat \ {0} /\ k \in Nat \ {0}
      /\ p <= Len(t) + 1 /\ Len(t) \in Nat /\ Len(u) \in Nat
  BY ElementOf DEF Along
<1>2. /\ f \in Nat \ {0} /\ p <= f /\ f < Len(t) /\ t[f] = "$"
      /\ \A x \in Int : p <= x /\ x < f => t[x] # "$"
  BY <1>1, FindIs
<1>3. Along(t, f, u, g, vs)
  <2>1. f \in Nat /\ f <= Len(t) + 1 /\ \A x \in Int : p <= x /\ x < f => t[x] # "$" \/ x = Len(t)
    BY <1>1, <1>2
  <2> HIDE DEF g
  <2> QED BY <1>2, <2>1, Advance DEF g
<1> HIDE DEF g, e
<1>4. /\ g \in Nat \ {0} /\ Len(t) - f = Len(u) - g /\ \A x \in Nat : f + x <= Len(t) => t[f + x] = u[g + x]
  BY <1>3 DEF Along
<1>5. g < Len(u) /\ u[g] = "$" /\ u[g + 1] = t[f + 1] /\ g \in 1..(Len(u) + 3)
  <2>1. f + 0 <= Len(t) /\ f + 1 <= Len(t) /\ f + 0 = f /\ g + 0 = g
    BY <1>1, <1>2, <1>4
  <2>2. t[f + 0] = u[g + 0] /\ t[f + 1] = u[g + 1]
    BY <1>4, <2>1
  <2>3. g < Len(u)
    BY <1>1, <1>2, <1>4
  <2> QED BY <1>1, <1>2, <1>4, <2>1, <2>2, <2>3, SMTT(60)
<1>6. e[g] = Body(u, vs, e, g) /\ ~(g > Len(u)) /\ ~(u[g] # "$" \/ g = Len(u))
  <2>1. e[g] = Body(u, vs, e, g)
    BY <1>1, <1>5, ExpanderIs DEF e
  <2> QED BY <1>1, <1>4, <1>5, <2>1
<1>7. t = SubSeq(t, 1, f - 1) \o (<<"$">> \o SubSeq(t, f + 1, Len(t)))
  <2>1. SubSeq(t, f, Len(t)) = <<t[f]>> \o SubSeq(t, f + 1, Len(t))
    <3>1. Len(t) \in f..Len(t) /\ f \in 1..Len(t)
      BY <1>1, <1>2
    <3> QED BY <1>1, <3>1, SubSeqRecursiveFirst DEF Text
  <2> DEFINE l == Len(t) + 1
  <2>2. l \in Nat /\ f <= l /\ l <= Len(t) + 1 /\ l - 1 = Len(t)
    BY <1>1, <1>2
  <2> HIDE DEF l
  <2>3. SubSeq(t, 1, f - 1) \o SubSeq(t, f, l - 1) = SubSeq(t, 1, l - 1)
    BY <1>1, <1>2, <2>2, Cut
  <2>4. SubSeq(t, 1, Len(t)) = t
    BY <1>1, SubSeqFull DEF Text
  <2> QED BY <1>2, <2>1, <2>2, <2>3, <2>4
<1>8. SubSeq(t, 1, f - 1) \in Text /\ SubSeq(t, f + 1, Len(t)) \in Text
  <2>1. f - 1 \in Int /\ f - 1 <= Len(t) /\ 1 \in Nat \ {0} /\ f + 1 \in Nat \ {0} /\ Len(t) \in Int /\ Len(t) <= Len(t)
    BY <1>1, <1>2
  <2> QED BY <1>1, <2>1, SubIs
<1> DEFINE after == Env!Turn(t, f, vs)
           end == IF t[f + 1] = "{" THEN Env!Find(t, "}", f + 2) ELSE Len(t)
           name == IF t[f + 1] = "{" THEN SubSeq(t, f + 2, end - 1) ELSE Env!From(t, f + 1)
           done(last, v) == Along(SubSeq(t, 1, f - 1) \o v \o Env!From(t, last + 1), f + Len(v), u,
                                  g + (last + 1 - f), vs)
<1>9. CASE t[f + 1] = "\\"
  <2> DEFINE v == <<"\\">>
             l == f + 1
  <2>1. l \in Nat /\ f <= l /\ l <= Len(t) /\ g + (l + 1 - f) = g + 2 /\ v \in Text /\ Len(v) = 1
    <3>1. v \in Text /\ Len(v) = 1
      BY Specials, OneCharacter, Zenon
    <3> HIDE DEF v
    <3> QED BY <1>1, <1>2, <1>4, <3>1, SMTT(60)
  <2>2. e[g] = v \o e[g + 2]
    BY <1>5, <1>6, <1>9, Zenon DEF Body
  <2>3. SubSeq(t, f + 1, Len(t)) = v \o SubSeq(t, l + 1, Len(t))
    <3>1. Len(t) \in l..Len(t) /\ l \in 1..Len(t) /\ t[l] = "\\"
      BY <1>1, <1>2, <1>9
    <3> QED BY <1>1, <3>1, SubSeqRecursiveFirst DEF Text
  <2>4. SubSeq(t, l + 1, Len(t)) \in Text
    <3>1. l + 1 \in Nat \ {0} /\ Len(t) \in Int /\ Len(t) <= Len(t)
      BY <1>1, <1>2
    <3> QED BY <1>1, <3>1, SubIs
  <2>5. done(l, v)
    <3> HIDE DEF v, l
    <3> QED BY <1>3, <2>1, <2>2, SpliceKeeps DEF e
  <2>6. after.line = SubSeq(t, 1, f - 1) \o SubSeq(t, f + 1, Len(t)) /\ after.pos = f + 1
    BY <1>9 DEF Env!Turn, Env!RemoveAt
  <2> HIDE DEF v, l
  <2>7. after.line = (SubSeq(t, 1, f - 1) \o v) \o Env!From(t, l + 1)
    <3>1. (SubSeq(t, 1, f - 1) \o v) \o SubSeq(t, l + 1, Len(t)) = SubSeq(t, 1, f - 1) \o (v \o SubSeq(t, l + 1, Len(t)))
      BY <1>8, <2>1, <2>4, Concat3, ZenonT(60)
    <3> QED BY <2>3, <2>6, <3>1 DEF Env!From
  <2>8. after.pos = f + Len(v)
    BY <2>1, <2>6
  <2> QED BY <2>5, <2>7, <2>8
<1>10. CASE t[f + 1] # "\\" /\ end = 0
  <2>1. t[f + 1] = "{" /\ Env!Find(t, "}", f + 2) = 0
    <3>1. t[f + 1] # "{" => end = Len(t)
      OBVIOUS
    <3>2. Len(t) # 0
      BY <1>1, <1>2
    <3>3. t[f + 1] = "{"
      BY ONLY <1>10, <3>1, <3>2, Zenon
    <3> QED BY ONLY <1>10, <3>3
  <2>2. Env!Find(u, "}", g + 2) = 0
    <3> DEFINE a == f + 2
               b == g + 2
    <3>1. a \in Nat \ {0} /\ b \in Nat \ {0} /\ Len(t) - a = Len(u) - b
      BY <1>1, <1>2, <1>4, SMTT(60)
    <3>2. ASSUME NEW x \in Nat, a + x <= Len(t) PROVE t[a + x] = u[b + x]
      <4> DEFINE y == x + 2
      <4>1. y \in Nat /\ f + y = a + x /\ g + y = b + x
        BY <1>2, <1>4
      <4> HIDE DEF a, b, y
      <4>2. t[f + y] = u[g + y]
        BY <1>4, <3>2, <4>1
      <4> QED BY <4>1, <4>2
    <3> HIDE DEF a, b
    <3>3. Env!Find(t, "}", a) = 0 <=> Env!Find(u, "}", b) = 0
      <4>1. Same(t, a, Len(t), u, b, Len(u))
        BY <1>1, <3>1, <3>2 DEF Same
      <4> DEFINE c == "}"
      <4> HIDE DEF c
      <4>2. Env!Find(t, c, a) = 0 <=> Env!Find(u, c, b) = 0
        BY <4>1, FindAligned
      <4> QED BY <4>2 DEF c
    <3> QED BY <2>1, <3>3 DEF a, b
  <2>3. e[g] = <<"$">> \o e[g + 1]
    <3>1. u[g + 1] # "\\" /\ ~(u[g + 1] # "{")
      BY <1>5, <1>10, <2>1, Zenon
    <3> QED BY <1>6, <2>2, <3>1, Zenon DEF Body
  <2>4. after.line = t /\ after.pos = f + 1
    BY <1>10, <2>1 DEF Env!Turn
  <2> DEFINE v == <<"$">>
  <2>5. v \in Text /\ Len(v) = 1 /\ f \in Nat /\ f <= f /\ f <= Len(t) /\ g + (f + 1 - f) = g + 1
    BY <1>1, <1>2, <1>4, Specials, OneCharacter, SMTT(60)
  <2>6. t = SubSeq(t, 1, f - 1) \o v \o Env!From(t, f + 1)
    <3> HIDE DEF v
    <3>1. (SubSeq(t, 1, f - 1) \o v) \o SubSeq(t, f + 1, Len(t)) = SubSeq(t, 1, f - 1) \o (v \o SubSeq(t, f + 1, Len(t)))
      BY <1>8, <2>5, Concat3
    <3> QED BY <1>7, <3>1 DEF Env!From, v
  <2> HIDE DEF v
  <2>7. done(f, v)
    BY <1>3, <2>3, <2>5, SpliceKeeps DEF e, v
  <2> QED BY <2>4, <2>5, <2>6, <2>7
<1>11. CASE t[f + 1] # "\\" /\ end # 0
  <2> DEFINE v == Env!ValueOf(vs, name)
  <2>1. after.line = SubSeq(t, 1, f - 1) \o v \o Env!From(t, end + 1) /\ after.pos = f + Len(v)
    BY <1>11 DEF Env!Turn, Env!Splice
  <2>2. v \in Text
    BY ValueIsText
  <2>3. /\ end \in Nat /\ f <= end /\ end <= Len(t)
        /\ e[g] = v \o e[g + (end + 1 - f)]
    <3>1. CASE t[f + 1] = "{"
      <4> DEFINE a == f + 2
                 b == g + 2
                 close == Env!Find(u, "}", b)
      <4>1. a \in Nat \ {0} /\ b \in Nat \ {0} /\ Len(t) - a = Len(u) - b
        BY <1>1, <1>2, <1>4, SMTT(60)
      <4>2. ASSUME NEW x \in Nat, a + x <= Len(t) PROVE t[a + x] = u[b + x]
        <5> DEFINE y == x + 2
        <5>1. y \in Nat /\ f + y = a + x /\ g + y = b + x
          BY <1>2, <1>4
        <5> HIDE DEF a, b, y
        <5>2. t[f + y] = u[g + y]
          BY <1>4, <4>2, <5>1
        <5> QED BY <5>1, <5>2
      <4>3. end = Env!Find(t, "}", a) /\ name = SubSeq(t, a, end - 1)
        BY <3>1
      <4>4. close # 0 /\ end - a = close - b
        <5> HIDE DEF a, b, end
        <5>1. (Env!Find(t, "}", a) = 0 <=> close = 0) /\ (Env!Find(t, "}", a) # 0 => Env!Find(t, "}", a) - a = close - b)
          <6>1. Same(t, a, Len(t), u, b, Len(u))
            BY <1>1, <4>1, <4>2 DEF Same
          <6> DEFINE c == "}"
          <6> HIDE DEF c
          <6>2. (Env!Find(t, c, a) = 0 <=> Env!Find(u, c, b) = 0) /\ (Env!Find(t, c, a) # 0 => Env!Find(t, c, a) - a = Env!Find(u, c, b) - b)
            BY <6>1, FindAligned
          <6> QED BY <6>2 DEF c
        <5> QED BY <1>11, <4>3, <5>1
      <4>5. end \in Nat /\ a <= end /\ end <= Len(t) /\ close \in Nat /\ b <= close /\ close <= Len(u)
        <5> HIDE DEF a, b, end
        <5> QED BY <1>1, <1>11, <4>1, <4>3, <4>4, FindIs
      <4>6. SubSeq(u, b, close - 1) = name
        <5> DEFINE c == close - 1
                   d == end - 1
        <5> HIDE DEF a, b, end, close
        <5>1. c \in Int /\ d \in Int /\ c <= Len(u) /\ d <= Len(t) /\ d - a = c - b
          BY <1>1, <4>1, <4>4, <4>5
        <5> HIDE DEF c, d
        <5>2. ASSUME NEW x \in Nat, a + x <= d PROVE t[a + x] = u[b + x]
          <6>1. a + x <= Len(t)
            BY <1>1, <4>1, <5>1, <5>2
          <6> QED BY <4>2, <6>1
        <5>3. Same(t, a, d, u, b, c)
          BY <1>1, <4>1, <5>1, <5>2 DEF Same
        <5>4. Sub(t, a, d) = Sub(u, b, c)
          BY <5>3, SubAligned
        <5> QED BY <4>3, <5>4 DEF Sub, c, d
      <4>7. e[g] = v \o e[close + 1]
        <5>1. u[g + 1] # "\\" /\ ~(u[g + 1] # "{")
          BY <1>5, <1>11, <3>1, Zenon
        <5>2. e[g] = Env!ValueOf(vs, SubSeq(u, b, close - 1)) \o e[close + 1]
          BY <1>6, <4>4, <5>1, Zenon DEF Body
        <5> QED BY <4>6, <5>2
      <4>8. g + (end + 1 - f) = close + 1 /\ f <= end
        <5>1. f \in Int /\ g \in Int /\ end - (f + 2) = close - (g + 2) /\ end \in Int /\ close \in Int /\ f + 2 <= end
          <6> HIDE DEF end, close
          <6> QED BY <1>2, <1>4, <4>4, <4>5
        <5> HIDE DEF end, close
        <5> QED BY ONLY <5>1
      <4> HIDE DEF end, close, v
      <4> QED BY <4>5, <4>7, <4>8
    <3>2. CASE t[f + 1] # "{"
      <4>1. end = Len(t) /\ name = Env!From(t, f + 1)
        BY <3>2
      <4>2. Env!From(u, g + 1) = Env!From(t, f + 1)
        <5> DEFINE a == f + 1
                   b == g + 1
        <5>1. a \in Nat \ {0} /\ b \in Nat \ {0} /\ Len(t) - a = Len(u) - b
          BY <1>1, <1>2, <1>4, SMTT(60)
        <5>2. ASSUME NEW x \in Nat, a + x <= Len(t) PROVE t[a + x] = u[b + x]
          <6> DEFINE y == x + 1
          <6>1. y \in Nat /\ f + y = a + x /\ g + y = b + x
            BY <1>2, <1>4
          <6> HIDE DEF a, b, y
          <6>2. t[f + y] = u[g + y]
            BY <1>4, <5>2, <6>1
          <6> QED BY <6>1, <6>2
        <5> HIDE DEF a, b
        <5>3. Same(t, a, Len(t), u, b, Len(u))
          BY <1>1, <5>1, <5>2 DEF Same
        <5>4. Sub(t, a, Len(t)) = Sub(u, b, Len(u))
          BY <5>3, SubAligned
        <5> QED BY <5>4 DEF Sub, a, b, Env!From
      <4>3. e[g] = v
        <5>1. u[g + 1] # "\\" /\ u[g + 1] # "{"
          BY <1>5, <1>11, <3>2, Zenon
        <5>2. e[g] = Env!ValueOf(vs, Env!From(u, g + 1))
          BY <1>6, <5>1, Zenon DEF Body
        <5> QED BY <4>1, <4>2, <5>2
      <4>4. g + (end + 1 - f) = Len(u) + 1
        <5> HIDE DEF end, name
        <5>1. f \in Int /\ g \in Int /\ Len(t) \in Int /\ Len(u) \in Int /\ Len(t) - f = Len(u) - g /\ end = Len(t)
          BY <1>1, <1>2, <1>4, <4>1
        <5> QED BY ONLY <5>1
      <4>5. e[Len(u) + 1] = <<>>
        <5> DEFINE x == Len(u) + 1
        <5>1. x \in 1..(Len(u) + 3) /\ x > Len(u)
          BY <1>1
        <5> HIDE DEF x
        <5>2. e[x] = Body(u, vs, e, x)
          BY <1>1, <5>1, ExpanderIs DEF e
        <5>3. e[x] = <<>>
          BY <5>1, <5>2, Zenon DEF Body
        <5> QED BY <5>3 DEF x
      <4>6. v \o <<>> = v
        <5> HIDE DEF v
        <5> QED BY <2>2, NoText
      <4>7. end \in Nat /\ f <= end /\ end <= Len(t)
        <5> HIDE DEF end, name
        <5> QED BY <1>1, <1>2, <4>1
      <4> HIDE DEF end, v
      <4> QED BY <4>3, <4>4, <4>5, <4>6, <4>7
    <3> QED BY <3>1, <3>2
  <2> HIDE DEF v, end, name
  <2>4. done(end, v)
    BY <1>3, <2>2, <2>3, SpliceKeeps DEF e
  <2> QED BY <2>1, <2>4
<1> QED BY <1>9, <1>10, <1>11

-----------------------------------------------------------------------------
(* What the lines of a file assign, one after the other.                    *)

Full(vs) == vs \in [DOMAIN vs -> Text \ {<<>>}]

LEMMA FullAreValues == \A vs : Full(vs) => Values(vs)
BY DEF Full, Values

LEMMA FromIs ==
    ASSUME NEW t \in Text, NEW a \in Nat \ {0}
    PROVE  Env!From(t, a) \in Text
<1>1. Len(t) \in Int /\ Len(t) <= Len(t)
  BY ElementOf
<1>2. SubSeq(t, a, Len(t)) \in Text
  BY <1>1, SubIs
<1> QED BY <1>2 DEF Env!From

LEMMA SkipIs == ASSUME NEW t \in Text PROVE Env!SkipWs(t) \in Text
<1> DEFINE at == {x \in 1..Len(t) : t[x] # " "}
<1>1. Env!SkipWs(t) = IF at = {} THEN <<>> ELSE Env!From(t, Env!Min(at))
  BY Zenon DEF Env!SkipWs
<1>2. at \in SUBSET (1..Len(t))
  BY Zenon
<1> HIDE DEF at
<1>3. CASE at = {}
  BY <1>1, <1>3, NoText
<1>4. CASE at # {}
  <2>1. at \in SUBSET Nat
    BY <1>2, ElementOf
  <2>2. \E n \in at : \A m \in at : n <= m
    BY <1>4, <2>1, LeastNat
  <2>3. Env!Min(at) \in at
    BY <2>2 DEF Env!Min
  <2>4. Env!Min(at) \in Nat \ {0}
    <3>1. Len(t) \in Nat /\ Env!Min(at) \in 1..Len(t)
      BY <1>2, <2>3, ElementOf
    <3> QED BY ONLY <3>1
  <2> QED BY <1>1, <1>4, <2>4, FromIs
<1> QED BY <1>3, <1>4

LEMMA ParseIs ==
    ASSUME NEW t \in Text, NEW vs, Full(vs)
    PROVE  Full(Env!parseLine(t, vs))
<1> DEFINE s == Env!SkipWs(t)
           eq == Env!Find(s, "=", 1)
           v == Env!SkipWs(Env!From(s, eq + 1))
           key == SubSeq(s, 1, eq - 1)
           ws == [name \in DOMAIN vs \union {key} |-> IF name = key THEN v ELSE vs[name]]
<1>1. Env!parseLine(t, vs) = IF eq = 0 \/ v = <<>> THEN vs ELSE ws
  BY Zenon DEF Env!parseLine
<1>2. s \in Text
  BY SkipIs
<1> HIDE DEF s
<1>3. eq \in Nat
  <2> DEFINE c == "="
  <2> HIDE DEF c
  <2>1. Env!Find(s, c, 1) \in Nat
    BY <1>2, FindIs
  <2> QED BY <2>1 DEF c
<1> HIDE DEF eq
<1>4. v \in Text
  <2>1. eq + 1 \in Nat \ {0}
    BY <1>3
  <2>2. Env!From(s, eq + 1) \in Text
    BY <1>2, <2>1, FromIs
  <2> QED BY <2>2, SkipIs
<1> HIDE DEF v, key
<1>5. v # <<>> => Full(ws)
  BY <1>4 DEF Full
<1> HIDE DEF ws
<1> QED BY <1>1, <1>5

LEMMA ExpansionType ==
    ASSUME NEW t \in Text, NEW vs, Values(vs)
    PROVE  Env!Expansion(t, vs) \in Text
<1>1. 1 \in 1..(Len(t) + 3)
  BY ElementOf
<1> QED BY <1>1, ExpansionIs, ExpanderType

LEMMA HeadIs == ASSUME NEW S, NEW t \in Seq(S), NEW d PROVE Head(t \o <<d>>) = IF Len(t) # 0 THEN t[1] ELSE d
<1> DEFINE U == S \union {d}
<1>1. t \in Seq(U) /\ <<d>> \in Seq(U) /\ Len(<<d>>) = 1 /\ <<d>>[1] = d /\ Len(t) \in Nat
  OBVIOUS
<1> HIDE DEF U
<1>2. /\ t \o <<d>> \in Seq(U) /\ Len(t \o <<d>>) = Len(t) + 1
      /\ \A x \in 1..(Len(t) + 1) : (t \o <<d>>)[x] = IF x <= Len(t) THEN t[x] ELSE <<d>>[x - Len(t)]
  BY <1>1, ConcatProperties
<1>3. Head(t \o <<d>>) = (t \o <<d>>)[1]
  BY <1>1, <1>2
<1>4. CASE Len(t) = 0
  BY <1>1, <1>2, <1>3, <1>4
<1>5. CASE Len(t) # 0
  BY <1>1, <1>2, <1>3, <1>5
<1> QED BY <1>4, <1>5

LEMMA CommentIs ==
    ASSUME NEW t \in Text
    PROVE  Env!isComment(t) <=> Head(t \o <<"">>) = "#"
<1> DEFINE c == "#"
           f == Env!Find(t, c, 1)
<1>1. Len(t) \in Nat
  BY ElementOf
<1>2. c # ""
  BY Zenon
<1> HIDE DEF c
<1>3. /\ f \in Nat
      /\ f = 0 => \A x \in Int : 1 <= x /\ x <= Len(t) => t[x] # c
      /\ f # 0 => /\ 1 <= f /\ f <= Len(t) /\ t[f] = c
                  /\ \A x \in Int : 1 <= x /\ x < f => t[x] # c
  BY FindIs
<1> HIDE DEF f
<1>4. f = 1 <=> (Len(t) # 0 /\ t[1] = c)
  BY <1>1, <1>3
<1>5. Head(t \o <<"">>) = IF Len(t) # 0 THEN t[1] ELSE ""
  <2> DEFINE d == ""
  <2> HIDE DEF d
  <2>1. Head(t \o <<d>>) = IF Len(t) # 0 THEN t[1] ELSE d
    BY HeadIs DEF Text
  <2> QED BY <2>1 DEF d
<1>6. Env!isComment(t) <=> f = 1
  BY DEF Env!isComment, f, c
<1>7. (Head(t \o <<"">>) = c) <=> f = 1
  BY <1>2, <1>4, <1>5
<1> QED BY <1>6, <1>7 DEF c

LEMMA FilesAreTexts == \A f \in Files : f \in Seq(Text)
<1>1. \A t : t \in Seq(STRING) => t \in Seq(Char)
  BY DEF Char
<1> DEFINE S == Seq(STRING)
<1>2. \A t \in S : t \in Text
  BY <1>1 DEF Text
<1> HIDE DEF S
<1>3. \A f : f \in Seq(S) => f \in Seq(Text)
  BY <1>2
<1> QED BY <1>3, FilesAssumption DEF S

LineBody(c, e, n) ==
    IF n = 0 THEN Env!Empty
    ELSE IF Head(c[n] \o <<"">>) = "#" THEN e[n - 1]
    ELSE Env!parseLine(Env!Expansion(c[n], e[n - 1]), e[n - 1])

Lines(c) == CHOOSE e : e = [n \in 0..Len(c) |-> LineBody(c, e, n)]

LEMMA LastValueIs == LastValue = Env!ValueOf(Lines(content)[Len(content)], Key)
BY Zenon DEF LastValue, Lines, LineBody

LEMMA LineBodyLocal ==
    \A c, e, f, n : e[n - 1] = f[n - 1] => LineBody(c, e, n) = LineBody(c, f, n)
BY Zenon DEF LineBody

LEMMA LinesExist ==
    ASSUME NEW c, Len(c) \in Nat
    PROVE  \E e : e = [n \in 0..Len(c) |-> LineBody(c, e, n)]
<1> DEFINE L == Len(c)
           D == 0..L
           T == {m \in Nat : \E e : /\ e = [n \in D |-> e[n]]
                                    /\ \A n \in D : n < m => e[n] = LineBody(c, e, n)}
<1>1. 0 \in T
  <2> DEFINE e == [n \in D |-> <<>>]
  <2>1. e = [n \in D |-> e[n]] /\ \A n \in D : ~(n < 0)
    OBVIOUS
  <2> HIDE DEF D, e
  <2> QED BY <2>1
<1>2. ASSUME NEW m \in Nat, m \in T PROVE m + 1 \in T
  <2>1. PICK e : /\ e = [n \in D |-> e[n]]
                 /\ \A n \in D : n < m => e[n] = LineBody(c, e, n)
    BY <1>2
  <2> DEFINE f == [n \in D |-> IF n = m THEN LineBody(c, e, n) ELSE e[n]]
  <2>2. f = [n \in D |-> f[n]]
    OBVIOUS
  <2>3. \A n \in D : (n # m => f[n] = e[n]) /\ (n = m => f[n] = LineBody(c, e, n))
    OBVIOUS
  <2> HIDE DEF f
  <2>4. ASSUME NEW n \in D, n < m + 1 PROVE f[n] = LineBody(c, f, n)
    <3>1. f[n] = LineBody(c, e, n)
      BY <2>1, <2>3, <2>4
    <3>2. CASE n = 0
      BY <3>1, <3>2 DEF LineBody
    <3>3. CASE n # 0
      <4>1. n - 1 \in D /\ n - 1 # m
        BY <2>4, <3>3
      <4>2. e[n - 1] = f[n - 1]
        BY <2>3, <4>1
      <4> QED BY <3>1, <4>2, LineBodyLocal
    <3> QED BY <3>2, <3>3
  <2>5. m + 1 \in Nat
    OBVIOUS
  <2> HIDE DEF D
  <2> QED BY <2>2, <2>4, <2>5
<1>3. L + 1 \in T
  <2> HIDE DEF T
  <2>1. \A m \in Nat : m \in T
    BY <1>1, <1>2, NatInduct
  <2> QED BY <2>1
<1>4. PICK e : e = [n \in D |-> e[n]] /\ \A n \in D : n < L + 1 => e[n] = LineBody(c, e, n)
  BY <1>3
<1>5. \A n \in D : e[n] = LineBody(c, e, n)
  BY <1>4
<1> HIDE DEF D
<1>6. [n \in D |-> e[n]] = [n \in D |-> LineBody(c, e, n)]
  BY <1>5
<1>7. e = [n \in D |-> LineBody(c, e, n)]
  BY <1>4, <1>6
<1> QED BY <1>7 DEF D

LEMMA LinesIs ==
    ASSUME NEW c, Len(c) \in Nat
    PROVE  \A n \in 0..Len(c) : Lines(c)[n] = LineBody(c, Lines(c), n)
<1> DEFINE e == Lines(c)
<1>1. e = [n \in 0..Len(c) |-> LineBody(c, e, n)]
  BY LinesExist DEF Lines
<1> HIDE DEF e
<1> QED BY <1>1 DEF e

-----------------------------------------------------------------------------
(* Dotenv *)

(* How many lines have been read. *)
LinesRead == Len(content) - Len(file)

EnvType ==
    /\ content \in Seq(Text) /\ file \in Seq(Text)
    /\ LinesRead \in Nat /\ \A x \in 1..Len(file) : file[x] = content[LinesRead + x]
    /\ line \in Text /\ original \in Text
    /\ loading \in {"read", "expand", "parse", "done"}
    /\ Full(variables_)

(* The variables are what the lines before the present one assign, and the   *)
(* loop of expandVariables is on its way through that one.                  *)
LinesAssigned ==
    /\ loading \in {"read", "done"} => variables_ = Lines(content)[LinesRead]
    /\ loading = "done" => file = <<>>
    /\ loading \in {"expand", "parse"} =>
          /\ LinesRead # 0 /\ original = content[LinesRead] /\ ~Env!isComment(original)
          /\ variables_ = Lines(content)[LinesRead - 1]

LineExpanded ==
    /\ loading = "expand" => \E k : Along(line, pos, original, k, variables_)
    /\ loading = "parse" => line = Env!Expansion(original, variables_)

EnvInv == EnvType /\ LinesAssigned /\ LineExpanded

LEMMA EnvInit == Init => EnvInv
<1>1. SUFFICES ASSUME Init PROVE EnvInv
  OBVIOUS
<1>2. /\ file \in Files /\ content = file /\ line = <<>> /\ original = <<>> /\ loading = "read"
      /\ variables_ = Env!Empty
  BY <1>1 DEF Init, Env!Init
<1>3. content \in Seq(Text) /\ file \in Seq(Text) /\ Len(file) \in Nat
  BY <1>2, FilesAreTexts
<1>4. LinesRead = 0 /\ \A x \in 1..Len(file) : file[x] = content[0 + x]
  BY <1>2, <1>3 DEF LinesRead
<1>5. Full(variables_)
  BY <1>2 DEF Full, Env!Empty
<1>6. Lines(content)[0] = Env!Empty
  <2>1. Lines(content)[0] = LineBody(content, Lines(content), 0)
    BY <1>2, <1>3, LinesIs
  <2> QED BY <2>1 DEF LineBody
<1>7. EnvType
  BY <1>2, <1>3, <1>4, <1>5, NoText DEF EnvType
<1>8. LinesAssigned /\ LineExpanded
  BY <1>2, <1>4, <1>6 DEF LinesAssigned, LineExpanded
<1> QED BY <1>7, <1>8 DEF EnvInv

(* What a line that is no comment assigns. *)
LEMMA LineAssigns ==
    ASSUME EnvType, LinesRead # 0
    PROVE  LET n == LinesRead
           IN  Lines(content)[n] = IF Env!isComment(content[n]) THEN Lines(content)[n - 1]
                                   ELSE Env!parseLine(Env!Expansion(content[n], Lines(content)[n - 1]),
                                                      Lines(content)[n - 1])
<1> DEFINE n == LinesRead
           e == Lines(content)
<1>1. Len(content) \in Nat /\ n \in 1..Len(content) /\ content[n] \in Text
  <2>1. Len(content) \in Nat /\ Len(file) \in Nat
    BY DEF EnvType
  <2>2. n \in 1..Len(content)
    BY <2>1 DEF EnvType, LinesRead
  <2> QED BY <2>1, <2>2 DEF EnvType
<1> HIDE DEF n
<1>2. e[n] = LineBody(content, e, n) /\ n # 0
  BY <1>1, LinesIs
<1>3. Head(content[n] \o <<"">>) = "#" <=> Env!isComment(content[n])
  BY <1>1, CommentIs, Zenon
<1> HIDE DEF e
<1>4. e[n] = IF Env!isComment(content[n]) THEN e[n - 1] ELSE Env!parseLine(Env!Expansion(content[n], e[n - 1]), e[n - 1])
  BY <1>2, <1>3, Zenon DEF LineBody
<1> QED BY <1>4 DEF n, e

LEMMA ReadLineKeeps == ASSUME EnvInv, Env!ReadLine, content' = content PROVE EnvInv'
<1> DEFINE n == LinesRead
<1>1. /\ content \in Seq(Text) /\ file \in Seq(Text) /\ n \in Nat
      /\ \A x \in 1..Len(file) : file[x] = content[n + x]
      /\ Len(file) \in Nat /\ Len(content) \in Nat /\ n = Len(content) - Len(file)
  BY DEF EnvInv, EnvType, LinesRead
<1>2. loading = "read" /\ variables_' = variables_ /\ pos' = 1 /\ variables_ = Lines(content)[n]
  BY DEF Env!ReadLine, EnvInv, LinesAssigned
<1>3. CASE file = <<>>
  <2>1. loading' = "done" /\ file' = file /\ line' = line /\ original' = original
    BY <1>3 DEF Env!ReadLine
  <2>2. LinesRead' = LinesRead
    BY <2>1 DEF LinesRead
  <2>3. EnvType'
    BY <1>2, <2>1, <2>2 DEF EnvInv, EnvType
  <2>4. LinesAssigned' /\ LineExpanded'
    BY <1>2, <1>3, <2>1, <2>2 DEF LinesAssigned, LineExpanded
  <2> QED BY <2>3, <2>4 DEF EnvInv
<1>4. CASE file # <<>>
  <2> DEFINE m == n + 1
  <2>1. /\ file' = Tail(file) /\ line' = Head(file) /\ original' = Head(file)
        /\ loading' = IF Env!isComment(Head(file)) THEN "read" ELSE "expand"
    BY <1>4, Zenon DEF Env!ReadLine
  <2>2. /\ Tail(file) \in Seq(Text) /\ Len(Tail(file)) = Len(file) - 1 /\ Head(file) = file[1]
        /\ Head(file) \in Text /\ \A x \in 1..(Len(file) - 1) : Tail(file)[x] = file[x + 1]
        /\ Len(file) # 0
    BY <1>1, <1>4, HeadTailProperties
  <2>3. LinesRead' = m /\ m \in Nat /\ m # 0 /\ m - 1 = n
    <3>1. LinesRead' = Len(content) - (Len(file) - 1)
      BY <2>1, <2>2 DEF LinesRead
    <3> HIDE DEF n
    <3> QED BY ONLY <1>1, <3>1
  <2>4. Head(file) = content[m]
    BY <1>1, <2>2
  <2>5. ASSUME NEW x \in 1..Len(file)' PROVE file'[x] = content[m + x]
    <3> DEFINE y == x + 1
    <3>1. y \in 1..Len(file) /\ n + y = m + x /\ x \in 1..(Len(file) - 1)
      BY <1>1, <2>1, <2>2, <2>5
    <3> HIDE DEF y, m, n
    <3>2. file[y] = content[n + y]
      BY <1>1, <3>1
    <3> QED BY <2>1, <2>2, <3>1, <3>2 DEF y
  <2> HIDE DEF m, n
  <2>6. EnvType'
    <3>1. Full(variables_)'
      BY <1>2 DEF EnvInv, EnvType
    <3>2. loading' \in {"read", "expand", "parse", "done"}
      BY <2>1
    <3>3. LinesRead' \in Nat /\ \A x \in 1..Len(file)' : file'[x] = content'[LinesRead' + x]
      BY <2>3, <2>5
    <3> QED BY <1>1, <2>1, <2>2, <3>1, <3>2, <3>3 DEF EnvType
  <2>7. LinesAssigned'
    <3>1. CASE Env!isComment(Head(file))
      <4>1. loading' = "read"
        BY <2>1, <3>1
      <4>2. Lines(content)[m] = Lines(content)[m - 1]
        <5>1. Lines(content)[m] = LineBody(content, Lines(content), m)
          <6>1. m \in 0..Len(content)
            <7>1. Len(file) >= 1
              BY <1>1, <2>2
            <7> HIDE DEF n
            <7> QED BY <1>1, <7>1 DEF m
          <6> QED BY <1>1, <6>1, LinesIs
        <5>2. Head(content[m] \o <<"">>) = "#"
          BY <2>2, <2>4, <3>1, CommentIs, Zenon
        <5> QED BY <2>3, <5>1, <5>2, Zenon DEF LineBody
      <4> QED BY <1>2, <2>3, <4>1, <4>2 DEF LinesAssigned
    <3>2. CASE ~Env!isComment(Head(file))
      <4>1. loading' = "expand"
        BY <2>1, <3>2
      <4>2. ~Env!isComment(original')
        BY <2>1, <3>2
      <4> QED BY <1>2, <2>1, <2>3, <2>4, <4>1, <4>2 DEF LinesAssigned
    <3> QED BY <3>1, <3>2
  <2>8. LineExpanded'
    <3>1. Along(Head(file), 1, Head(file), 1, variables_)
      <4>1. Values(variables_)
        BY FullAreValues DEF EnvInv, EnvType
      <4> QED BY <2>2, <4>1, AlongStart
    <3>2. Along(line', pos', original', 1, variables_')
      BY <1>2, <2>1, <3>1
    <3>3. loading' # "parse"
      BY <2>1
    <3> QED BY <3>2, <3>3 DEF LineExpanded
  <2> QED BY <2>6, <2>7, <2>8 DEF EnvInv
<1> QED BY <1>3, <1>4

LEMMA ExpandKeeps == ASSUME EnvInv, Env!Expand, content' = content PROVE EnvInv'
<1> DEFINE p == Env!Find(line, "$", pos)
           turn == Env!Turn(line, p, variables_)
<1>1. /\ loading = "expand" /\ file' = file /\ variables_' = variables_ /\ original' = original
      /\ \/ p \in {0, Len(line)} /\ loading' = "parse" /\ line' = line
         \/ p \notin {0, Len(line)} /\ loading' = "expand" /\ line' = turn.line /\ pos' = turn.pos
  BY Zenon DEF Env!Expand
<1>2. PICK k : Along(line, pos, original, k, variables_)
  BY <1>1 DEF EnvInv, LineExpanded
<1>3. Values(variables_)
  BY FullAreValues DEF EnvInv, EnvType
<1>4. LinesRead' = LinesRead
  BY <1>1 DEF LinesRead
<1> HIDE DEF p, turn
<1>5. LinesAssigned'
  <2>1. loading' \in {"expand", "parse"}
    BY <1>1
  <2> QED BY <1>1, <1>4, <2>1 DEF EnvInv, LinesAssigned
<1>6. CASE p \in {0, Len(line)}
  <2>1. line = Env!Expansion(original, variables_)
    BY <1>2, <1>3, <1>6, AlongEnd DEF p
  <2>2. loading' = "parse" /\ line' = line
    BY <1>1, <1>6
  <2>3. LineExpanded'
    BY <1>1, <2>1, <2>2 DEF LineExpanded
  <2>4. EnvType'
    BY <1>1, <1>4, <2>2 DEF EnvInv, EnvType
  <2> QED BY <1>5, <2>3, <2>4 DEF EnvInv
<1>7. CASE p \notin {0, Len(line)}
  <2>1. loading' = "expand" /\ line' = turn.line /\ pos' = turn.pos
    BY <1>1, <1>7
  <2>2. PICK m : Along(turn.line, turn.pos, original, m, variables_)
    BY <1>2, <1>3, <1>7, TurnKeeps DEF p, turn
  <2>3. Along(line', pos', original', m, variables_')
    BY <1>1, <2>1, <2>2
  <2>4. LineExpanded'
    BY <2>1, <2>3 DEF LineExpanded
  <2>5. line' \in Text
    BY <2>1, <2>2 DEF Along
  <2>6. EnvType'
    BY <1>1, <1>4, <2>1, <2>5 DEF EnvInv, EnvType
  <2> QED BY <1>5, <2>4, <2>6 DEF EnvInv
<1> QED BY <1>6, <1>7

LEMMA ParseKeeps == ASSUME EnvInv, Env!Parse, content' = content PROVE EnvInv'
<1>1. /\ loading = "parse" /\ loading' = "read" /\ variables_' = Env!parseLine(line, variables_)
      /\ file' = file /\ line' = line /\ original' = original
  BY DEF Env!Parse
<1>2. LinesRead' = LinesRead
  BY <1>1 DEF LinesRead
<1>3. EnvType'
  <2>1. Full(variables_')
    BY <1>1, ParseIs DEF EnvInv, EnvType
  <2> QED BY <1>1, <1>2, <2>1 DEF EnvInv, EnvType
<1>4. variables_' = Lines(content)[LinesRead]
  <2>1. /\ LinesRead # 0 /\ original = content[LinesRead] /\ ~Env!isComment(original)
        /\ variables_ = Lines(content)[LinesRead - 1] /\ line = Env!Expansion(original, variables_)
    BY <1>1 DEF EnvInv, LinesAssigned, LineExpanded
  <2> DEFINE n == LinesRead
  <2>2. Lines(content)[n] = IF Env!isComment(content[n]) THEN Lines(content)[n - 1]
                            ELSE Env!parseLine(Env!Expansion(content[n], Lines(content)[n - 1]),
                                               Lines(content)[n - 1])
    BY <2>1, LineAssigns DEF EnvInv
  <2> HIDE DEF n
  <2> QED BY <1>1, <2>1, <2>2 DEF n
<1>5. LinesAssigned' /\ LineExpanded'
  BY <1>1, <1>2, <1>4 DEF LinesAssigned, LineExpanded
<1> QED BY <1>3, <1>5 DEF EnvInv

-----------------------------------------------------------------------------
(* Start-up *)

Coded(v) == [k \in DOMAIN v |-> Symbol(v[k])]

(* Decode is given the key's value, which is not empty, when the whole file  *)
(* is loaded, and nothing touches it before.                                *)
Stages ==
    /\ main \in {"load", "get", "decode", "running", "dead"}
    /\ main = "load" => loading # "done"
    /\ main \in {"get", "decode", "running"} => loading = "done"
    /\ main \in {"load", "get"} => input = <<>> /\ decoding = "check" /\ i = 0 /\ j = 0
    /\ main \in {"decode", "running"} =>
          Env!has(variables_, Key) /\ input = Coded(variables_[Key]) /\ input # <<>>
    /\ main = "running" => decoding \in {"returned", "refused"}

StartInv == EnvInv /\ DecoderInv /\ Stages

LEMMA CodedIs == ASSUME NEW v \in Text \ {<<>>} PROVE Coded(v) \in Seq(Code) /\ Coded(v) # <<>> /\ Len(Coded(v)) = Len(v)
<1>1. \A c : Symbol(c) \in Code
  <2>1. \A c \in DOMAIN Sextets : Sextets[c] \in 0..63
    BY SextetsAssumption
  <2>2. \A x \in 0..63 : x \in Code
    BY DEF Code
  <2>3. Dec!Pad \in Code /\ Dec!Bad \in Code
    BY DEF Dec!Pad, Dec!Bad, Code
  <2> QED BY <2>1, <2>2, <2>3, Zenon DEF Symbol
<1>2. Len(v) \in Nat /\ DOMAIN v = 1..Len(v) /\ Len(v) # 0
  BY DEF Text
<1>3. Coded(v) = [k \in 1..Len(v) |-> Symbol(v[k])]
  BY <1>2 DEF Coded
<1> DEFINE w == [k \in 1..Len(v) |-> Symbol(v[k])]
<1>4. w \in Seq(Code) /\ Len(w) = Len(v)
  <2>1. \A k \in 1..Len(v) : Symbol(v[k]) \in Code
    BY <1>1
  <2> QED BY <1>2, <2>1
<1>5. w # <<>>
  <2> HIDE DEF w
  <2> QED BY <1>2, <1>4
<1> QED BY <1>3, <1>4, <1>5

LEMMA StartInit == Init => StartInv
<1>1. SUFFICES ASSUME Init PROVE StartInv
  OBVIOUS
<1>2. EnvInv
  BY <1>1, EnvInit
<1>3. /\ main = "load" /\ input = <<>> /\ i = 0 /\ j = 0 /\ decoding = "check" /\ loading = "read"
  BY <1>1 DEF Init, Env!Init, Dec!Init
<1>4. DecoderInv
  <2>1. <<>> \in Seq(Code)
    OBVIOUS
  <2> QED BY <1>3, <2>1 DEF DecoderInv, DecoderType, Decoded
<1> QED BY <1>2, <1>3, <1>4 DEF StartInv, Stages

LEMMA EnvUnchanged == ASSUME EnvInv, UNCHANGED <<dotenv, content>> PROVE EnvInv'
<1>1. LinesRead' = LinesRead
  BY DEF LinesRead, dotenv
<1> QED BY <1>1 DEF EnvInv, EnvType, LinesAssigned, LineExpanded, dotenv

LEMMA DecoderUnchanged == ASSUME DecoderInv, UNCHANGED decoder PROVE DecoderInv'
<1>1. input' = input /\ i' = i /\ j' = j /\ out_len' = out_len /\ out' = out /\ decoding' = decoding
  BY DEF decoder
<1>2. Dec!Padding' = Dec!Padding /\ \A g : Quad(g)' = Quad(g)
  BY <1>1 DEF Dec!Padding, Dec!IsPad, Quad
<1>3. DecoderType'
  BY <1>1 DEF DecoderInv, DecoderType
<1>4. Decoded'
  BY <1>1, <1>2 DEF DecoderInv, Decoded
<1> QED BY <1>3, <1>4 DEF DecoderInv

LEMMA StartNext == StartInv /\ [Next]_vars => StartInv'
<1>1. SUFFICES ASSUME StartInv, [Next]_vars PROVE StartInv'
  OBVIOUS
<1>2. CASE UNCHANGED vars
  <2>1. EnvInv' /\ DecoderInv'
    BY <1>1, <1>2, EnvUnchanged, DecoderUnchanged DEF StartInv, vars
  <2>2. Stages'
    BY <1>1, <1>2 DEF StartInv, Stages, vars, dotenv, decoder
  <2> QED BY <2>1, <2>2 DEF StartInv
<1>3. CASE Load
  <2>1. EnvInv'
    BY <1>1, <1>3, ReadLineKeeps, ExpandKeeps, ParseKeeps DEF Load, Env!Next, StartInv
  <2>2. DecoderInv'
    BY <1>1, <1>3, DecoderUnchanged DEF Load, StartInv
  <2>3. Stages'
    BY <1>1, <1>3 DEF Load, StartInv, Stages, decoder
  <2> QED BY <2>1, <2>2, <2>3 DEF StartInv
<1>4. CASE Get
  <2> DEFINE v == variables_[Key]
  <2>1. /\ main = "get" /\ main' = "decode" /\ input' = Coded(v) /\ UNCHANGED <<dotenv, content>>
        /\ i' = i /\ j' = j /\ out_len' = out_len /\ out' = out /\ decoding' = decoding
        /\ Env!has(variables_, Key)
    BY <1>4 DEF Get, Coded
  <2>2. EnvInv' /\ variables_' = variables_ /\ loading' = loading
    BY <1>1, <2>1, EnvUnchanged DEF StartInv, dotenv
  <2>3. v \in Text \ {<<>>}
    BY <1>1, <2>1 DEF StartInv, EnvInv, EnvType, Full, Env!has
  <2> HIDE DEF v
  <2>4. Coded(v) \in Seq(Code) /\ Coded(v) # <<>>
    BY <2>3, CodedIs
  <2>5. decoding = "check" /\ i = 0 /\ j = 0 /\ loading = "done"
    BY <1>1, <2>1 DEF StartInv, Stages
  <2>6. DecoderInv'
    BY <2>1, <2>4, <2>5 DEF DecoderInv, DecoderType, Decoded
  <2>7. Stages'
    BY <2>1, <2>2, <2>4, <2>5 DEF Stages, Env!has, v
  <2> QED BY <2>2, <2>6, <2>7 DEF StartInv
<1>5. CASE Throw
  <2>1. EnvInv' /\ DecoderInv'
    BY <1>1, <1>5, EnvUnchanged, DecoderUnchanged DEF Throw, StartInv
  <2>2. Stages'
    BY <1>5 DEF Throw, Stages
  <2> QED BY <2>1, <2>2 DEF StartInv
<1>6. CASE Decode
  <2>1. /\ main = "decode" /\ main' = "decode" /\ UNCHANGED <<dotenv, content>> /\ Dec!Next
    BY <1>6 DEF Decode
  <2>2. EnvInv' /\ variables_' = variables_ /\ loading' = loading
    BY <1>1, <2>1, EnvUnchanged DEF StartInv, dotenv
  <2>3. input # <<>> /\ input = Coded(variables_[Key]) /\ Env!has(variables_, Key) /\ loading = "done"
    BY <1>1, <2>1 DEF StartInv, Stages
  <2>4. DecoderInv'
    BY <1>1, <2>1, <2>3, DecoderNext DEF StartInv
  <2>5. input' = input
    BY <2>1 DEF Dec!Next, Dec!Check, Dec!Turn, Dec!Finish
  <2>6. Stages'
    BY <2>1, <2>2, <2>3, <2>5 DEF Stages
  <2> QED BY <2>2, <2>4, <2>6 DEF StartInv
<1>7. CASE Start
  <2>1. /\ main = "decode" /\ main' = "running" /\ UNCHANGED <<dotenv, decoder, content>>
        /\ decoding \in {"returned", "refused"}
    BY <1>7 DEF Start
  <2>2. EnvInv' /\ DecoderInv'
    BY <1>1, <2>1, EnvUnchanged, DecoderUnchanged DEF StartInv
  <2>3. Stages'
    BY <1>1, <2>1 DEF StartInv, Stages, dotenv, decoder
  <2> QED BY <2>2, <2>3 DEF StartInv
<1> QED BY <1>1, <1>2, <1>3, <1>4, <1>5, <1>6, <1>7 DEF Next

(* Start-up's inductive invariant holds of the whole process: the calls of   *)
(* /login do not touch its state.                                           *)
THEOREM StartUpInductive == BotSpec => []StartInv
<1>1. BotInit => StartInv
  BY StartInit DEF BotInit
<1>2. [BotNext]_<<vars, login>> => [Next]_vars
  BY DEF BotNext, Starting, Serving
<1>3. StartInv /\ [BotNext]_<<vars, login>> => StartInv'
  BY <1>2, StartNext
<1> QED BY <1>1, <1>3, PTL DEF BotSpec

(* Decode, called with every value of the key that a file can give, never    *)
(* gets the empty string and never throws; it is inverse to Base64, a bad    *)
(* character spoils its own group only, and the buffer is filled exactly.   *)
THEOREM TokenIsDecoded == BotSpec => []TokenDecoded
<1>1. ASSUME StartInv PROVE TokenDecoded
  <2>1. DecoderInv
    BY <1>1 DEF StartInv
  <2>2. NeverDecodesEmpty
    BY <1>1 DEF StartInv, Stages, DecoderInv, DecoderType, NeverDecodesEmpty
  <2>3. Dec!RoundTrip
    <3>1. SUFFICES ASSUME decoding = "returned", NEW bytes \in Messages, input = Dec!Encode(bytes)
                   PROVE  out = bytes
      BY DEF Dec!RoundTrip
    <3>2. bytes \in Seq(Byte)
      BY MessagesAssumption DEF Byte
    <3> QED BY <2>1, <3>1, <3>2, EncodedDecodes
  <2>4. Dec!SpoilsOneGroup
    BY <2>1, GroupsGiveTheirBytes
  <2>5. Dec!FillsBuffer
    <3>1. decoding # "throws"
      BY <2>1 DEF DecoderInv, DecoderType
    <3>2. ASSUME decoding = "returned" PROVE j = Len(out)
      <4>1. /\ input \in Seq(Code) /\ Len(input) % 4 = 0 /\ out_len = 3 * (Len(input) \div 4) - Dec!Padding
            /\ Len(out) = out_len /\ i = Len(input)
            /\ j = IF 3 * (i \div 4) < out_len THEN 3 * (i \div 4) ELSE out_len
        BY <2>1, <3>2 DEF DecoderInv, DecoderType, Decoded
      <4>2. Dec!Padding \in 0..2
        BY <2>1, <3>2, PaddingIs DEF DecoderInv, Decoded
      <4>3. Len(input) \div 4 \in Nat
        <5>1. Len(input) \in Nat
          BY <4>1
        <5> QED BY <5>1
      <4> DEFINE m == Len(input) \div 4
      <4> HIDE DEF m
      <4>4. out_len = 3 * m - Dec!Padding /\ j = (IF 3 * m < out_len THEN 3 * m ELSE out_len) /\ m \in Nat
        BY <4>1, <4>3 DEF m
      <4>5. ~(3 * m < out_len)
        BY <4>2, <4>4
      <4> QED BY <4>1, <4>4, <4>5
    <3> QED BY <3>1, <3>2 DEF Dec!FillsBuffer
  <2> QED BY <2>2, <2>3, <2>4, <2>5 DEF TokenDecoded
<1> QED BY <1>1, StartUpInductive, PTL

(* For every file: a line that is edited under the reader's feet becomes     *)
(* exactly what its references mean, and the bot runs with the value that    *)
(* the last line to assign the key gives it, or with an error's text when    *)
(* that value is no Base64.                                                  *)
THEOREM RunsWithTheLastToken == BotSpec => []RunsWithLastToken
<1>1. ASSUME StartInv PROVE RunsWithLastToken
  <2>1. Env!ExpandsOnce
    BY <1>1 DEF StartInv, EnvInv, LineExpanded, Env!ExpandsOnce
  <2>2. ASSUME main = "running"
        PROVE  /\ LastValue # <<>>
               /\ input = [k \in DOMAIN LastValue |-> Symbol(LastValue[k])]
               /\ decoding = "returned" <=> Len(LastValue) % 4 = 0
    <3> DEFINE v == variables_[Key]
    <3>1. /\ loading = "done" /\ Env!has(variables_, Key) /\ input = Coded(v)
          /\ decoding \in {"returned", "refused"}
      BY <1>1, <2>2 DEF StartInv, Stages
    <3>2. file = <<>> /\ variables_ = Lines(content)[LinesRead]
      BY <1>1, <3>1 DEF StartInv, EnvInv, LinesAssigned
    <3>3. LinesRead = Len(content)
      <4>1. Len(content) \in Nat
        BY <1>1 DEF StartInv, EnvInv, EnvType
      <4> QED BY <3>2, <4>1 DEF LinesRead
    <3>4. LastValue = v
      BY <3>1, <3>2, <3>3, LastValueIs DEF Env!ValueOf
    <3>5. v \in Text \ {<<>>}
      BY <1>1, <3>1 DEF StartInv, EnvInv, EnvType, Full, Env!has
    <3> HIDE DEF v
    <3>6. input = [k \in DOMAIN v |-> Symbol(v[k])] /\ Len(input) = Len(v)
      BY <3>1, <3>5, CodedIs DEF Coded
    <3>7. decoding = "returned" <=> Len(v) % 4 = 0
      BY <1>1, <3>1, <3>6 DEF StartInv, DecoderInv, DecoderType, Decoded
    <3> QED BY <3>4, <3>5, <3>6, <3>7
  <2> QED BY <2>1, <2>2 DEF RunsWithLastToken
<1> QED BY <1>1, StartUpInductive, PTL
=============================================================================

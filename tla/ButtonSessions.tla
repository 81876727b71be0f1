--------------------------- MODULE ButtonSessions ---------------------------
(***************************************************************************)
(* The button sessions of src/cores/cmd_button.h.  button_bind gives a     *)
(* component a custom_id "id###created_at" and keeps a callback for it;    *)
(* button_builder, the handler of on_button_click, looks the id up and     *)
(* runs the callback.  Both are called by the threads of the shards and    *)
(* share cached_sessions, cached_sessions_mutex and custom_id_counter,     *)
(* which live in memory only: after a restart the counter starts again,    *)
(* while the components sent to Discord stay there and can be clicked.     *)
(*                                                                         *)
(* One action is one critical step: taking or giving back the mutex, one   *)
(* turn of a loop, one lookup.  The clock can advance between any two.     *)
(***************************************************************************)
EXTENDS Integers, FiniteSets

CONSTANTS
    Threads,      \* shard threads
    None,         \* "nobody holds the mutex"
    MaxId,        \* UINT_LEAST64_MAX: the last custom id before the counter wraps
    ULongMax,     \* the greatest number std::stoul can return
    LongMax,      \* the greatest long int
    Minute,       \* clock ticks in a minute of cache_duration
    Durations,    \* the values of cache_duration that are passed
    Outcomes,     \* what callbacks do, a subset of AllOutcomes
    Callbacks,    \* bound: the callbacks that are ever bound, each once
    MaxNow        \* bound: the clock stops there

(* A callback returns true or false, throws, or calls button_bind itself. *)
AllOutcomes == {"forget", "keep", "throw", "rebind"}

ASSUME NoneIsNoThread == None \notin Threads
ASSUME WidthsArePositive == /\ MaxId \in Nat \ {0} /\ ULongMax \in Nat
                            /\ LongMax \in Nat /\ Minute \in Nat
ASSUME DurationsAreNat == Durations \subseteq Nat
ASSUME OutcomesKnown == Outcomes \subseteq AllOutcomes
ASSUME BoundIsNat == MaxNow \in Nat

VARIABLES
    cached_sessions,     \* id -> session; a function on the ids in the map
    custom_id_counter,
    holder,              \* the thread that owns cached_sessions_mutex
    now,                 \* time(nullptr)
    pc,                  \* pc[t]: where t stands in button_bind or button_builder
    arg,                 \* arg[t]: what t was called with
    todo,                \* todo[t]: the ids that clear() has not visited yet
    components,          \* the components sent to Discord
    (* History: observes what the code does. *)
    drawn,               \* the ids drawn in this second
    forgotten,           \* callbacks that returned true
    sweptAt              \* when the latest clear() took the mutex

cacheVars == <<cached_sessions, custom_id_counter>>
observed  == <<drawn, forgotten, sweptAt>>
vars == <<cacheVars, holder, now, pc, arg, todo, components, observed>>

Ids       == 1..MaxId
Sessions  == [created_at : Nat, cache_duration : Durations, function : Callbacks]

(* id and stamp are the two halves of custom_id.  fn and born, the callback *)
(* bound to the component and its birth, are known to the observer only.    *)
Components == [id : Ids, stamp : Int, fn : Callbacks, born : Nat]
Calls      == [fn : Callbacks, cache_duration : Durations]
NoArg      == [cache_duration |-> 0]

Critical == {"sweep", "draw", "lookup", "running", "rebinding"}
Binding  == {"clear", "sweep", "bind", "draw"}
Clicking == {"click", "lookup", "running", "rebinding"}
Resting  == {"idle", "notfound", "ignored"}
Steps    == Resting \union Binding \union Clicking

TypeOK ==
    /\ DOMAIN cached_sessions \subseteq Ids
    /\ cached_sessions \in [DOMAIN cached_sessions -> Sessions]
    /\ custom_id_counter \in 0..MaxId
    /\ holder \in Threads \union {None}
    /\ now \in Nat
    /\ pc \in [Threads -> Steps]
    /\ \A t \in Threads : /\ pc[t] \in Binding  => arg[t] \in Calls
                          /\ pc[t] \in Clicking => arg[t] \in components
    /\ DOMAIN arg = Threads
    /\ todo \in [Threads -> SUBSET Ids]
    /\ components \subseteq Components
    /\ drawn \subseteq Ids
    /\ forgotten \subseteq Callbacks
    /\ sweptAt \in Nat

Init ==
    /\ cached_sessions = [i \in {} |-> {}]
    /\ custom_id_counter = 0
    /\ holder = None
    /\ now = 0
    /\ pc = [t \in Threads |-> "idle"]
    /\ arg = [t \in Threads |-> NoArg]
    /\ todo = [t \in Threads |-> {}]
    /\ components = {}
    /\ drawn = {}
    /\ forgotten = {}
    /\ sweptAt = 0

-----------------------------------------------------------------------------
(* Helpers *)

Live == DOMAIN cached_sessions      \* the ids in the map

ExpiredAt(session, time) == time - session.created_at > session.cache_duration * Minute

IsExpired(session) == ExpiredAt(session, now)

Without(id)       == [i \in Live \ {id} |-> cached_sessions[i]]
With(id, session) == [i \in Live \union {id} |-> IF i = id THEN session ELSE cached_sessions[i]]

(* static_cast<long int>: two's complement. *)
Long(time) == ((time + LongMax + 1) % (2 * (LongMax + 1))) - (LongMax + 1)

(* Seeded error: the counter never starts again. *)
NextId_NoWrap == custom_id_counter + 1

NextId == IF custom_id_counter >= MaxId THEN 1 ELSE custom_id_counter + 1

(* The callbacks that are bound, or being bound. *)
Bound == {c.fn : c \in components} \union {arg[t].fn : t \in {r \in Threads : pc[r] \in Binding}}

(* Fewer than MaxId sessions exist and are being made: there is memory for  *)
(* far fewer than 2^64.  Without it the loop of button_bind would not end.  *)
HasRoom == Cardinality(Live) + Cardinality({t \in Threads : pc[t] \in Binding}) < MaxId

Take(t, from, to) ==
    /\ pc[t] = from
    /\ holder = None
    /\ holder' = t
    /\ pc' = [pc EXCEPT ![t] = to]

(* The handler or button_bind returns: the lock goes with its locals. *)
Return(t, to) ==
    /\ holder' = None
    /\ pc' = [pc EXCEPT ![t] = to]
    /\ arg' = [arg EXCEPT ![t] = NoArg]

-----------------------------------------------------------------------------
(* button_bind *)

BindCall(t, fn, duration) ==
    /\ pc[t] \in Resting
    /\ fn \notin Bound
    /\ HasRoom
    /\ pc' = [pc EXCEPT ![t] = "clear"]
    /\ arg' = [arg EXCEPT ![t] = [fn |-> fn, cache_duration |-> duration]]
    /\ UNCHANGED <<cacheVars, holder, now, todo, components, observed>>

(* clear(): take the mutex and start at begin(). *)
ClearLock(t) ==
    /\ Take(t, "clear", "sweep")
    /\ todo' = [todo EXCEPT ![t] = Live]
    /\ sweptAt' = now
    /\ UNCHANGED <<cacheVars, now, arg, components, drawn, forgotten>>

(* Seeded error: after erase() has returned the next element, ++it skips it. *)
Sweep_SkipsNext(t, id) ==
    LET skipped == IF IsExpired(cached_sessions[id]) /\ todo[t] # {id}
                   THEN {CHOOSE i \in todo[t] : i # id} ELSE {}
    IN  /\ pc[t] = "sweep"
        /\ id \in todo[t]
        /\ todo' = [todo EXCEPT ![t] = @ \ ({id} \union skipped)]
        /\ cached_sessions' = IF IsExpired(cached_sessions[id]) THEN Without(id) ELSE cached_sessions
        /\ UNCHANGED <<custom_id_counter, holder, now, pc, arg, components, observed>>

(* One turn of the loop of clear(): visit a session, in any order, erase it  *)
(* if it has expired, and go to the next.                                   *)
Sweep(t, id) ==
    /\ pc[t] = "sweep"
    /\ id \in todo[t]
    /\ todo' = [todo EXCEPT ![t] = @ \ {id}]
    /\ cached_sessions' = IF IsExpired(cached_sessions[id]) THEN Without(id) ELSE cached_sessions
    /\ UNCHANGED <<custom_id_counter, holder, now, pc, arg, components, observed>>

ClearUnlock(t) ==
    /\ pc[t] = "sweep"
    /\ todo[t] = {}
    /\ holder' = None
    /\ pc' = [pc EXCEPT ![t] = "bind"]
    /\ UNCHANGED <<cacheVars, now, arg, todo, components, observed>>

(* The mutex was free since clear() returned: others may have come between. *)
BindLock(t) ==
    /\ Take(t, "bind", "draw")
    /\ UNCHANGED <<cacheVars, now, arg, todo, components, observed>>

(* Seeded error: the map is not asked whether the id is in use. *)
Taken_Unchecked(id) == FALSE

(* custom_id_already_exists *)
Taken(id) == id \in Live

(* Seeded error: the stamp is taken before the thread waits for the mutex.  *)
Stamp_BeforeLock == Long(sweptAt)

(* The second half of the custom_id: the session's created_at. *)
Stamp == Long(now)

(* One turn of the do-while: draw the next id; if it is free, bind it and    *)
(* return.  No second is long enough to draw all 2^64 ids, hence NextId is   *)
(* not drawn twice in one.                                                  *)
Draw(t) ==
    LET session == [created_at |-> now, cache_duration |-> arg[t].cache_duration,
                    function |-> arg[t].fn]
    IN  /\ pc[t] = "draw"
        /\ NextId \notin drawn
        /\ custom_id_counter' = NextId
        /\ drawn' = drawn \union {NextId}
        /\ IF Taken(NextId)
           THEN UNCHANGED <<cached_sessions, components, holder, pc, arg>>
           ELSE /\ cached_sessions' = With(NextId, session)
                /\ components' = components \union
                       {[id |-> NextId, stamp |-> Stamp, fn |-> arg[t].fn, born |-> now]}
                /\ Return(t, "idle")
        /\ UNCHANGED <<now, todo, forgotten, sweptAt>>

-----------------------------------------------------------------------------
(* button_builder *)

(* std::stoul on the id: out_of_range is answered "Button not found!". *)
Parses(component) == component.id <= ULongMax

ClickCall(t, component) ==
    /\ pc[t] \in Resting
    /\ IF Parses(component)
       THEN /\ pc' = [pc EXCEPT ![t] = "click"]
            /\ arg' = [arg EXCEPT ![t] = component]
       ELSE /\ pc' = [pc EXCEPT ![t] = "notfound"]
            /\ UNCHANGED arg
    /\ UNCHANGED <<cacheVars, holder, now, todo, components, observed>>

ClickLock(t) ==
    /\ Take(t, "click", "lookup")
    /\ UNCHANGED <<cacheVars, now, arg, todo, components, observed>>

(* Seeded error: the stamp is not compared. *)
Found_AnyStamp(component) ==
    /\ component.id \in Live
    /\ ~IsExpired(cached_sessions[component.id])

(* The session that the component names, if it is still the same one. *)
Found(component) ==
    /\ component.id \in Live
    /\ cached_sessions[component.id].created_at = component.stamp
    /\ ~IsExpired(cached_sessions[component.id])

(* The callback is called with the mutex held; without a session the        *)
(* handler returns and answers nothing.                                     *)
Lookup(t) ==
    /\ pc[t] = "lookup"
    /\ IF Found(arg[t])
       THEN /\ pc' = [pc EXCEPT ![t] = "running"]
            /\ UNCHANGED <<holder, arg>>
       ELSE Return(t, "ignored")
    /\ UNCHANGED <<cacheVars, now, todo, components, observed>>

(* Seeded error: the session is not erased. *)
Forget_KeepsSession(t) ==
    /\ pc[t] = "running" /\ "forget" \in Outcomes
    /\ forgotten' = forgotten \union {arg[t].fn}
    /\ Return(t, "idle")
    /\ UNCHANGED <<cacheVars, now, todo, components, drawn, sweptAt>>

(* function(event) returned true: the session is erased. *)
Forget(t) ==
    /\ pc[t] = "running" /\ "forget" \in Outcomes
    /\ cached_sessions' = Without(arg[t].id)
    /\ forgotten' = forgotten \union {arg[t].fn}
    /\ Return(t, "idle")
    /\ UNCHANGED <<custom_id_counter, now, todo, components, drawn, sweptAt>>

(* Seeded error: lock() and unlock() by hand, which an exception passes by. *)
Keep_LeaksMutex(t) ==
    /\ pc[t] = "running" /\ Outcomes \intersect {"keep", "throw"} # {}
    /\ \/ "keep" \in Outcomes /\ Return(t, "idle")
       \/ "throw" \in Outcomes /\ pc' = [pc EXCEPT ![t] = "idle"] /\ UNCHANGED <<holder, arg>>
    /\ UNCHANGED <<cacheVars, now, todo, components, observed>>

(* It returned false, or threw: the mutex is given back, the session stays. *)
Keep(t) ==
    /\ pc[t] = "running" /\ Outcomes \intersect {"keep", "throw"} # {}
    /\ Return(t, "idle")
    /\ UNCHANGED <<cacheVars, now, todo, components, observed>>

(* It called button_bind: clear() waits for the mutex its own thread holds.  *)
(* A std::shared_mutex is not recursive; on Windows the wait has no end.    *)
Rebind(t) ==
    /\ pc[t] = "running" /\ "rebind" \in Outcomes
    /\ pc' = [pc EXCEPT ![t] = "rebinding"]
    /\ UNCHANGED <<cacheVars, holder, now, arg, todo, components, observed>>

-----------------------------------------------------------------------------
(* The clock, and the process. *)

(* Past MaxNow the clock advances only to let the next id be drawn. *)
Tick ==
    /\ now < MaxNow \/ NextId \in drawn
    /\ now' = now + 1
    /\ drawn' = {}
    /\ UNCHANGED <<cacheVars, holder, pc, arg, todo, components, forgotten, sweptAt>>

(* The process ends and starts again, which takes a second or more. *)
Restart ==
    /\ now < MaxNow
    /\ cached_sessions' = [i \in {} |-> {}]
    /\ custom_id_counter' = 0
    /\ holder' = None
    /\ now' = now + 1
    /\ pc' = [t \in Threads |-> "idle"]
    /\ arg' = [t \in Threads |-> NoArg]
    /\ todo' = [t \in Threads |-> {}]
    /\ drawn' = {}
    /\ UNCHANGED <<components, forgotten, sweptAt>>

-----------------------------------------------------------------------------
(* What the holder of the mutex does until it gives it back. *)
Hold(t) ==
    \/ \E id \in todo[t] : Sweep(t, id)
    \/ ClearUnlock(t) \/ Draw(t) \/ Lookup(t) \/ Forget(t) \/ Keep(t) \/ Rebind(t)

Next ==
    \/ \E t \in Threads :
          \/ \E fn \in Callbacks, duration \in Durations : BindCall(t, fn, duration)
          \/ \E component \in components : ClickCall(t, component)
          \/ ClearLock(t) \/ BindLock(t) \/ ClickLock(t)
          \/ Hold(t)
    \/ Tick
    \/ Restart

(* A thread in a critical section runs on, callbacks return, time passes. *)
Fairness == WF_vars(Tick) /\ \A t \in Threads : WF_vars(Hold(t))

Spec == Init /\ [][Next]_vars /\ Fairness

-----------------------------------------------------------------------------
(* Properties *)

(* A click runs the callback that was bound to the very component clicked,  *)
(* and its session stays in the map while the callback runs (the iterator   *)
(* that button_builder keeps is valid): also when the counter has wrapped,  *)
(* and when an id of an earlier life of the process is in use again.        *)
ClickRunsBoundFunction ==
    \A t \in Threads :
        pc[t] \in {"running", "rebinding"} =>
            /\ arg[t].id \in Live
            /\ cached_sessions[arg[t].id].function = arg[t].fn

(* A callback that asked to be forgotten does not run again, however many   *)
(* clicks on its button were already waiting for the mutex.                 *)
NoRunAfterForget ==
    \A t \in Threads : pc[t] = "running" => arg[t].fn \notin forgotten

(* When clear() is through, no session is left that had expired when it     *)
(* began: erasing while iterating skips none.                               *)
SweepComplete ==
    \A t \in Threads :
        pc[t] = "sweep" /\ todo[t] = {} =>
            \A id \in Live : ~ExpiredAt(cached_sessions[id], sweptAt)

(* A session leaves the map, or is replaced, only after it expired, when    *)
(* its callback asked for it, or with the process: drawing an id never      *)
(* overwrites the session of a button that is still in use.                 *)
SessionKept ==
    [][ Restart \/ \A id \in Live :
            \/ id \in Live' /\ cached_sessions'[id] = cached_sessions[id]
            \/ IsExpired(cached_sessions[id])
            \/ cached_sessions[id].function \in forgotten' ]_vars

(* The component's session is there, its time is not over, and its birth    *)
(* fits a long int.                                                         *)
Usable(component) ==
    /\ component.id \in Live
    /\ LET session == cached_sessions[component.id]
       IN  /\ session.function = component.fn
           /\ now - component.born <= session.cache_duration * Minute
    /\ component.born <= LongMax

(* A click on a usable button is never ignored: what button_bind wrote into *)
(* the custom_id is what it wrote into the session, although the clock may  *)
(* have moved while it waited for the mutex.                                *)
UsableButtonRuns ==
    [][ \A t \in Threads :
            pc[t] = "lookup" /\ pc'[t] = "ignored" => ~Usable(arg[t]) ]_vars

(* Whoever holds the mutex gives it back, whatever the callback does short  *)
(* of binding a button itself.                                              *)
MutexFreed ==
    (holder # None) ~> (holder = None \/ \E t \in Threads : pc[t] = "rebinding")
=============================================================================

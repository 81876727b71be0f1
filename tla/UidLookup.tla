------------------------------ MODULE UidLookup ------------------------------
(***************************************************************************)
(* genshin.py's _get_uid: tasks that need the uid of a game take turns by    *)
(* prevent_concurrency, look among the uids they have, and else ask for the  *)
(* accounts through the client's cache, which forgets by time and by size.   *)
(***************************************************************************)
EXTENDS Integers, Sequences, FiniteSets

CONSTANTS
    Tasks, Games,
    Others,       \* keys of other requests in the cache
    maxsize, ttl, \* of the cache
    Static,       \* the client has its default cache, which keeps static data only
    Multi,        \* the cookie manager has several accounts
    Transit,      \* bound: how long a request takes
    MaxTime,      \* bound: the clock
    MaxCalls,     \* bound: calls of _get_uid
    NoGame        \* None

VARIABLES
    now,
    cache,        \* the dictionary in its order: key, expires, value
    lock,         \* tasks in the lock's queue, the first one holds it
    task,
    uids, default_game,
    bound,        \* the server's: since when a game has an account, or Never
    stored,       \* when accounts came, and went to the cache
    calls

vars == <<now, cache, lock, task, uids, default_game, bound, stored, calls>>

Never == MaxTime + 1
Accounts == "accounts"
Idle == [pc |-> "idle", game |-> NoGame, since |-> 0, games |-> {}]

-----------------------------------------------------------------------------
(* Cache.                                                                   *)

\* _clear_cache: what has timed out goes,
Live(c) ==
    LET kept[n \in 0 .. Len(c)] ==
            IF n = 0 THEN <<>>
            ELSE IF c[n].expires >= now THEN Append(kept[n - 1], c[n]) ELSE kept[n - 1]
    IN  kept[Len(c)]

\* and then the oldest keys.
Cleared(c) ==
    LET live == Live(c)
        overflow == Len(live) - maxsize
    IN  IF overflow > 0 THEN [i \in 1 .. maxsize |-> live[overflow + i]] ELSE live

\* set: a key that is there keeps its place, and the default cache does nothing
Set(c, key, value) ==
    LET entry == [key |-> key, expires |-> now + ttl, value |-> value]
    IN IF Static THEN c
       ELSE Cleared(IF \E i \in DOMAIN c : c[i].key = key
                    THEN [i \in DOMAIN c |-> IF c[i].key = key THEN entry ELSE c[i]]
                    ELSE Append(c, entry))

\* get, after _clear_cache
Lookup(c, key) == {c[i].value : i \in {j \in DOMAIN c : c[j].key = key}}

-----------------------------------------------------------------------------
Init ==
    /\ now = 0 /\ cache = <<>> /\ lock = <<>>
    /\ task = [t \in Tasks |-> Idle]
    /\ uids = {} /\ default_game = NoGame
    /\ bound = [g \in Games |-> Never]
    /\ stored = <<>> /\ calls = 0

Bound == {g \in Games : bound[g] <= now}

Becomes(t, pc) == task' = [task EXCEPT ![t] = [@ EXCEPT !.pc = pc]]

Call(t) ==
    /\ task[t].pc \in {"idle", "found", "notFound", "failed"}
    /\ calls < MaxCalls /\ calls' = calls + 1
    /\ \E g \in Games : task' = [task EXCEPT ![t] = [Idle EXCEPT !.pc = "waiting", !.game = g]]
    /\ lock' = Append(lock, t)
    /\ UNCHANGED <<now, cache, uids, default_game, bound, stored>>

Without(q, t) ==
    LET k == CHOOSE i \in DOMAIN q : q[i] = t
    IN  [i \in 1 .. Len(q) - 1 |-> IF i < k THEN q[i] ELSE q[i + 1]]

\* leaving the async with, by a return or an exception
Leave(t, pc) == Becomes(t, pc) /\ lock' = Without(lock, t)

\* Seeded error: there is no lock around the method.
Holds_Nobody(t) == TRUE

Holds(t) == lock # <<>> /\ Head(lock) = t

\* _update_cached_uids with the accounts that came, and what _get_uid makes
\* of it
Update(t, games) ==
    /\ uids' = games
    /\ default_game' = IF Cardinality(games) = 1 /\ default_game = NoGame
                       THEN CHOOSE g \in games : TRUE ELSE default_game
    /\ Leave(t, IF task[t].game \in games THEN "found" ELSE "notFound")

\* With several accounts it raises a RuntimeError before it asks.
Enter(t) ==
    /\ task[t].pc = "waiting" /\ Holds(t)
    /\ IF task[t].game \in uids
       THEN Leave(t, "found") /\ UNCHANGED <<cache, uids, default_game>>
       ELSE IF Multi
       THEN Leave(t, "failed") /\ UNCHANGED <<cache, uids, default_game>>
       ELSE /\ cache' = Cleared(cache)
            /\ IF Lookup(cache', Accounts) = {}
               THEN /\ task' = [task EXCEPT ![t] = [@ EXCEPT !.pc = "sent", !.since = now]]
                    /\ UNCHANGED <<lock, uids, default_game>>
               ELSE \E games \in Lookup(cache', Accounts) : Update(t, games)
    /\ UNCHANGED <<now, bound, stored, calls>>

Serve(t) ==
    /\ task[t].pc = "sent"
    /\ task' = [task EXCEPT ![t] = [@ EXCEPT !.pc = "served", !.games = Bound]]
    /\ UNCHANGED <<now, cache, lock, uids, default_game, bound, stored, calls>>

Arrive(t) ==
    /\ task[t].pc = "served"
    /\ cache' = Set(cache, Accounts, task[t].games)
    /\ stored' = Append(stored, now)
    /\ Update(t, task[t].games)
    /\ UNCHANGED <<now, bound, calls>>

\* Seeded error: a request that fails leaves the lock held.
Fail_KeepsLock(t) ==
    /\ task[t].pc \in {"sent", "served"}
    /\ Becomes(t, "failed")
    /\ UNCHANGED <<now, cache, lock, uids, default_game, bound, stored, calls>>

\* The request fails or the task is cancelled: the exception passes through.
Fail(t) ==
    /\ task[t].pc \in {"sent", "served"}
    /\ Leave(t, "failed")
    /\ UNCHANGED <<now, cache, uids, default_game, bound, stored, calls>>

CancelWaiting(t) ==
    /\ task[t].pc = "waiting"
    /\ Leave(t, "failed")
    /\ UNCHANGED <<now, cache, uids, default_game, bound, stored, calls>>

\* another request of the client that is cached
Other(k) ==
    /\ cache' = Set(Cleared(cache), k, {})
    /\ UNCHANGED <<now, lock, task, uids, default_game, bound, stored, calls>>

Bind(g) ==
    /\ bound[g] = Never
    /\ bound' = [bound EXCEPT ![g] = now]
    /\ UNCHANGED <<now, cache, lock, task, uids, default_game, stored, calls>>

Tick ==
    /\ now < MaxTime /\ now' = now + 1
    /\ \A t \in Tasks : task[t].pc \in {"sent", "served"} => now < task[t].since + Transit
    /\ \A t \in Tasks : task[t].pc \notin {"found", "notFound"}
    /\ UNCHANGED <<cache, lock, task, uids, default_game, bound, stored, calls>>

\* The caller goes on with what it got.
Return(t) ==
    /\ task[t].pc \in {"found", "notFound", "failed"}
    /\ Becomes(t, "idle")
    /\ UNCHANGED <<now, cache, lock, uids, default_game, bound, stored, calls>>

Step(t) == Enter(t) \/ Serve(t) \/ Arrive(t) \/ Fail(t)

Next ==
    \/ \E t \in Tasks : Call(t) \/ Step(t) \/ CancelWaiting(t) \/ Return(t)
    \/ (\E k \in Others : Other(k)) \/ (\E g \in Games : Bind(g)) \/ Tick

-----------------------------------------------------------------------------
\* The cache never holds more than maxsize keys, and none twice.
\* (Cache.set, _clear_cache)
CacheKeeps ==
    /\ Len(cache) <= maxsize
    /\ \A i, j \in DOMAIN cache : cache[i].key = cache[j].key => i = j

\* However many tasks ask at once and however many of them fail, the accounts
\* are fetched once and then not before the cache has forgotten them.
\* (prevent_concurrency, get_game_accounts)
FetchedOnce ==
    Others = {} /\ ~Static => \A i \in 1 .. Len(stored) - 1 : stored[i + 1] > stored[i] + ttl

\* How long an answer is remembered.
Memory == IF Static THEN 0 ELSE ttl

\* A caller is told that an account has none for a game only if that was so
\* not longer ago than the cache remembers and a request takes.
NotFoundIsRecent ==
    \A t \in Tasks : task[t].pc = "notFound" => bound[task[t].game] >= now - Memory - Transit
=============================================================================

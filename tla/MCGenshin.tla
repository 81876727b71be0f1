----------------------------- MODULE MCGenshin -----------------------------
(***************************************************************************)
(* The parts of genshin.py for TLC.  They share no state, so a behaviour    *)
(* explores one of them and leaves the others as they begin: rotating       *)
(* cookies of two tasks or of one (CookieRotation), paginators of four      *)
(* kinds (Paginators), and the uid lookup with the cache to itself or       *)
(* shared, with the client's default cache, or with several accounts         *)
(* (UidLookup).                                                              *)
(***************************************************************************)
EXTENDS Integers, Sequences, FiniteSets

CONSTANTS
    MAX_USES, Tries, t1, t2,                       \* CookieRotation
    PageSize, Limit, Arrivals, Failures,           \* Paginators
    g1, g2, NoGame, ttl, Transit                   \* UidLookup

ASSUME RotationAssumption == MAX_USES \in Nat \ {0}
ASSUME PagesAssumption == PageSize \in Nat \ {0} /\ Limit \in Nat /\ Arrivals \in Nat /\ Failures \in Nat
ASSUME LookupAssumption == ttl \in Nat /\ Transit \in Nat

VARIABLES
    part,
    cookies, call, made, dead, counted,
    start, server, source, prepared, heap, first, out, pc, arrived, failed,
    now, cache, lock, task, uids, default_game, bound, stored, calls

rotation == <<cookies, call, made, dead, counted>>
pages    == <<start, server, source, prepared, heap, first, out, pc, arrived, failed>>
lookup   == <<now, cache, lock, task, uids, default_game, bound, stored, calls>>
state    == <<part, rotation, pages, lookup>>

Tasks == {t1, t2}

(* The cookies of the setting s: two tasks, or one whose cookies stay valid. *)
Cookies(s) == INSTANCE CookieRotation
    WITH Accounts <- s.accounts, Tasks <- s.tasks, MaxCalls <- s.calls, Expires <- s.expires

TwoTasks == [accounts |-> <<"a", "b">>, tasks |-> Tasks, calls |-> 3, expires |-> TRUE]
OneTask  == [accounts |-> <<"a", "b">>, tasks |-> {t1}, calls |-> 7, expires |-> FALSE]

(* The paginators of the setting p.                                         *)
Pages(p) == INSTANCE Paginators
    WITH Kind <- p.kind, Newest <- p.newest, KnownSize <- p.known, Limit <- p.limit, Starts <- p.starts,
         Latest <- p.latest, Arrivals <- p.arrivals, FailsEarly <- p.failsEarly

(* One list of up to five items, and the ways to deal four to two lists. *)
Ascends(l) == \A i, j \in DOMAIN l : i < j => l[i] < l[j]
Lists == {l \in UNION {[1 .. n -> 1 .. 4] : n \in 0 .. 4} : Ascends(l)}
Has(l, id) == \E i \in DOMAIN l : l[i] = id
One == {<<[i \in 1 .. n |-> i]>> : n \in 0 .. 5}
Two == {<<d[1], d[2]>> : d \in {e \in Lists \X Lists : \A id \in 1 .. 4 : Has(e[1], id) <=> ~Has(e[2], id)}}

(* Two sources by cursor, merged by time, the least first, as wish_history   *)
(* does it, and merged in the order that the sources themselves have; what   *)
(* _prepare loses when a first request fails is left out.  Then one source   *)
(* whose page size is guessed from the first page, which an empty list does  *)
(* not survive; one source by page number, whose list must not grow; and two *)
(* by token with a limit.                                                    *)
Wishes  == [kind |-> "cursor", newest |-> FALSE, known |-> PageSize, limit |-> 0,
            starts |-> Two, latest |-> 4, arrivals |-> Arrivals, failsEarly |-> FALSE]
Aligned == [kind |-> "cursor", newest |-> TRUE, known |-> PageSize, limit |-> 0,
            starts |-> Two, latest |-> 4, arrivals |-> Arrivals, failsEarly |-> FALSE]
Guessed == [kind |-> "cursor", newest |-> TRUE, known |-> -1, limit |-> 0,
            starts |-> One \ {<< <<>> >>}, latest |-> 5, arrivals |-> Arrivals, failsEarly |-> TRUE]
Paged   == [kind |-> "paged", newest |-> TRUE, known |-> -1, limit |-> 0,
            starts |-> One, latest |-> 5, arrivals |-> 0, failsEarly |-> TRUE]
Limited == [kind |-> "token", newest |-> FALSE, known |-> PageSize, limit |-> Limit,
            starts |-> Two, latest |-> 4, arrivals |-> Arrivals, failsEarly |-> TRUE]

(* The lookup in the setting s: the cache to itself, or shared with requests *)
(* of two other kinds; the cache of a client to which none was given; and    *)
(* cookies of several accounts.                                             *)
Uids(s) == INSTANCE UidLookup
    WITH Games <- s.games, Others <- s.others, maxsize <- s.maxsize,
         MaxCalls <- s.calls, MaxTime <- s.time, Static <- s.static, Multi <- s.multi

OwnCache     == [games |-> {g1, g2}, others |-> {}, maxsize |-> 1, calls |-> 3, time |-> 2,
                 static |-> FALSE, multi |-> FALSE]
SharedCache  == [games |-> {g1}, others |-> {"x", "y"}, maxsize |-> 2, calls |-> 2, time |-> 3,
                 static |-> FALSE, multi |-> FALSE]
DefaultCache == [OwnCache EXCEPT !.static = TRUE, !.calls = 2]
ManyCookies  == [OwnCache EXCEPT !.multi = TRUE]

LookupOf(p) == CASE p = "shared cache"  -> SharedCache
                 [] p = "default cache" -> DefaultCache
                 [] p = "many cookies"  -> ManyCookies
                 [] OTHER               -> OwnCache
LookupParts == {"own cache", "shared cache", "default cache", "many cookies"}
EndingParts == {"own cache", "many cookies"}

GenshinInit ==
    /\ part \in {"two tasks", "one task", "wishes", "aligned", "guessed", "paged", "limited",
                 "own cache", "shared cache", "default cache", "many cookies"}
    /\ IF part = "one task" THEN Cookies(OneTask)!Init ELSE Cookies(TwoTasks)!Init
    /\ CASE part = "wishes"  -> Pages(Wishes)!Init
         [] part = "aligned" -> Pages(Aligned)!Init
         [] part = "guessed" -> Pages(Guessed)!Init
         [] part = "paged"   -> Pages(Paged)!Init
         [] part = "limited" -> Pages(Limited)!Init
         [] OTHER            -> Pages(Paged)!Init /\ start = << <<>> >>
    /\ IF part = "shared cache" THEN Uids(SharedCache)!Init ELSE Uids(OwnCache)!Init

GenshinNext ==
    /\ part' = part
    /\ \/ /\ part = "two tasks" /\ Cookies(TwoTasks)!Next
          /\ UNCHANGED <<pages, lookup>>
       \/ /\ part = "one task" /\ Cookies(OneTask)!Next
          /\ UNCHANGED <<pages, lookup>>
       \/ /\ part = "wishes" /\ Pages(Wishes)!Next
          /\ UNCHANGED <<rotation, lookup>>
       \/ /\ part = "aligned" /\ Pages(Aligned)!Next
          /\ UNCHANGED <<rotation, lookup>>
       \/ /\ part = "guessed" /\ Pages(Guessed)!Next
          /\ UNCHANGED <<rotation, lookup>>
       \/ /\ part = "paged" /\ Pages(Paged)!Next
          /\ UNCHANGED <<rotation, lookup>>
       \/ /\ part = "limited" /\ Pages(Limited)!Next
          /\ UNCHANGED <<rotation, lookup>>
       \/ /\ \E p \in LookupParts : part = p /\ Uids(LookupOf(p))!Next
          /\ UNCHANGED <<rotation, pages>>

(* The event loop resumes every task that can go on, the server answers, and *)
(* async for takes items until there are none.                               *)
Rotates(A)  == part = "two tasks" /\ A /\ UNCHANGED <<part, pages, lookup>>
Takes(p, A) == part = p /\ A /\ UNCHANGED <<part, rotation, lookup>>
Looks(p, A) == part = p /\ A /\ UNCHANGED <<part, rotation, pages>>
Fairness ==
    /\ \A t \in Tasks : WF_state(Rotates(Cookies(TwoTasks)!Step(t)))
    /\ WF_state(Takes("wishes", Pages(Wishes)!Take_next))
    /\ WF_state(Takes("aligned", Pages(Aligned)!Take_next))
    /\ WF_state(Takes("guessed", Pages(Guessed)!Take_next))
    /\ WF_state(Takes("paged", Pages(Paged)!Take_next))
    /\ WF_state(Takes("limited", Pages(Limited)!Take_next))
    /\ \A t \in Tasks, p \in EndingParts :
          /\ WF_state(Looks(p, Uids(LookupOf(p))!Step(t)))
          /\ WF_state(Looks(p, Uids(LookupOf(p))!Return(t)))

GenshinSpec == GenshinInit /\ [][GenshinNext]_state /\ Fairness

-----------------------------------------------------------------------------
(* Properties *)

(* "All cookies have hit their request limit" is raised only when every      *)
(* cookie refused this very request or is refused for good, and whatever     *)
(* concurrent requests write back, only a cookie of the latter kind is lost. *)
(* While no two requests overlap the uses of a cookie are those that were.   *)
AllWereTried ==
    /\ part = "two tasks" => Cookies(TwoTasks)!AllWereTried /\ Cookies(TwoTasks)!OnlyInvalidLost
    /\ part = "one task" => Cookies(OneTask)!UsesCounted

(* However the lists grow and whichever requests fail on the way, no item is *)
(* given twice, what there was at first is given completely or up to the     *)
(* limit.  Of each source the newest come first, and of a merge when the     *)
(* sources have its order.                                                   *)
EachOnce ==
    /\ part = "wishes" => Pages(Wishes)!EachOnce /\ Pages(Wishes)!SourcesInOrder
    /\ part = "aligned" => Pages(Aligned)!EachOnce /\ Pages(Aligned)!NewestFirst
    /\ part = "guessed" => Pages(Guessed)!EachOnce /\ Pages(Guessed)!NewestFirst
    /\ part = "paged" => Pages(Paged)!EachOnce
    /\ part = "limited" => Pages(Limited)!WithinLimit /\ Pages(Limited)!SourcesInOrder

(* However many tasks look for a uid and however many of them fail, the      *)
(* accounts are fetched once for as long as the cache remembers them; an     *)
(* account is reported missing only if it was missing that recently, which   *)
(* with the default cache is while the request took; and the cache, shared  *)
(* with other requests, keeps to maxsize with no key twice.                 *)
UidsCurrent ==
    /\ part = "own cache" => Uids(OwnCache)!FetchedOnce
    /\ part = "shared cache" => Uids(SharedCache)!CacheKeeps /\ Uids(SharedCache)!NotFoundIsRecent
    /\ part = "default cache" => Uids(DefaultCache)!NotFoundIsRecent

(* Every request comes to an end, with data or an error, every list of items *)
(* to its last, and every lookup returns, whichever before it failed or were *)
(* cancelled.  The tasks are alike, so that t1 stands for both.              *)
AllEnd ==
    /\ part \in {"wishes", "aligned", "guessed", "paged", "limited"} ~> pc = "complete"
    /\ part = "two tasks" /\ call[t1].pc = "next"
         ~> call[t1].pc \in {"data", "TooManyRequests", "VisitsTooFrequently"}
    /\ part \in EndingParts /\ task[t1].pc = "waiting" ~> task[t1].pc = "idle"
=============================================================================

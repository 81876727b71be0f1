---------------------------- MODULE CookieRotation ----------------------------
(***************************************************************************)
(* genshin.py's RotatingCookieManager: requests of several tasks on one     *)
(* event loop go through the cookies of several accounts, and each answer   *)
(* changes the dictionary all of them copied when they began.               *)
(***************************************************************************)
EXTENDS Integers, Sequences

CONSTANTS
    Accounts,     \* the accounts of the cookies, in the order they were given
    Tasks,
    MAX_USES,     \* 30 in the code
    Tries,        \* handle_ratelimits: 5 in the code
    MaxCalls,     \* bound: requests made
    Expires       \* may cookies become invalid at the server

VARIABLES
    cookies,      \* the dictionary: pairs of an account and its uses, in order
    call,         \* what each task's request is doing
    made,         \* requests made so far
    dead,         \* the server's: cookies it refuses for good
    counted       \* answers with data since the cookie was last put on cooldown

vars == <<cookies, call, made, dead, counted>>

Idle == [pc |-> "idle", left |-> <<>>, tries |-> 0, answer |-> "none", refused |-> {}]
Ids == {Accounts[i] : i \in DOMAIN Accounts}
Has(d, a) == \E i \in DOMAIN d : d[i][1] = a
Kept == {a \in Ids : Has(cookies, a)}

\* d[a] = uses: in its place, or at the end when the key is new
Put(d, a, uses) ==
    IF Has(d, a) THEN [i \in DOMAIN d |-> IF d[i][1] = a THEN <<a, uses>> ELSE d[i]]
    ELSE Append(d, <<a, uses>>)

\* del d[a]
Delete(d, a) ==
    IF ~Has(d, a) THEN d
    ELSE LET k == CHOOSE i \in DOMAIN d : d[i][1] = a
         IN  [i \in 1 .. Len(d) - 1 |-> IF i < k THEN d[i] ELSE d[i + 1]]

-----------------------------------------------------------------------------
Init ==
    /\ cookies = [i \in DOMAIN Accounts |-> <<Accounts[i], 0>>]
    /\ call = [t \in Tasks |-> Idle]
    /\ made = 0 /\ dead = {}
    /\ counted = [a \in Ids |-> 0]

Becomes(t, c) == call' = [call EXCEPT ![t] = c]

\* Seeded error: cookies on cooldown are not tried.
Request_SkipsCooldown(t) ==
    /\ call[t].pc \in {"idle", "data", "TooManyRequests", "VisitsTooFrequently"}
    /\ made < MaxCalls /\ made' = made + 1
    /\ Becomes(t, [call[t] EXCEPT !.pc = "next", !.left = SelectSeq(cookies, LAMBDA e : e[2] < MAX_USES),
                                  !.tries = 0, !.refused = {}])
    /\ UNCHANGED <<cookies, dead, counted>>

\* request(): with no cookies left it raises RuntimeError at once
Request(t) ==
    /\ call[t].pc \in {"idle", "data", "TooManyRequests", "VisitsTooFrequently"}
    /\ made < MaxCalls /\ made' = made + 1
    /\ Becomes(t, IF cookies = <<>> THEN [call[t] EXCEPT !.pc = "idle"]
                  ELSE [call[t] EXCEPT !.pc = "next", !.left = cookies, !.tries = 0, !.refused = {}])
    /\ UNCHANGED <<cookies, dead, counted>>

\* The loop's head: the next cookie is sent, or all were tried.
Send(t) ==
    /\ call[t].pc = "next"
    /\ Becomes(t, [call[t] EXCEPT !.pc = IF call[t].left = <<>> THEN "TooManyRequests" ELSE "sent", !.tries = 0])
    /\ UNCHANGED <<cookies, made, dead, counted>>

\* The server handles what was sent; its answers arrive in any order.
Serve(t) ==
    /\ call[t].pc = "sent"
    /\ \E answer \in IF Head(call[t].left)[1] \in dead THEN {"InvalidCookies"}
                     ELSE {"data", "TooManyRequests", "VisitsTooFrequently"} :
         Becomes(t, [call[t] EXCEPT !.pc = "answered", !.answer = answer])
    /\ UNCHANGED <<cookies, made, dead, counted>>

Expire(a) ==
    /\ Expires /\ a \notin dead
    /\ dead' = dead \cup {a}
    /\ UNCHANGED <<cookies, call, made, counted>>

\* handle_ratelimits: the same cookie again after a delay, up to Tries times
TooFrequent(t) ==
    /\ call[t].pc = "answered" /\ call[t].answer = "VisitsTooFrequently"
    /\ Becomes(t, [call[t] EXCEPT !.tries = @ + 1,
                                  !.pc = IF call[t].tries + 1 < Tries THEN "sent" ELSE "VisitsTooFrequently"])
    /\ UNCHANGED <<cookies, made, dead, counted>>

Used(uses) == IF uses >= MAX_USES THEN 1 ELSE uses + 1

\* the else branch: data is returned
Data(t) ==
    LET a == Head(call[t].left)[1]
    IN /\ call[t].pc = "answered" /\ call[t].answer = "data"
       /\ cookies' = Put(cookies, a, Used(Head(call[t].left)[2]))
       /\ counted' = [counted EXCEPT ![a] = IF @ = MAX_USES THEN 1 ELSE @ + 1]
       /\ Becomes(t, [call[t] EXCEPT !.pc = "data"])
       /\ UNCHANGED <<made, dead>>

Refused(t, a) == [call[t] EXCEPT !.pc = "next", !.left = Tail(@), !.refused = @ \cup {a}]

TooMany(t) ==
    LET a == Head(call[t].left)[1]
    IN /\ call[t].pc = "answered" /\ call[t].answer = "TooManyRequests"
       /\ cookies' = Put(cookies, a, MAX_USES)
       /\ counted' = [counted EXCEPT ![a] = MAX_USES]
       /\ Becomes(t, Refused(t, a))
       /\ UNCHANGED <<made, dead>>

Invalid(t) ==
    LET a == Head(call[t].left)[1]
    IN /\ call[t].pc = "answered" /\ call[t].answer = "InvalidCookies"
       /\ cookies' = Delete(cookies, a)
       /\ Becomes(t, Refused(t, a))
       /\ UNCHANGED <<made, dead, counted>>

Step(t) == Send(t) \/ Serve(t) \/ TooFrequent(t) \/ Data(t) \/ TooMany(t) \/ Invalid(t)

Next == (\E t \in Tasks : Request(t) \/ Step(t)) \/ (\E a \in Ids : Expire(a))

-----------------------------------------------------------------------------
\* Whatever concurrent requests write back, an account is lost from the
\* dictionary only when the server refused its cookie for good.
\* (RotatingCookieManager.request)
OnlyInvalidLost == Ids \ Kept \subseteq dead

\* "All cookies have hit their request limit" is raised only when every cookie
\* refused this very request or is refused for good: none that might have
\* answered is skipped, whatever other requests do to the dictionary meanwhile.
AllWereTried ==
    \A t \in Tasks : call[t].pc = "TooManyRequests" => Ids \subseteq call[t].refused \cup dead

\* While no two requests overlap, the uses of a cookie are the answers it got
\* since its last cooldown, which count it as MAX_USES.  (uses)
UsesCounted ==
    \A i \in DOMAIN cookies : cookies[i][2] = counted[cookies[i][1]]
=============================================================================

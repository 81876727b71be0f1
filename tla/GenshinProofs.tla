--------------------------- MODULE GenshinProofs ---------------------------
(***************************************************************************)
(* Proofs about genshin.py.  Of RotatingCookieManager: a request gives up   *)
(* only when every cookie was refused to it or is refused for good, whatever *)
(* the tasks that share the dictionary do in between.  Of _get_uid: the     *)
(* accounts are fetched once for as long as the cache keeps them, and what   *)
(* a caller is told is as recent as that.  Of the paginators: no item comes  *)
(* twice and none is left out, while lists grow and requests fail.  The      *)
(* lemmas are about any setting s or z (accounts, games, kind of paginator,  *)
(* bounds); the theorems put them together for the settings of MCGenshin.    *)
(***************************************************************************)
EXTENDS MCGenshin, SequenceTheorems, FiniteSetTheorems, WellFoundedInduction, TLAPS

-----------------------------------------------------------------------------
(* The dictionary of cookies.                                               *)

Ids(s)     == {s.accounts[i] : i \in DOMAIN s.accounts}
Entries(s) == Ids(s) \X (0 .. MAX_USES)
Dicts(s)   == Seq(Entries(s))

(* A key is in a dictionary once. *)
Keyed(d) == \A i, j \in DOMAIN d : d[i][1] = d[j][1] => i = j

In(d, a) == \E i \in DOMAIN d : d[i][1] = a

Setting(s) == \E n \in Nat : DOMAIN s.accounts = 1 .. n /\ \A i, j \in 1 .. n : s.accounts[i] = s.accounts[j] => i = j

LEMMA NamesOf ==
    ASSUME NEW s
    PROVE  Cookies(s)!Ids = Ids(s) /\ \A d, a : Cookies(s)!Has(d, a) <=> In(d, a)
<1>1. Cookies(s)!Ids = Ids(s)
  BY DEF Cookies!Ids, Ids
<1>2. \A d, a : Cookies(s)!Has(d, a) <=> In(d, a)
  BY DEF Cookies!Has, In
<1> QED BY <1>1, <1>2

LEMMA EntryIs ==
    ASSUME NEW s, NEW d \in Dicts(s)
    PROVE  /\ Len(d) \in Nat /\ DOMAIN d = 1 .. Len(d)
           /\ \A i \in DOMAIN d : d[i] \in Entries(s) /\ d[i][1] \in Ids(s) /\ d[i][2] \in 0 .. MAX_USES
<1>1. Len(d) \in Nat /\ DOMAIN d = 1 .. Len(d) /\ \A i \in 1 .. Len(d) : d[i] \in Entries(s)
  BY DEF Dicts
<1>2. \A e \in Entries(s) : e[1] \in Ids(s) /\ e[2] \in 0 .. MAX_USES
  BY DEF Entries
<1> QED BY <1>1, <1>2

(* What d[a] = u makes of d. *)
Assigned(s, d, a, u, r) ==
    /\ r \in Dicts(s)
    /\ \A b : In(d, b) \/ b = a => In(r, b)
    /\ \A i \in DOMAIN r : \/ r[i][1] = a /\ r[i][2] = u
                           \/ r[i][1] # a /\ \E j \in DOMAIN d : r[i] = d[j]
    /\ Keyed(d) => Keyed(r)

LEMMA PutIs ==
    ASSUME NEW s, NEW d \in Dicts(s), NEW a \in Ids(s), NEW u \in 0 .. MAX_USES,
           NEW r, r = Cookies(s)!Put(d, a, u)
    PROVE  Assigned(s, d, a, u, r)
<1> DEFINE e == <<a, u>>
<1>1. e \in Entries(s) /\ e[1] = a /\ e[2] = u
  BY DEF Entries
<1>2. r = IF In(d, a) THEN [i \in DOMAIN d |-> IF d[i][1] = a THEN e ELSE d[i]] ELSE Append(d, e)
  BY NamesOf DEF Cookies!Put
<1> HIDE DEF e
<1>3. /\ Len(d) \in Nat /\ DOMAIN d = 1 .. Len(d) /\ \A i \in 1 .. Len(d) : d[i] \in Entries(s)
  BY EntryIs
<1>4. CASE In(d, a)
  <2>1. r = [i \in 1 .. Len(d) |-> IF d[i][1] = a THEN e ELSE d[i]]
    BY <1>2, <1>3, <1>4
  <2>2. r \in Dicts(s) /\ DOMAIN r = 1 .. Len(d) /\ \A i \in 1 .. Len(d) : r[i] = IF d[i][1] = a THEN e ELSE d[i]
    BY <1>1, <1>3, <2>1 DEF Dicts
  <2>3. \A i \in 1 .. Len(d) : r[i][1] = d[i][1]
    BY <1>1, <2>2
  <2>4. \A b : In(d, b) \/ b = a => In(r, b)
    BY <1>3, <1>4, <2>2, <2>3 DEF In
  <2>5. \A i \in DOMAIN r : \/ r[i][1] = a /\ r[i][2] = u
                            \/ r[i][1] # a /\ \E j \in DOMAIN d : r[i] = d[j]
    BY <1>1, <1>3, <2>2
  <2>6. Keyed(d) => Keyed(r)
    BY <1>3, <2>2, <2>3 DEF Keyed
  <2> QED BY <2>2, <2>4, <2>5, <2>6 DEF Assigned
<1>5. CASE ~In(d, a)
  <2> DEFINE n == Len(d)
  <2>1. /\ r \in Dicts(s) /\ DOMAIN r = 1 .. (n + 1) /\ r[n + 1] = e
        /\ \A i \in 1 .. n : r[i] = d[i]
    <3>1. d \in Seq(Entries(s)) /\ r = Append(d, e)
      BY <1>2, <1>5 DEF Dicts
    <3> QED BY <1>1, <3>1 DEF Dicts
  <2>2. \A i \in DOMAIN r : (i \in 1 .. n /\ r[i] = d[i]) \/ (i = n + 1 /\ r[i] = e)
    BY <1>3, <2>1
  <2>3. \A i \in 1 .. n : i \in DOMAIN r /\ d[i][1] # a
    BY <1>3, <1>5, <2>1 DEF In
  <2>4. n + 1 \in DOMAIN r
    BY <1>3, <2>1
  <2> HIDE DEF n
  <2>5. DOMAIN d = 1 .. n
    BY <1>3 DEF n
  <2>6. \A b : In(d, b) \/ b = a => In(r, b)
    BY <1>1, <2>1, <2>3, <2>4, <2>5 DEF In
  <2>7. \A i \in DOMAIN r : \/ r[i][1] = a /\ r[i][2] = u
                            \/ r[i][1] # a /\ \E j \in DOMAIN d : r[i] = d[j]
    BY <1>1, <2>2, <2>3, <2>5
  <2>8. Keyed(d) => Keyed(r)
    BY <1>1, <2>2, <2>3, <2>5 DEF Keyed
  <2> QED BY <2>1, <2>6, <2>7, <2>8 DEF Assigned
<1> QED BY <1>4, <1>5

(* What del d[a] makes of d. *)
Deleted(s, d, a, r) ==
    /\ r \in Dicts(s)
    /\ \A b : In(d, b) /\ b # a => In(r, b)
    /\ \A i \in DOMAIN r : \E j \in DOMAIN d : r[i] = d[j]
    /\ Keyed(d) => Keyed(r)

LEMMA DeleteIs ==
    ASSUME NEW s, NEW d \in Dicts(s), NEW a, NEW r, r = Cookies(s)!Delete(d, a)
    PROVE  Deleted(s, d, a, r)
<1>1. CASE ~In(d, a)
  <2>1. r = d
    BY <1>1, NamesOf DEF Cookies!Delete
  <2> QED BY <2>1 DEF Deleted
<1>2. CASE In(d, a)
  <2> DEFINE k == CHOOSE i \in DOMAIN d : d[i][1] = a
             n == Len(d)
             From(i) == IF i < k THEN i ELSE i + 1
  <2>1. k \in DOMAIN d /\ d[k][1] = a
    BY <1>2 DEF In
  <2>2. r = [i \in 1 .. n - 1 |-> IF i < k THEN d[i] ELSE d[i + 1]]
    BY <1>2, NamesOf DEF Cookies!Delete
  <2>3. n \in Nat /\ DOMAIN d = 1 .. n /\ \A i \in 1 .. n : d[i] \in Entries(s)
    BY EntryIs
  <2> HIDE DEF k, n
  <2>4. k \in 1 .. n /\ n - 1 \in Nat
    BY <2>1, <2>3
  <2>5. \A i \in 1 .. n - 1 : From(i) \in 1 .. n /\ From(i) # k
    BY <2>3, <2>4
  <2>6. DOMAIN r = 1 .. n - 1 /\ \A i \in 1 .. n - 1 : r[i] = d[From(i)]
    BY <2>2
  <2>7. \A i, j \in 1 .. n - 1 : From(i) = From(j) => i = j
    BY <2>3, <2>4
  <2>8. \A j \in 1 .. n : j # k => \E i \in 1 .. n - 1 : From(i) = j
    <3>1. TAKE j \in 1 .. n
    <3>2. HAVE j # k
    <3>3. CASE j < k
      <4>1. j \in 1 .. n - 1
        BY <2>3, <2>4, <3>3
      <4>2. From(j) = j
        BY <3>3
      <4> QED BY <4>1, <4>2
    <3>4. CASE j > k
      <4> DEFINE i == j - 1
      <4>1. i \in 1 .. n - 1 /\ ~(i < k) /\ i + 1 = j
        BY <2>3, <2>4, <3>4
      <4> HIDE DEF i
      <4>2. From(i) = j
        BY <4>1
      <4> QED BY <4>1, <4>2
    <3> QED BY <2>4, <3>2, <3>3, <3>4
  <2> HIDE DEF From
  <2>9. r \in Dicts(s)
    <3>1. \A i \in 1 .. n - 1 : (IF i < k THEN d[i] ELSE d[i + 1]) = d[From(i)]
      BY DEF From
    <3>2. \A i \in 1 .. n - 1 : (IF i < k THEN d[i] ELSE d[i + 1]) \in Entries(s)
      BY <2>3, <2>5, <3>1
    <3> QED BY <2>2, <2>4, <3>2 DEF Dicts
  <2>10. \A b : In(d, b) /\ b # a => In(r, b)
    <3>1. SUFFICES ASSUME NEW b, In(d, b), b # a PROVE In(r, b)
      OBVIOUS
    <3>2. PICK j \in 1 .. n : d[j][1] = b
      BY <2>3, <3>1 DEF In
    <3>3. PICK i \in 1 .. n - 1 : From(i) = j
      BY <2>1, <2>8, <3>1, <3>2
    <3> QED BY <2>6, <3>2, <3>3 DEF In
  <2>11. \A i \in DOMAIN r : \E j \in DOMAIN d : r[i] = d[j]
    BY <2>3, <2>5, <2>6
  <2>12. Keyed(d) => Keyed(r)
    BY <2>3, <2>5, <2>6, <2>7 DEF Keyed
  <2> QED BY <2>9, <2>10, <2>11, <2>12 DEF Deleted
<1> QED BY <1>1, <1>2

(* The next cookies of a request. *)
Rest(d) == Tail(d)

LEMMA RestIs ==
    ASSUME NEW s, NEW d \in Dicts(s), d # <<>>
    PROVE  /\ 1 \in DOMAIN d /\ Head(d) = d[1] /\ Rest(d) \in Dicts(s)
           /\ \A b : In(d, b) => b = d[1][1] \/ In(Rest(d), b)
           /\ \A i \in DOMAIN Rest(d) : i + 1 \in DOMAIN d /\ Rest(d)[i] = d[i + 1] /\ i # 0
<1> DEFINE n == Len(d)
<1>1. d \in Seq(Entries(s)) /\ n \in Nat /\ DOMAIN d = 1 .. n /\ n # 0 /\ Head(d) = d[1]
  BY DEF Dicts
<1>2. /\ Tail(d) \in Seq(Entries(s)) /\ Len(Tail(d)) = n - 1
      /\ \A i \in 1 .. Len(Tail(d)) : Tail(d)[i] = d[i + 1]
  BY <1>1, HeadTailProperties
<1> DEFINE t == Rest(d)
<1>3. t \in Seq(Entries(s)) /\ DOMAIN t = 1 .. (n - 1) /\ \A i \in 1 .. (n - 1) : t[i] = d[i + 1]
  BY <1>2 DEF Rest
<1> HIDE DEF t, n
<1>4. \A i \in 1 .. (n - 1) : i + 1 \in 1 .. n /\ i # 0
  BY <1>1
<1>5. ASSUME NEW b, In(d, b) PROVE b = d[1][1] \/ In(t, b)
  <2>1. PICK i \in 1 .. n : d[i][1] = b
    BY <1>1, <1>5 DEF In
  <2>2. CASE i # 1
    <3>1. i - 1 \in 1 .. (n - 1) /\ i - 1 + 1 = i
      BY <1>1, <2>2
    <3> QED BY <1>3, <2>1, <3>1 DEF In
  <2> QED BY <2>1, <2>2
<1>6. 1 \in 1 .. n
  BY <1>1
<1> QED BY <1>1, <1>3, <1>4, <1>5, <1>6 DEF t, Dicts

-----------------------------------------------------------------------------
(* Requests that rotate the cookies.                                        *)

Answers == {"none", "InvalidCookies", "data", "TooManyRequests", "VisitsTooFrequently"}
Going   == {"next", "sent", "answered"}
Requests(s) == [pc: Going \cup {"idle", "data", "TooManyRequests", "VisitsTooFrequently"}, left: Dicts(s),
                tries: Nat, answer: Answers, refused: SUBSET Ids(s)]

RotationType(s) ==
    /\ cookies \in Dicts(s) /\ dead \subseteq Ids(s)
    /\ call \in [s.tasks -> Requests(s)]

(* An account that is not in the dictionary was refused for good. *)
NoneLost(s) == \A a \in Ids(s) : a \in dead \/ In(cookies, a)

(* What a request has copied, less what refused it, is what it has to try;   *)
(* D are the accounts refused for good.                                     *)
Trying(s, c, D) ==
    /\ c.pc \in Going \cup {"TooManyRequests"} =>
          \A a \in Ids(s) : a \in D \/ a \in c.refused \/ In(c.left, a)
    /\ c.pc \in {"sent", "answered"} => c.left # <<>>
    /\ c.pc = "TooManyRequests" => c.left = <<>>
    /\ c.pc = "answered" /\ c.answer = "InvalidCookies" => c.left[1][1] \in D

RotationInv(s) == RotationType(s) /\ NoneLost(s) /\ \A t \in s.tasks : Trying(s, call[t], dead)

LEMMA OneCall ==
    ASSUME NEW s, RotationInv(s), NEW t \in s.tasks, NEW c, c \in Requests(s), Trying(s, c, dead),
           call' = [call EXCEPT ![t] = c], dead' = dead,
           cookies' \in Dicts(s), NoneLost(s)'
    PROVE  RotationInv(s)'
<1> DEFINE g == [call EXCEPT ![t] = c]
<1>1. call \in [s.tasks -> Requests(s)] /\ dead \subseteq Ids(s) /\ \A u \in s.tasks : Trying(s, call[u], dead)
  BY DEF RotationInv, RotationType
<1>2. g \in [s.tasks -> Requests(s)] /\ g[t] = c /\ \A u \in s.tasks : u # t => g[u] = call[u]
  BY <1>1
<1> HIDE DEF g
<1>3. \A u \in s.tasks : Trying(s, g[u], dead)
  BY <1>1, <1>2
<1>4. call' = g
  BY DEF g
<1>5. RotationType(s)'
  BY <1>1, <1>2, <1>4 DEF RotationType
<1>6. \A u \in s.tasks : Trying(s, call[u], dead)'
  BY <1>3, <1>4
<1> QED BY <1>5, <1>6 DEF RotationInv

LEMMA RotationStarts ==
    ASSUME NEW s, Setting(s), Cookies(s)!Init
    PROVE  RotationInv(s)
<1>1. PICK n \in Nat : DOMAIN s.accounts = 1 .. n
  BY DEF Setting
<1>2. /\ cookies = [i \in 1 .. n |-> <<s.accounts[i], 0>>] /\ dead = {}
      /\ call = [t \in s.tasks |-> Cookies(s)!Idle]
  BY <1>1 DEF Cookies!Init
<1>3. Cookies(s)!Idle \in Requests(s) /\ Cookies(s)!Idle.pc = "idle"
  <2>1. <<>> \in Dicts(s)
    BY DEF Dicts
  <2> QED BY <2>1 DEF Cookies!Idle, Requests, Answers
<1>4. \A i \in 1 .. n : <<s.accounts[i], 0>> \in Entries(s)
  BY <1>1, RotationAssumption DEF Entries, Ids
<1>5. cookies \in Dicts(s)
  BY <1>2, <1>4 DEF Dicts
<1>6. NoneLost(s)
  BY <1>1, <1>2 DEF NoneLost, Ids, In
<1>7. \A t \in s.tasks : Trying(s, call[t], dead)
  BY <1>2, <1>3 DEF Trying, Going
<1> QED BY <1>2, <1>3, <1>5, <1>6, <1>7 DEF RotationInv, RotationType

LEMMA RequestKeeps ==
    ASSUME NEW s, RotationInv(s), NEW t \in s.tasks, Cookies(s)!Request(t)
    PROVE  RotationInv(s)'
<1> DEFINE c == IF cookies = <<>> THEN [call[t] EXCEPT !.pc = "idle"]
                ELSE [call[t] EXCEPT !.pc = "next", !.left = cookies, !.tries = 0, !.refused = {}]
<1>1. call[t] \in Requests(s) /\ cookies \in Dicts(s) /\ NoneLost(s)
  BY DEF RotationInv, RotationType
<1>2. call' = [call EXCEPT ![t] = c] /\ cookies' = cookies /\ dead' = dead
  BY DEF Cookies!Request, Cookies!Becomes
<1>3. c \in Requests(s)
  BY <1>1 DEF Requests, Going
<1>4. Trying(s, c, dead)
  BY <1>1 DEF Trying, NoneLost, Requests, Going
<1> HIDE DEF c
<1>5. cookies' \in Dicts(s) /\ NoneLost(s)'
  BY <1>1, <1>2 DEF NoneLost
<1> QED BY <1>2, <1>3, <1>4, <1>5, OneCall

LEMMA SendKeeps ==
    ASSUME NEW s, RotationInv(s), NEW t \in s.tasks, Cookies(s)!Send(t)
    PROVE  RotationInv(s)'
<1> DEFINE c == [call[t] EXCEPT !.pc = IF call[t].left = <<>> THEN "TooManyRequests" ELSE "sent", !.tries = 0]
<1>1. call[t] \in Requests(s) /\ cookies \in Dicts(s) /\ NoneLost(s) /\ Trying(s, call[t], dead)
  BY DEF RotationInv, RotationType
<1>2. call[t].pc = "next" /\ call' = [call EXCEPT ![t] = c] /\ cookies' = cookies /\ dead' = dead
  BY DEF Cookies!Send, Cookies!Becomes
<1>3. c \in Requests(s)
  BY <1>1 DEF Requests, Going
<1>4. Trying(s, c, dead)
  BY <1>1, <1>2 DEF Trying, Requests, Going
<1> HIDE DEF c
<1>5. cookies' \in Dicts(s) /\ NoneLost(s)'
  BY <1>1, <1>2 DEF NoneLost
<1> QED BY <1>2, <1>3, <1>4, <1>5, OneCall

LEMMA ServeKeeps ==
    ASSUME NEW s, RotationInv(s), NEW t \in s.tasks, Cookies(s)!Serve(t)
    PROVE  RotationInv(s)'
<1>1. call[t] \in Requests(s) /\ cookies \in Dicts(s) /\ NoneLost(s) /\ Trying(s, call[t], dead)
  BY DEF RotationInv, RotationType
<1>2. call[t].pc = "sent" /\ cookies' = cookies /\ dead' = dead
  BY DEF Cookies!Serve
<1>3. PICK answer \in IF Head(call[t].left)[1] \in dead THEN {"InvalidCookies"}
                      ELSE {"data", "TooManyRequests", "VisitsTooFrequently"} :
         call' = [call EXCEPT ![t] = [call[t] EXCEPT !.pc = "answered", !.answer = answer]]
  BY DEF Cookies!Serve, Cookies!Becomes
<1> DEFINE c == [call[t] EXCEPT !.pc = "answered", !.answer = answer]
<1>4. answer = "InvalidCookies" => call[t].left[1][1] \in dead
  <2>1. call[t].left \in Dicts(s) /\ call[t].left # <<>>
    BY <1>1, <1>2 DEF Trying, Requests
  <2>2. Head(call[t].left) = call[t].left[1]
    BY <2>1, RestIs
  <2> QED BY <1>3, <2>2
<1>5. c \in Requests(s)
  BY <1>1, <1>3 DEF Requests, Going, Answers
<1>6. Trying(s, c, dead)
  BY <1>1, <1>2, <1>4 DEF Trying, Requests, Going
<1>7. call' = [call EXCEPT ![t] = c]
  BY <1>3
<1> HIDE DEF c
<1>8. cookies' \in Dicts(s) /\ NoneLost(s)'
  BY <1>1, <1>2 DEF NoneLost
<1> QED BY <1>2, <1>5, <1>6, <1>7, <1>8, OneCall

LEMMA TooFrequentKeeps ==
    ASSUME NEW s, RotationInv(s), NEW t \in s.tasks, Cookies(s)!TooFrequent(t)
    PROVE  RotationInv(s)'
<1> DEFINE c == [call[t] EXCEPT !.tries = @ + 1,
                                !.pc = IF call[t].tries + 1 < Tries THEN "sent" ELSE "VisitsTooFrequently"]
<1>1. call[t] \in Requests(s) /\ cookies \in Dicts(s) /\ NoneLost(s) /\ Trying(s, call[t], dead)
  BY DEF RotationInv, RotationType
<1>2. call[t].pc = "answered" /\ call' = [call EXCEPT ![t] = c] /\ cookies' = cookies /\ dead' = dead
  BY DEF Cookies!TooFrequent, Cookies!Becomes
<1>3. c \in Requests(s)
  <2> DEFINE n == call[t].tries + 1
             p == IF call[t].tries + 1 < Tries THEN "sent" ELSE "VisitsTooFrequently"
  <2>1. n \in Nat /\ p \in {"sent", "VisitsTooFrequently"}
    BY <1>1 DEF Requests
  <2>2. c = [call[t] EXCEPT !.tries = n, !.pc = p]
    OBVIOUS
  <2> HIDE DEF n, p, c
  <2> QED BY <1>1, <2>1, <2>2 DEF Requests, Going
<1>4. Trying(s, c, dead)
  BY <1>1, <1>2 DEF Trying, Requests, Going
<1> HIDE DEF c
<1>5. cookies' \in Dicts(s) /\ NoneLost(s)'
  BY <1>1, <1>2 DEF NoneLost
<1> QED BY <1>2, <1>3, <1>4, <1>5, OneCall

(* An answer counts for the account at the front of what is left. *)
LEMMA FrontIs ==
    ASSUME NEW s, RotationInv(s), NEW t \in s.tasks, call[t].pc = "answered"
    PROVE  /\ call[t] \in Requests(s) /\ call[t].left \in Dicts(s) /\ call[t].left # <<>>
           /\ Head(call[t].left) = call[t].left[1] /\ 1 \in DOMAIN call[t].left
           /\ call[t].left[1][1] \in Ids(s) /\ call[t].left[1][2] \in 0 .. MAX_USES
<1>1. call[t] \in Requests(s) /\ Trying(s, call[t], dead)
  BY DEF RotationInv, RotationType
<1>2. call[t].left \in Dicts(s) /\ call[t].left # <<>>
  BY <1>1 DEF Requests, Trying
<1>3. Head(call[t].left) = call[t].left[1] /\ 1 \in DOMAIN call[t].left
  BY <1>2, RestIs
<1> QED BY <1>1, <1>2, <1>3, EntryIs

LEMMA UsedIs == ASSUME NEW s, NEW u \in 0 .. MAX_USES PROVE Cookies(s)!Used(u) \in 0 .. MAX_USES
BY RotationAssumption DEF Cookies!Used

LEMMA DataKeeps ==
    ASSUME NEW s, RotationInv(s), NEW t \in s.tasks, Cookies(s)!Data(t)
    PROVE  RotationInv(s)'
<1> DEFINE a == call[t].left[1][1]
           u == Cookies(s)!Used(call[t].left[1][2])
           r == Cookies(s)!Put(cookies, a, u)
           c == [call[t] EXCEPT !.pc = "data"]
<1>1. call[t].pc = "answered"
  BY DEF Cookies!Data
<1>2. /\ call[t] \in Requests(s) /\ a \in Ids(s) /\ u \in 0 .. MAX_USES /\ Head(call[t].left) = call[t].left[1]
      /\ cookies \in Dicts(s) /\ NoneLost(s) /\ Trying(s, call[t], dead)
  BY <1>1, FrontIs, UsedIs DEF RotationInv, RotationType
<1>3. call' = [call EXCEPT ![t] = c] /\ cookies' = r /\ dead' = dead
  BY <1>2 DEF Cookies!Data, Cookies!Becomes
<1> HIDE DEF a, u, r
<1>4. Assigned(s, cookies, a, u, r)
  BY <1>2, PutIs DEF r
<1>5. c \in Requests(s)
  BY <1>2 DEF Requests, Going
<1>6. Trying(s, c, dead)
  BY <1>1, <1>2 DEF Trying, Requests, Going
<1> HIDE DEF c
<1>7. cookies' \in Dicts(s) /\ NoneLost(s)'
  BY <1>2, <1>3, <1>4 DEF NoneLost, Assigned
<1> QED BY <1>3, <1>5, <1>6, <1>7, OneCall

(* A cookie that refused is not tried again by this request. *)
LEMMA NextTries ==
    ASSUME NEW s, RotationInv(s), NEW t \in s.tasks, call[t].pc = "answered",
           NEW c, c = Cookies(s)!Refused(t, call[t].left[1][1])
    PROVE  c \in Requests(s) /\ Trying(s, c, dead)
<1> DEFINE a == call[t].left[1][1]
           l == call[t].left
           f == call[t].refused \cup {a}
<1>1. /\ call[t] \in Requests(s) /\ l \in Dicts(s) /\ l # <<>> /\ a \in Ids(s)
      /\ Trying(s, call[t], dead)
  BY FrontIs DEF RotationInv
<1>2. c = [call[t] EXCEPT !.pc = "next", !.left = Rest(l), !.refused = f]
  BY DEF Cookies!Refused, Rest
<1>3. Rest(l) \in Dicts(s) /\ \A b : In(l, b) => b = a \/ In(Rest(l), b)
  BY <1>1, RestIs
<1>4. f \in SUBSET Ids(s)
  BY <1>1 DEF Requests
<1>5. \A b \in Ids(s) : b \in dead \/ b \in call[t].refused \/ In(l, b)
  BY <1>1 DEF Trying, Going
<1>6. \A b \in Ids(s) : b \in dead \/ b \in f \/ In(Rest(l), b)
  BY <1>3, <1>5
<1> DEFINE v == Rest(l)
<1> HIDE DEF f, v
<1>7. c = [call[t] EXCEPT !.pc = "next", !.left = v, !.refused = f] /\ v \in Dicts(s)
  BY <1>2, <1>3 DEF v
<1>8. c \in Requests(s) /\ c.pc = "next" /\ c.left = v /\ c.refused = f
  BY <1>1, <1>4, <1>7 DEF Requests, Going
<1>9. Trying(s, c, dead)
  BY <1>6, <1>8 DEF Trying, Going, v
<1> QED BY <1>8, <1>9

LEMMA TooManyKeeps ==
    ASSUME NEW s, RotationInv(s), NEW t \in s.tasks, Cookies(s)!TooMany(t)
    PROVE  RotationInv(s)'
<1> DEFINE a == call[t].left[1][1]
           r == Cookies(s)!Put(cookies, a, MAX_USES)
           c == Cookies(s)!Refused(t, a)
<1>1. call[t].pc = "answered"
  BY DEF Cookies!TooMany
<1>2. /\ a \in Ids(s) /\ MAX_USES \in 0 .. MAX_USES /\ Head(call[t].left) = call[t].left[1]
      /\ cookies \in Dicts(s) /\ NoneLost(s)
  BY <1>1, FrontIs, RotationAssumption DEF RotationInv, RotationType
<1>3. call' = [call EXCEPT ![t] = c] /\ cookies' = r /\ dead' = dead
  BY <1>2 DEF Cookies!TooMany, Cookies!Becomes
<1>4. c \in Requests(s) /\ Trying(s, c, dead)
  BY <1>1, NextTries
<1> HIDE DEF a, r, c
<1>5. Assigned(s, cookies, a, MAX_USES, r)
  BY <1>2, PutIs DEF r
<1>6. cookies' \in Dicts(s) /\ NoneLost(s)'
  BY <1>2, <1>3, <1>5 DEF NoneLost, Assigned
<1> QED BY <1>3, <1>4, <1>6, OneCall

LEMMA InvalidKeeps ==
    ASSUME NEW s, RotationInv(s), NEW t \in s.tasks, Cookies(s)!Invalid(t)
    PROVE  RotationInv(s)'
<1> DEFINE a == call[t].left[1][1]
           r == Cookies(s)!Delete(cookies, a)
           c == Cookies(s)!Refused(t, a)
<1>1. call[t].pc = "answered" /\ call[t].answer = "InvalidCookies"
  BY DEF Cookies!Invalid
<1>2. /\ a \in Ids(s) /\ Head(call[t].left) = call[t].left[1]
      /\ cookies \in Dicts(s) /\ NoneLost(s) /\ Trying(s, call[t], dead)
  BY <1>1, FrontIs DEF RotationInv, RotationType
<1>3. a \in dead
  BY <1>1, <1>2 DEF Trying
<1>4. call' = [call EXCEPT ![t] = c] /\ cookies' = r /\ dead' = dead
  BY <1>2 DEF Cookies!Invalid, Cookies!Becomes
<1>5. c \in Requests(s) /\ Trying(s, c, dead)
  BY <1>1, NextTries
<1> HIDE DEF a, r, c
<1>6. Deleted(s, cookies, a, r)
  BY <1>2, DeleteIs DEF r
<1>7. cookies' \in Dicts(s) /\ NoneLost(s)'
  BY <1>2, <1>3, <1>4, <1>6 DEF NoneLost, Deleted
<1> QED BY <1>4, <1>5, <1>7, OneCall

LEMMA ExpireKeeps ==
    ASSUME NEW s, RotationInv(s), NEW a \in Ids(s), Cookies(s)!Expire(a)
    PROVE  RotationInv(s)'
<1>1. dead' = dead \cup {a} /\ cookies' = cookies /\ call' = call
  BY DEF Cookies!Expire
<1>2. ASSUME NEW t \in s.tasks PROVE Trying(s, call[t], dead \cup {a})
  BY <1>2 DEF RotationInv, Trying
<1>3. \A t \in s.tasks : Trying(s, call[t], dead)'
  BY <1>1, <1>2
<1>4. NoneLost(s)'
  BY <1>1 DEF RotationInv, NoneLost
<1>5. RotationType(s)'
  BY <1>1 DEF RotationInv, RotationType
<1> QED BY <1>3, <1>4, <1>5 DEF RotationInv

LEMMA RotationSteps ==
    ASSUME NEW s, RotationInv(s), Cookies(s)!Next \/ UNCHANGED rotation
    PROVE  RotationInv(s)'
<1>1. CASE UNCHANGED rotation
  BY <1>1 DEF rotation, RotationInv, RotationType, NoneLost
<1>2. ASSUME NEW t \in s.tasks, Cookies(s)!Request(t) \/ Cookies(s)!Step(t)
      PROVE  RotationInv(s)'
  BY <1>2, RequestKeeps, SendKeeps, ServeKeeps, TooFrequentKeeps, DataKeeps, TooManyKeeps, InvalidKeeps
     DEF Cookies!Step
<1>3. ASSUME NEW a \in Cookies(s)!Ids, Cookies(s)!Expire(a)
      PROVE  RotationInv(s)'
  BY <1>3, ExpireKeeps, NamesOf
<1> QED BY <1>1, <1>2, <1>3 DEF Cookies!Next

LEMMA RotationInvTried ==
    ASSUME NEW s, RotationInv(s)
    PROVE  Cookies(s)!AllWereTried /\ Cookies(s)!OnlyInvalidLost
<1>1. Cookies(s)!AllWereTried
  <2>1. SUFFICES ASSUME NEW t \in s.tasks, call[t].pc = "TooManyRequests"
                 PROVE  Ids(s) \subseteq call[t].refused \cup dead
    BY NamesOf DEF Cookies!AllWereTried
  <2>2. Trying(s, call[t], dead)
    BY DEF RotationInv
  <2>3. ~In(<<>>, 0) /\ \A b : ~In(<<>>, b)
    BY DEF In
  <2> QED BY <2>1, <2>2, <2>3 DEF Trying
<1>2. Cookies(s)!OnlyInvalidLost
  BY NamesOf DEF Cookies!OnlyInvalidLost, Cookies!Kept, RotationInv, NoneLost
<1> QED BY <1>1, <1>2

-----------------------------------------------------------------------------
(* One request at a time.                                                   *)

Agree(d, k) == \A i \in DOMAIN d : d[i][2] = k[d[i][1]]

UsesInv(s) ==
    /\ counted \in [Ids(s) -> 0 .. MAX_USES]
    /\ Keyed(cookies) /\ Agree(cookies, counted)
    /\ \A t \in s.tasks : call[t].pc \in Going => Keyed(call[t].left) /\ Agree(call[t].left, counted)

LEMMA UsesStart ==
    ASSUME NEW s, Setting(s), Cookies(s)!Init
    PROVE  UsesInv(s)
<1>1. PICK n \in Nat : DOMAIN s.accounts = 1 .. n /\ \A i, j \in 1 .. n : s.accounts[i] = s.accounts[j] => i = j
  BY DEF Setting
<1>2. /\ cookies = [i \in 1 .. n |-> <<s.accounts[i], 0>>]
      /\ call = [t \in s.tasks |-> Cookies(s)!Idle] /\ counted = [a \in Ids(s) |-> 0]
  BY <1>1, NamesOf DEF Cookies!Init
<1>3. \A i \in 1 .. n : cookies[i][1] = s.accounts[i] /\ cookies[i][2] = 0 /\ s.accounts[i] \in Ids(s)
  BY <1>1, <1>2 DEF Ids
<1>4. DOMAIN cookies = 1 .. n
  BY <1>2
<1>5. Keyed(cookies)
  BY <1>1, <1>3, <1>4 DEF Keyed
<1>6. Agree(cookies, counted)
  BY <1>2, <1>3, <1>4 DEF Agree
<1>7. \A t \in s.tasks : call[t].pc = "idle"
  BY <1>2 DEF Cookies!Idle
<1>8. counted \in [Ids(s) -> 0 .. MAX_USES]
  BY <1>2, RotationAssumption
<1> QED BY <1>5, <1>6, <1>7, <1>8 DEF UsesInv, Going

(* The one task t moves on to c. *)
LEMMA TheCall ==
    ASSUME NEW s, NEW t, s.tasks = {t}, RotationInv(s), NEW c, call' = [call EXCEPT ![t] = c],
           counted' \in [Ids(s) -> 0 .. MAX_USES], Keyed(cookies'), Agree(cookies', counted'),
           c.pc \in Going => Keyed(c.left) /\ Agree(c.left, counted')
    PROVE  UsesInv(s)'
<1>1. call'[t] = c
  <2>1. DOMAIN call = {t}
    BY DEF RotationInv, RotationType
  <2> QED BY <2>1
<1> QED BY <1>1 DEF UsesInv

(* A request copies the dictionary, whose uses are those that were counted. *)
LEMMA UsesAreCopied ==
    ASSUME NEW s, NEW t, s.tasks = {t}, RotationInv(s), UsesInv(s),
           Cookies(s)!Request(t) \/ Cookies(s)!Send(t) \/ Cookies(s)!Serve(t) \/ Cookies(s)!TooFrequent(t)
    PROVE  UsesInv(s)'
<1>1. call[t] \in Requests(s)
  BY DEF RotationInv, RotationType
<1>2. /\ counted \in [Ids(s) -> 0 .. MAX_USES] /\ Keyed(cookies) /\ Agree(cookies, counted)
      /\ call[t].pc \in Going => Keyed(call[t].left) /\ Agree(call[t].left, counted)
  BY DEF UsesInv
<1>3. cookies' = cookies /\ counted' = counted
  BY DEF Cookies!Request, Cookies!Send, Cookies!Serve, Cookies!TooFrequent
<1>4. \E c : /\ call' = [call EXCEPT ![t] = c]
             /\ c.pc \in Going => Keyed(c.left) /\ Agree(c.left, counted)
  <2>1. CASE Cookies(s)!Request(t)
    <3> DEFINE c == IF cookies = <<>> THEN [call[t] EXCEPT !.pc = "idle"]
                    ELSE [call[t] EXCEPT !.pc = "next", !.left = cookies, !.tries = 0, !.refused = {}]
    <3>1. call' = [call EXCEPT ![t] = c]
      BY <2>1 DEF Cookies!Request, Cookies!Becomes
    <3>2. c.pc \in Going => c.left = cookies
      BY <1>1 DEF Requests, Going
    <3> HIDE DEF c
    <3> QED BY <1>2, <3>1, <3>2
  <2>2. CASE Cookies(s)!Send(t)
    <3> DEFINE c == [call[t] EXCEPT !.pc = IF call[t].left = <<>> THEN "TooManyRequests" ELSE "sent", !.tries = 0]
    <3>1. call' = [call EXCEPT ![t] = c] /\ call[t].pc \in Going
      BY <2>2 DEF Cookies!Send, Cookies!Becomes, Going
    <3>2. c.left = call[t].left
      BY <1>1 DEF Requests
    <3> HIDE DEF c
    <3> QED BY <1>2, <3>1, <3>2
  <2>3. CASE Cookies(s)!Serve(t)
    <3>1. PICK answer : call' = [call EXCEPT ![t] = [call[t] EXCEPT !.pc = "answered", !.answer = answer]]
      BY <2>3 DEF Cookies!Serve, Cookies!Becomes
    <3> DEFINE c == [call[t] EXCEPT !.pc = "answered", !.answer = answer]
    <3>2. call[t].pc \in Going
      BY <2>3 DEF Cookies!Serve, Going
    <3>3. c.left = call[t].left
      BY <1>1 DEF Requests
    <3>4. call' = [call EXCEPT ![t] = c]
      BY <3>1
    <3> HIDE DEF c
    <3> QED BY <1>2, <3>2, <3>3, <3>4
  <2>4. CASE Cookies(s)!TooFrequent(t)
    <3> DEFINE c == [call[t] EXCEPT !.tries = @ + 1,
                                    !.pc = IF call[t].tries + 1 < Tries THEN "sent" ELSE "VisitsTooFrequently"]
    <3>1. call' = [call EXCEPT ![t] = c] /\ call[t].pc \in Going
      BY <2>4 DEF Cookies!TooFrequent, Cookies!Becomes, Going
    <3>2. c.left = call[t].left
      BY <1>1 DEF Requests
    <3> HIDE DEF c
    <3> QED BY <1>2, <3>1, <3>2
  <2> QED BY <2>1, <2>2, <2>3, <2>4
<1>5. PICK c : /\ call' = [call EXCEPT ![t] = c]
               /\ c.pc \in Going => Keyed(c.left) /\ Agree(c.left, counted)
  BY <1>4
<1> QED BY <1>2, <1>3, <1>5, TheCall

(* An account's new uses are in the dictionary what they are in the count. *)
LEMMA AgreeAfterPut ==
    ASSUME NEW s, NEW d \in Dicts(s), NEW k \in [Ids(s) -> 0 .. MAX_USES], Agree(d, k),
           NEW a \in Ids(s), NEW u \in 0 .. MAX_USES, NEW r, Assigned(s, d, a, u, r)
    PROVE  LET k2 == [k EXCEPT ![a] = u] IN k2 \in [Ids(s) -> 0 .. MAX_USES] /\ Agree(r, k2)
<1> DEFINE k2 == [k EXCEPT ![a] = u]
<1>1. k2 \in [Ids(s) -> 0 .. MAX_USES] /\ k2[a] = u /\ \A b \in Ids(s) : b # a => k2[b] = k[b]
  OBVIOUS
<1> HIDE DEF k2
<1>2. ASSUME NEW i \in DOMAIN r PROVE r[i][2] = k2[r[i][1]]
  <2>1. CASE r[i][1] = a /\ r[i][2] = u
    BY <1>1, <2>1
  <2>2. ASSUME NEW j \in DOMAIN d, r[i][1] # a, r[i] = d[j] PROVE r[i][2] = k2[r[i][1]]
    <3>1. d[j][1] \in Ids(s) /\ d[j][2] = k[d[j][1]]
      BY EntryIs DEF Agree
    <3> QED BY <1>1, <2>2, <3>1
  <2> QED BY <1>2, <2>1, <2>2 DEF Assigned
<1> QED BY <1>1, <1>2 DEF Agree, k2

LEMMA UsesAfterData ==
    ASSUME NEW s, NEW t, s.tasks = {t}, RotationInv(s), UsesInv(s), Cookies(s)!Data(t)
    PROVE  UsesInv(s)'
<1> DEFINE a == call[t].left[1][1]
           v == call[t].left[1][2]
           u == Cookies(s)!Used(v)
           r == Cookies(s)!Put(cookies, a, u)
           c == [call[t] EXCEPT !.pc = "data"]
<1>1. call[t].pc = "answered"
  BY DEF Cookies!Data
<1>2. /\ call[t] \in Requests(s) /\ a \in Ids(s) /\ v \in 0 .. MAX_USES /\ u \in 0 .. MAX_USES
      /\ Head(call[t].left) = call[t].left[1] /\ cookies \in Dicts(s) /\ 1 \in DOMAIN call[t].left
  BY <1>1, FrontIs, UsedIs DEF RotationInv, RotationType
<1>3. /\ counted \in [Ids(s) -> 0 .. MAX_USES] /\ Keyed(cookies) /\ Agree(cookies, counted)
      /\ counted[a] = v
  BY <1>1, <1>2 DEF UsesInv, Going, Agree
<1>4. /\ call' = [call EXCEPT ![t] = c] /\ cookies' = r
      /\ counted' = [counted EXCEPT ![a] = IF counted[a] = MAX_USES THEN 1 ELSE counted[a] + 1]
  BY <1>2 DEF Cookies!Data, Cookies!Becomes
<1>5. (IF v = MAX_USES THEN 1 ELSE v + 1) = u
  BY <1>2, RotationAssumption DEF Cookies!Used
<1>6. c.pc \notin Going
  BY <1>2 DEF Requests, Going
<1> HIDE DEF a, u, r, c, v
<1>7. counted' = [counted EXCEPT ![a] = u]
  BY <1>3, <1>4, <1>5
<1>8. Assigned(s, cookies, a, u, r)
  BY <1>2, PutIs DEF r
<1> DEFINE k == [counted EXCEPT ![a] = u]
<1>9. k \in [Ids(s) -> 0 .. MAX_USES] /\ Agree(r, k)
  BY <1>2, <1>3, <1>8, AgreeAfterPut
<1>10. Keyed(r)
  BY <1>3, <1>8 DEF Assigned
<1> HIDE DEF k
<1>11. counted' = k
  BY <1>7 DEF k
<1> QED BY <1>4, <1>6, <1>9, <1>10, <1>11, TheCall

(* What is left of the request after its first cookie has other accounts. *)
LEMMA RestAgrees ==
    ASSUME NEW s, NEW d \in Dicts(s), d # <<>>, Keyed(d), NEW k, Agree(d, k),
           NEW k2, \A b \in Ids(s) : b # d[1][1] => k2[b] = k[b]
    PROVE  Keyed(Rest(d)) /\ Agree(Rest(d), k2)
<1>1. 1 \in DOMAIN d /\ \A i \in DOMAIN Rest(d) : i + 1 \in DOMAIN d /\ Rest(d)[i] = d[i + 1] /\ i # 0
  BY RestIs
<1>2. \A i \in DOMAIN Rest(d) : i \in Int /\ i + 1 # 1 /\ d[i + 1][1] \in Ids(s)
  <2>1. Rest(d) \in Dicts(s)
    BY RestIs
  <2>2. \A i \in DOMAIN Rest(d) : i \in Int
    BY <2>1, EntryIs
  <2> QED BY <1>1, <2>2, EntryIs
<1>3. \A i \in DOMAIN Rest(d) : d[i + 1][1] # d[1][1]
  BY <1>1, <1>2 DEF Keyed
<1>4. Agree(Rest(d), k2)
  BY <1>1, <1>2, <1>3 DEF Agree
<1>5. ASSUME NEW i \in DOMAIN Rest(d), NEW j \in DOMAIN Rest(d), Rest(d)[i][1] = Rest(d)[j][1] PROVE i = j
  <2>1. i + 1 = j + 1
    BY <1>1, <1>5 DEF Keyed
  <2> QED BY <1>2, <2>1
<1> QED BY <1>4, <1>5 DEF Keyed

LEMMA UsesAfterRefusal ==
    ASSUME NEW s, NEW t, s.tasks = {t}, RotationInv(s), UsesInv(s), Cookies(s)!TooMany(t) \/ Cookies(s)!Invalid(t)
    PROVE  UsesInv(s)'
<1> DEFINE l == call[t].left
           a == call[t].left[1][1]
           c == Cookies(s)!Refused(t, a)
<1>1. call[t].pc = "answered"
  BY DEF Cookies!TooMany, Cookies!Invalid
<1>2. /\ call[t] \in Requests(s) /\ a \in Ids(s) /\ l \in Dicts(s) /\ l # <<>>
      /\ Head(l) = l[1] /\ cookies \in Dicts(s) /\ MAX_USES \in 0 .. MAX_USES
  BY <1>1, FrontIs, RotationAssumption DEF RotationInv, RotationType
<1>3. /\ counted \in [Ids(s) -> 0 .. MAX_USES] /\ Keyed(cookies) /\ Agree(cookies, counted)
      /\ Keyed(l) /\ Agree(l, counted)
  BY <1>1 DEF UsesInv, Going
<1>4. call' = [call EXCEPT ![t] = c]
  BY <1>2 DEF Cookies!TooMany, Cookies!Invalid, Cookies!Becomes
<1>5. c.left = Rest(l)
  BY <1>2 DEF Cookies!Refused, Requests, Rest
<1>6. CASE Cookies(s)!TooMany(t)
  <2> DEFINE r == Cookies(s)!Put(cookies, a, MAX_USES)
             k == [counted EXCEPT ![a] = MAX_USES]
  <2>1. cookies' = r /\ counted' = k
    BY <1>2, <1>6 DEF Cookies!TooMany
  <2> HIDE DEF r
  <2>2. Assigned(s, cookies, a, MAX_USES, r)
    BY <1>2, PutIs DEF r
  <2>3. k \in [Ids(s) -> 0 .. MAX_USES] /\ Agree(r, k)
    BY <1>2, <1>3, <2>2, AgreeAfterPut
  <2>4. \A b \in Ids(s) : b # a => k[b] = counted[b]
    BY <1>3
  <2> HIDE DEF k
  <2>5. Keyed(Rest(l)) /\ Agree(Rest(l), k)
    BY <1>2, <1>3, <2>4, RestAgrees
  <2>6. Keyed(r)
    BY <1>3, <2>2 DEF Assigned
  <2> HIDE DEF c, l, a
  <2> QED BY <1>4, <1>5, <2>1, <2>3, <2>5, <2>6, TheCall
<1>7. CASE Cookies(s)!Invalid(t)
  <2> DEFINE r == Cookies(s)!Delete(cookies, a)
  <2>1. cookies' = r /\ counted' = counted
    BY <1>2, <1>7 DEF Cookies!Invalid
  <2> HIDE DEF r
  <2>2. Deleted(s, cookies, a, r)
    BY <1>2, DeleteIs DEF r
  <2>3. Keyed(r) /\ Agree(r, counted)
    BY <1>3, <2>2 DEF Deleted, Agree
  <2>4. Keyed(Rest(l)) /\ Agree(Rest(l), counted)
    BY <1>2, <1>3, RestAgrees
  <2> HIDE DEF c, l, a
  <2> QED BY <1>3, <1>4, <1>5, <2>1, <2>3, <2>4, TheCall
<1> QED BY <1>6, <1>7

LEMMA UsesSteps ==
    ASSUME NEW s, NEW t, s.tasks = {t}, RotationInv(s), UsesInv(s), Cookies(s)!Next \/ UNCHANGED rotation
    PROVE  UsesInv(s)'
<1>1. CASE UNCHANGED rotation
  BY <1>1 DEF rotation, UsesInv
<1>2. CASE Cookies(s)!Request(t) \/ Cookies(s)!Step(t)
  BY <1>2, UsesAreCopied, UsesAfterData, UsesAfterRefusal DEF Cookies!Step
<1>3. ASSUME NEW a, Cookies(s)!Expire(a)
      PROVE  UsesInv(s)'
  BY <1>3 DEF Cookies!Expire, UsesInv
<1> QED BY <1>1, <1>2, <1>3 DEF Cookies!Next

LEMMA UsesAreCounted == ASSUME NEW s, UsesInv(s) PROVE Cookies(s)!UsesCounted
BY DEF UsesInv, Agree, Cookies!UsesCounted

-----------------------------------------------------------------------------
(* The suite's invariant for the rotation of two tasks and of one.          *)

RotationPart ==
    /\ part # "one task" => RotationInv(TwoTasks)
    /\ part = "one task" => RotationInv(OneTask) /\ UsesInv(OneTask)

LEMMA Settings == Setting(TwoTasks) /\ Setting(OneTask) /\ OneTask.tasks = {t1}
<1> DEFINE d == <<"a", "b">>
<1>1. DOMAIN d = 1 .. 2 /\ d[1] = "a" /\ d[2] = "b" /\ \A i \in 1 .. 2 : i = 1 \/ i = 2
  OBVIOUS
<1>2. TwoTasks.accounts = d /\ OneTask.accounts = d /\ OneTask.tasks = {t1}
  BY DEF TwoTasks, OneTask
<1> HIDE DEF d
<1>3. \A i, j \in 1 .. 2 : d[i] = d[j] => i = j
  BY <1>1
<1>4. 2 \in Nat
  OBVIOUS
<1> QED BY <1>1, <1>2, <1>3, <1>4 DEF Setting

(* What the requests in flight have still to try, whatever the others write  *)
(* back, and with one task the uses that were counted: an inductive          *)
(* invariant of RotatingCookieManager.request.                              *)
THEOREM RotationInductive == GenshinSpec => []RotationPart
<1>1. GenshinInit => RotationPart
  BY Settings, RotationStarts, UsesStart DEF GenshinInit, RotationPart
<1>2. RotationPart /\ [GenshinNext]_state => RotationPart'
  <2>1. SUFFICES ASSUME RotationPart, [GenshinNext]_state PROVE RotationPart'
    OBVIOUS
  <2>2. part' = part
    BY <2>1 DEF GenshinNext, state
  <2>3. CASE part = "one task"
    <3>1. Cookies(OneTask)!Next \/ UNCHANGED rotation
      BY <2>1, <2>3 DEF GenshinNext, state
    <3>2. RotationInv(OneTask)' /\ UsesInv(OneTask)'
      BY <2>1, <2>3, <3>1, Settings, RotationSteps, UsesSteps DEF RotationPart
    <3> QED BY <2>2, <2>3, <3>2 DEF RotationPart
  <2>4. CASE part # "one task"
    <3>1. Cookies(TwoTasks)!Next \/ UNCHANGED rotation
      BY <2>1, <2>4 DEF GenshinNext, state
    <3>2. RotationInv(TwoTasks)'
      BY <2>1, <2>4, <3>1, RotationSteps DEF RotationPart
    <3> QED BY <2>2, <2>4, <3>2 DEF RotationPart
  <2> QED BY <2>3, <2>4
<1> QED BY <1>1, <1>2, PTL DEF GenshinSpec

(* A request raises "All cookies have hit their request limit" only when     *)
(* every cookie refused it or is refused for good, and only those of the     *)
(* latter kind are lost, however requests overlap; while none overlap, the   *)
(* uses of each cookie are the answers it gave.                             *)
THEOREM EveryCookieWasTried == GenshinSpec => []AllWereTried
<1>1. RotationPart => AllWereTried
  BY RotationInvTried, UsesAreCounted DEF RotationPart, AllWereTried
<1> QED BY <1>1, RotationInductive, PTL

-----------------------------------------------------------------------------
(* The cache and the lock of the uid lookup.                                *)

CacheKeys(s)   == s.others \cup {"accounts"}
CacheItems(s)  == [key: CacheKeys(s), expires: Int, value: SUBSET s.games]
Caches(s)      == Seq(CacheItems(s))

(* A key is in a cache once. *)
Once(c) == \A i, j \in 1 .. Len(c) : c[i].key = c[j].key => i = j

LookupSetting(s) ==
    /\ s.maxsize \in Nat \ {0} /\ s.time \in Nat
    /\ "accounts" \notin s.others /\ s.static \in BOOLEAN

(* r has been copied from c, in some order, without what has timed out. *)
CopiedFrom(s, c, n, r) ==
    /\ r \in Caches(s)
    /\ \A i \in 1 .. Len(r) : \E j \in 1 .. n : r[i] = c[j] /\ c[j].expires >= now
    /\ Once(c) => Once(r)

LEMMA ItemIs ==
    ASSUME NEW s, NEW c \in Caches(s)
    PROVE  /\ Len(c) \in Nat /\ DOMAIN c = 1 .. Len(c)
           /\ \A i \in 1 .. Len(c) : /\ c[i] \in CacheItems(s) /\ c[i].key \in CacheKeys(s)
                                     /\ c[i].expires \in Int /\ c[i].value \in SUBSET s.games
<1>1. Len(c) \in Nat /\ DOMAIN c = 1 .. Len(c) /\ \A i \in 1 .. Len(c) : c[i] \in CacheItems(s)
  BY DEF Caches
<1>2. \A e \in CacheItems(s) : e.key \in CacheKeys(s) /\ e.expires \in Int /\ e.value \in SUBSET s.games
  BY DEF CacheItems
<1> QED BY <1>1, <1>2

Precedes == OpToRel(<, Nat)

LEMMA LeastNat ==
    ASSUME NEW T \in SUBSET Nat, T # {}
    PROVE  \E n \in T : \A m \in T : n <= m
<1>1. IsWellFoundedOn(Precedes, Nat)
  BY NatLessThanWellFounded, Zenon DEF Precedes
<1>2. PICK n \in T : \A m \in T : ~ (<<m, n>> \in Precedes)
  BY <1>1, WFMin
<1>3. \A m, l \in Nat : m < l => <<m, l>> \in Precedes
  BY Zenon DEF Precedes, OpToRel
<1>4. \A m \in T : ~(m < n)
  BY <1>2, <1>3
<1> QED BY <1>4

LEMMA NatInduct ==
    ASSUME NEW T, 0 \in T, \A n \in Nat : n \in T => n + 1 \in T
    PROVE  \A n \in Nat : n \in T
<1> DEFINE N == {n \in Nat : n \notin T}
<1>1. SUFFICES ASSUME N # {} PROVE FALSE
  OBVIOUS
<1>2. PICK n \in N : \A m \in N : n <= m
  BY <1>1, LeastNat
<1>3. n \in Nat \ {0} /\ n - 1 \in Nat
  BY <1>2
<1>4. n - 1 \in T
  BY <1>2, <1>3
<1>5. (n - 1) + 1 = n
  BY <1>3
<1> QED BY <1>2, <1>3, <1>4, <1>5

(* What Live keeps of the first n entries. *)
KeepBody(c, e, n) ==
    IF n = 0 THEN <<>> ELSE IF c[n].expires >= now THEN Append(e[n - 1], c[n]) ELSE e[n - 1]
Keeper(c) == CHOOSE e : e = [n \in 0 .. Len(c) |-> KeepBody(c, e, n)]

LEMMA LiveIs == ASSUME NEW s, NEW c PROVE Uids(s)!Live(c) = Keeper(c)[Len(c)]
BY DEF Uids!Live, Keeper, KeepBody

LEMMA KeepLocal ==
    ASSUME NEW c, NEW e, NEW f, NEW n, n # 0 => e[n - 1] = f[n - 1]
    PROVE  KeepBody(c, e, n) = KeepBody(c, f, n)
BY Zenon DEF KeepBody

LEMMA KeeperIs ==
    ASSUME NEW c, Len(c) \in Nat
    PROVE  \A n \in 0 .. Len(c) : Keeper(c)[n] = KeepBody(c, Keeper(c), n)
<1> DEFINE D == 0 .. Len(c)
           T == {m \in Nat : \E e : e = [x \in D |-> e[x]] /\ \A x \in D : x < m => e[x] = KeepBody(c, e, x)}
<1>1. 0 \in T
  <2> DEFINE e == [x \in D |-> <<>>]
  <2>1. e = [x \in D |-> e[x]] /\ \A x \in D : ~(x < 0)
    OBVIOUS
  <2> HIDE DEF e, D
  <2> QED BY <2>1
<1>2. ASSUME NEW m \in Nat, m \in T PROVE m + 1 \in T
  <2>1. PICK e : e = [x \in D |-> e[x]] /\ \A x \in D : x < m => e[x] = KeepBody(c, e, x)
    BY <1>2
  <2> DEFINE f == [x \in D |-> IF x = m THEN KeepBody(c, e, x) ELSE e[x]]
  <2>2. f = [x \in D |-> f[x]] /\ (m \in D => f[m] = KeepBody(c, e, m)) /\ \A x \in D : x # m => f[x] = e[x]
    OBVIOUS
  <2> HIDE DEF f
  <2>3. ASSUME NEW x \in D, x < m + 1 PROVE f[x] = KeepBody(c, f, x)
    <3>1. x # 0 => x - 1 \in D /\ x - 1 # m
      BY <2>3
    <3>2. KeepBody(c, e, x) = KeepBody(c, f, x)
      BY <2>2, <3>1, KeepLocal
    <3>3. x = m \/ x < m
      BY <2>3
    <3> HIDE DEF D
    <3> QED BY <2>1, <2>2, <3>2, <3>3
  <2> HIDE DEF D
  <2> QED BY <2>2, <2>3
<1>3. Len(c) + 1 \in T
  <2> HIDE DEF T
  <2> QED BY <1>1, <1>2, NatInduct
<1>4. PICK e : e = [x \in D |-> e[x]] /\ \A x \in D : x < Len(c) + 1 => e[x] = KeepBody(c, e, x)
  BY <1>3
<1>5. \A x \in D : e[x] = KeepBody(c, e, x)
  BY <1>4
<1>6. e = [n \in D |-> KeepBody(c, e, n)]
  <2> HIDE DEF D
  <2> QED BY <1>4, <1>5
<1>7. Keeper(c) = [n \in D |-> KeepBody(c, Keeper(c), n)]
  BY <1>6 DEF Keeper
<1> QED BY <1>7

(* _clear_cache first deletes what has timed out: *)
LEMMA LiveKeeps ==
    ASSUME NEW s, NEW c \in Caches(s)
    PROVE  /\ CopiedFrom(s, c, Len(c), Uids(s)!Live(c))
           /\ c = <<>> => Uids(s)!Live(c) = c
           /\ Len(c) = 1 /\ c[1].expires >= now => Uids(s)!Live(c) = c
<1> DEFINE k == Keeper(c)
           T == {n \in Nat : n <= Len(c) => CopiedFrom(s, c, n, k[n])}
<1>1. Len(c) \in Nat /\ \A i \in 1 .. Len(c) : c[i] \in CacheItems(s)
  BY ItemIs
<1>2. \A n \in 0 .. Len(c) : k[n] = KeepBody(c, k, n)
  BY <1>1, KeeperIs
<1>3. k[0] = <<>>
  BY <1>1, <1>2 DEF KeepBody
<1>4. 0 \in T
  <2>1. <<>> \in Caches(s) /\ Len(<<>>) = 0
    BY DEF Caches
  <2> HIDE DEF k
  <2> QED BY <1>3, <2>1 DEF CopiedFrom, Once
<1>5. ASSUME NEW n \in Nat, n \in T PROVE n + 1 \in T
  <2>1. SUFFICES ASSUME n + 1 <= Len(c) PROVE CopiedFrom(s, c, n + 1, k[n + 1])
    OBVIOUS
  <2> DEFINE r == k[n]
             e == c[n + 1]
  <2>2. CopiedFrom(s, c, n, r)
    BY <1>1, <1>5, <2>1
  <2>3. k[n + 1] = IF e.expires >= now THEN Append(r, e) ELSE r
    <3>1. n + 1 \in 0 .. Len(c) /\ n + 1 # 0 /\ (n + 1) - 1 = n
      BY <1>1, <2>1
    <3> HIDE DEF k
    <3> QED BY <1>2, <3>1 DEF KeepBody
  <2>4. e \in CacheItems(s) /\ n + 1 \in 1 .. Len(c)
    BY <1>1, <2>1
  <2> HIDE DEF k, r, e
  <2>5. r \in Caches(s) /\ Len(r) \in Nat
    BY <2>2 DEF CopiedFrom, Caches
  <2>6. CASE e.expires >= now
    <3> DEFINE a == Append(r, e)
    <3>1. a \in Caches(s) /\ Len(a) = Len(r) + 1 /\ a[Len(r) + 1] = e /\ \A i \in 1 .. Len(r) : a[i] = r[i]
      BY <2>4, <2>5 DEF Caches
    <3> HIDE DEF a
    <3>2. \A i \in 1 .. Len(a) : \E j \in 1 .. (n + 1) : a[i] = c[j] /\ c[j].expires >= now
      <4>1. SUFFICES ASSUME NEW i \in 1 .. Len(a)
                     PROVE  \E j \in 1 .. (n + 1) : a[i] = c[j] /\ c[j].expires >= now
        OBVIOUS
      <4>2. CASE i = Len(r) + 1
        BY <2>6, <3>1, <4>2 DEF e
      <4>3. CASE i # Len(r) + 1
        <5>1. i \in 1 .. Len(r)
          BY <2>5, <3>1, <4>3
        <5>2. PICK j \in 1 .. n : r[i] = c[j] /\ c[j].expires >= now
          BY <2>2, <5>1 DEF CopiedFrom
        <5> QED BY <3>1, <5>1, <5>2
      <4> QED BY <4>2, <4>3
    <3>3. ASSUME Once(c) PROVE Once(a)
      <4>1. SUFFICES ASSUME NEW i \in 1 .. Len(a), NEW l \in 1 .. Len(a), a[i].key = a[l].key PROVE i = l
        BY DEF Once
      <4>2. Once(r)
        BY <2>2, <3>3 DEF CopiedFrom
      <4>3. \A x \in 1 .. Len(r) : a[x].key # e.key
        <5>1. SUFFICES ASSUME NEW x \in 1 .. Len(r), a[x].key = e.key PROVE FALSE
          OBVIOUS
        <5>2. PICK j \in 1 .. n : r[x] = c[j]
          BY <2>2 DEF CopiedFrom
        <5>3. j \in 1 .. Len(c) /\ j # n + 1 /\ c[j].key = c[n + 1].key
          BY <1>1, <2>1, <3>1, <5>1, <5>2 DEF e
        <5> QED BY <2>4, <3>3, <5>3 DEF Once
      <4>4. \A x \in 1 .. Len(a) : x \in 1 .. Len(r) \/ x = Len(r) + 1
        BY <2>5, <3>1
      <4>5. i \in 1 .. Len(r) /\ l \in 1 .. Len(r) => i = l
        BY <3>1, <4>1, <4>2 DEF Once
      <4> QED BY <3>1, <4>1, <4>3, <4>4, <4>5
    <3> QED BY <2>3, <2>6, <3>1, <3>2, <3>3 DEF CopiedFrom, a
  <2>7. CASE ~(e.expires >= now)
    <3>1. \A j \in 1 .. n : j \in 1 .. (n + 1)
      OBVIOUS
    <3> QED BY <2>2, <2>3, <2>7, <3>1 DEF CopiedFrom
  <2> QED BY <2>6, <2>7
<1>6. CopiedFrom(s, c, Len(c), k[Len(c)])
  <2>1. Len(c) \in T
    <3> HIDE DEF T
    <3> QED BY <1>1, <1>4, <1>5, NatInduct
  <2> QED BY <1>1, <2>1
<1>7. ASSUME Len(c) = 1, c[1].expires >= now PROVE k[Len(c)] = c
  <2>1. k[1] = Append(k[0], c[1])
    <3>1. 1 \in 0 .. Len(c) /\ 1 # 0 /\ 1 - 1 = 0
      BY <1>7
    <3> HIDE DEF k
    <3> QED BY <1>2, <1>7, <3>1 DEF KeepBody
  <2>2. k[1] = <<c[1]>>
    BY <1>3, <2>1
  <2>3. <<c[1]>> \in Caches(s) /\ Len(<<c[1]>>) = 1 /\ <<c[1]>>[1] = c[1]
    BY <1>1, <1>7 DEF Caches
  <2> DEFINE t == <<c[1]>>
  <2> HIDE DEF t, k
  <2>4. t \in Seq(CacheItems(s)) /\ c \in Seq(CacheItems(s)) /\ Len(t) = Len(c) /\ \A i \in 1 .. Len(t) : t[i] = c[i]
    BY <1>7, <2>3 DEF t, Caches
  <2> QED BY <1>7, <2>2, <2>4, SeqEqual DEF t
<1> QED BY <1>1, <1>3, <1>6, <1>7, LiveIs

(* and then the oldest keys, so that maxsize remain.                        *)
Clears(s, c, r) ==
    /\ CopiedFrom(s, c, Len(c), r) /\ Len(r) <= s.maxsize
    /\ c = <<>> => r = c
    /\ Len(c) = 1 /\ c[1].expires >= now => r = c

LEMMA ClearedIs ==
    ASSUME NEW s, LookupSetting(s), NEW c \in Caches(s), NEW r, r = Uids(s)!Cleared(c)
    PROVE  Clears(s, c, r)
<1> DEFINE live == Uids(s)!Live(c)
           over == Len(live) - s.maxsize
<1>1. s.maxsize \in Nat /\ s.maxsize >= 1
  BY DEF LookupSetting
<1>2. /\ CopiedFrom(s, c, Len(c), live) /\ (c = <<>> => live = c)
      /\ Len(c) = 1 /\ c[1].expires >= now => live = c
  BY LiveKeeps
<1>3. r = IF over > 0 THEN [i \in 1 .. s.maxsize |-> live[over + i]] ELSE live
  BY DEF Uids!Cleared
<1> HIDE DEF live
<1>4. live \in Caches(s) /\ Len(live) \in Nat /\ DOMAIN live = 1 .. Len(live)
  BY <1>2, ItemIs DEF CopiedFrom
<1>5. CASE over > 0
  <2>1. over \in Nat /\ s.maxsize = Len(live) - over /\ Len(live) > 1
    BY <1>1, <1>4, <1>5
  <2>2. r = [i \in 1 .. s.maxsize |-> live[over + i]]
    BY <1>3, <1>5
  <2> HIDE DEF over
  <2>3. \A i \in 1 .. s.maxsize : over + i \in 1 .. Len(live)
    BY <1>1, <1>4, <2>1
  <2>4. r \in Caches(s) /\ Len(r) = s.maxsize
    <3>1. \A i \in 1 .. s.maxsize : live[over + i] \in CacheItems(s)
      BY <1>4, <2>3, ItemIs
    <3>2. r \in [1 .. s.maxsize -> CacheItems(s)]
      BY <2>2, <3>1
    <3> QED BY <1>1, <3>2 DEF Caches
  <2>5. \A i \in 1 .. Len(r) : r[i] = live[over + i] /\ over + i \in 1 .. Len(live)
    BY <2>2, <2>3, <2>4
  <2>6. \A i \in 1 .. Len(r) : \E j \in 1 .. Len(c) : r[i] = c[j] /\ c[j].expires >= now
    BY <1>2, <2>5 DEF CopiedFrom
  <2>7. Once(c) => Once(r)
    <3>1. SUFFICES ASSUME Once(live), NEW i \in 1 .. Len(r), NEW j \in 1 .. Len(r), r[i].key = r[j].key
                   PROVE  i = j
      BY <1>2 DEF CopiedFrom, Once
    <3>2. over + i = over + j
      BY <2>5, <3>1 DEF Once
    <3> QED BY <2>1, <2>4, <1>1, <3>2
  <2>8. c # <<>> /\ ~(Len(c) = 1 /\ c[1].expires >= now)
    <3>1. ASSUME c = <<>> PROVE FALSE
      <4>1. live = <<>>
        BY <1>2, <3>1
      <4> QED BY <2>1, <4>1
    <3>2. ASSUME Len(c) = 1, c[1].expires >= now PROVE FALSE
      <4>1. live = c
        BY <1>2, <3>2
      <4>2. Len(live) = 1 /\ Len(live) > 1
        BY <2>1, <3>2, <4>1
      <4> QED BY ONLY <4>2
    <3> QED BY <3>1, <3>2
  <2> QED BY <1>1, <2>4, <2>6, <2>7, <2>8 DEF Clears, CopiedFrom
<1>6. CASE ~(over > 0)
  <2>1. r = live /\ Len(live) <= s.maxsize
    BY <1>1, <1>3, <1>4, <1>6
  <2> QED BY <1>2, <2>1 DEF Clears
<1> QED BY <1>5, <1>6

(* What set() stores, and what it may still hold.                           *)
Stores(s, c, e, r) ==
    /\ r \in Caches(s) /\ Len(r) <= s.maxsize
    /\ \A i \in 1 .. Len(r) : r[i] = e \/ (r[i].key # e.key /\ \E j \in 1 .. Len(c) : r[i] = c[j])
    /\ Once(c) => Once(r)
    /\ Len(c) = 0 \/ (Len(c) = 1 /\ c[1].key = e.key) => Len(r) = 1 /\ r[1] = e

LEMMA SetIs ==
    ASSUME NEW s, LookupSetting(s), ~s.static,
           NEW c \in Caches(s), NEW k \in CacheKeys(s), NEW v \in SUBSET s.games,
           now + ttl \in Int, now + ttl >= now,
           NEW r, r = Uids(s)!Set(c, k, v)
    PROVE  Stores(s, c, [key |-> k, expires |-> now + ttl, value |-> v], r)
<1> DEFINE e == [key |-> k, expires |-> now + ttl, value |-> v]
           m == IF \E i \in DOMAIN c : c[i].key = k THEN [i \in DOMAIN c |-> IF c[i].key = k THEN e ELSE c[i]]
                ELSE Append(c, e)
<1>1. e \in CacheItems(s) /\ e.key = k /\ e.expires = now + ttl
  BY DEF CacheItems
<1>2. Len(c) \in Nat /\ DOMAIN c = 1 .. Len(c) /\ \A i \in 1 .. Len(c) : c[i] \in CacheItems(s)
  BY ItemIs
<1>3. r = Uids(s)!Cleared(m)
  BY DEF Uids!Set
<1> DEFINE there == \E i \in 1 .. Len(c) : c[i].key = k
<1>4. /\ there => m = [i \in 1 .. Len(c) |-> IF c[i].key = k THEN e ELSE c[i]]
      /\ ~there => m = Append(c, e)
  BY <1>2
<1> HIDE DEF e, m
<1>5. /\ m \in Caches(s) /\ Len(m) \in Nat
      /\ \A i \in 1 .. Len(m) : m[i] = e \/ (m[i].key # k /\ \E j \in 1 .. Len(c) : m[i] = c[j])
      /\ Once(c) => Once(m)
      /\ Len(c) = 0 \/ (Len(c) = 1 /\ c[1].key = k) => Len(m) = 1 /\ m[1] = e
  <2>1. CASE there
    <3>1. m \in [1 .. Len(c) -> CacheItems(s)] /\ \A i \in 1 .. Len(c) : m[i] = IF c[i].key = k THEN e ELSE c[i]
      BY <1>1, <1>2, <1>4, <2>1
    <3>2. m \in Caches(s) /\ Len(m) = Len(c)
      BY <1>2, <3>1 DEF Caches
    <3>3. \A i \in 1 .. Len(c) : m[i].key = c[i].key
      BY <1>1, <3>1
    <3>4. Once(c) => Once(m)
      BY <3>2, <3>3 DEF Once
    <3>5. Len(c) # 0
      BY <2>1, <1>2
    <3> QED BY <1>2, <3>1, <3>2, <3>4, <3>5
  <2>2. CASE ~there
    <3>1. m = Append(c, e)
      BY <1>4, <2>2
    <3>2. m \in Caches(s) /\ Len(m) = Len(c) + 1 /\ m[Len(c) + 1] = e /\ \A i \in 1 .. Len(c) : m[i] = c[i]
      BY <1>1, <1>2, <3>1 DEF Caches
    <3> HIDE DEF there
    <3>3. \A i \in 1 .. Len(m) : i = Len(c) + 1 \/ i \in 1 .. Len(c)
      BY <1>2, <3>2
    <3>4. \A i \in 1 .. Len(c) : c[i].key # k
      BY <2>2 DEF there
    <3>5. ASSUME Once(c) PROVE Once(m)
      BY <1>1, <3>2, <3>3, <3>4, <3>5 DEF Once
    <3>6. ~(Len(c) = 1 /\ c[1].key = k)
      BY <3>4
    <3>7. \A i \in 1 .. Len(m) : m[i] = e \/ (m[i].key # k /\ \E j \in 1 .. Len(c) : m[i] = c[j])
      BY <3>2, <3>3, <3>4
    <3> QED BY <1>2, <3>2, <3>5, <3>6, <3>7
  <2> QED BY <2>1, <2>2
<1>6. Clears(s, m, r)
  BY <1>3, <1>5, ClearedIs
<1> HIDE DEF there
<1>7. \A i \in 1 .. Len(r) : \E j \in 1 .. Len(m) : r[i] = m[j]
  BY <1>6 DEF Clears, CopiedFrom
<1>8. \A i \in 1 .. Len(r) : r[i] = e \/ (r[i].key # e.key /\ \E j \in 1 .. Len(c) : r[i] = c[j])
  BY <1>1, <1>5, <1>7
<1>9. ASSUME Len(c) = 0 \/ (Len(c) = 1 /\ c[1].key = e.key) PROVE Len(r) = 1 /\ r[1] = e
  <2>1. Len(m) = 1 /\ m[1] = e
    BY <1>1, <1>5, <1>9
  <2>2. r = m
    BY <1>1, <1>6, <2>1 DEF Clears
  <2> QED BY <2>1, <2>2
<1>10. r \in Caches(s) /\ Len(r) <= s.maxsize /\ (Once(c) => Once(r))
  BY <1>5, <1>6 DEF Clears, CopiedFrom
<1> QED BY <1>8, <1>9, <1>10 DEF Stores, e

(* The queue without the task at one of its places. *)
Leaves(l, t, r) ==
    /\ r \in Seq(Tasks)
    /\ \A i, j \in 1 .. Len(r) : r[i] = r[j] => i = j
    /\ \A u \in Tasks : (\E i \in 1 .. Len(r) : r[i] = u) <=> u # t /\ \E i \in 1 .. Len(l) : l[i] = u
    /\ l[1] # t => r[1] = l[1]

LEMMA WithoutIs ==
    ASSUME NEW s, NEW l \in Seq(Tasks), \A i, j \in 1 .. Len(l) : l[i] = l[j] => i = j,
           NEW t, \E i \in 1 .. Len(l) : l[i] = t, NEW r, r = Uids(s)!Without(l, t)
    PROVE  Leaves(l, t, r)
<1> DEFINE k == CHOOSE i \in DOMAIN l : l[i] = t
           n == Len(l)
<1>1. n \in Nat /\ DOMAIN l = 1 .. n /\ \A i \in 1 .. n : l[i] \in Tasks
  OBVIOUS
<1>2. k \in 1 .. n /\ l[k] = t
  BY <1>1
<1>3. r = [i \in 1 .. (n - 1) |-> IF i < k THEN l[i] ELSE l[i + 1]]
  BY DEF Uids!Without
<1>4. \A i, j \in 1 .. n : l[i] = l[j] => i = j
  OBVIOUS
<1> HIDE DEF k, n
<1> DEFINE From(i) == IF i < k THEN i ELSE i + 1
<1>5. n - 1 \in Nat /\ \A i \in 1 .. (n - 1) : From(i) \in 1 .. n /\ From(i) # k
  BY <1>1, <1>2
<1>6. \A i, j \in 1 .. (n - 1) : From(i) = From(j) => i = j
  BY <1>1, <1>2
<1>7. \A x \in 1 .. n : x # k => \E i \in 1 .. (n - 1) : From(i) = x
  <2>1. SUFFICES ASSUME NEW x \in 1 .. n, x # k PROVE \E i \in 1 .. (n - 1) : From(i) = x
    OBVIOUS
  <2>2. CASE x < k
    <3>1. x \in 1 .. (n - 1) /\ From(x) = x
      BY <1>1, <1>2, <2>2
    <3> QED BY <3>1
  <2>3. CASE ~(x < k)
    <3> DEFINE i == x - 1
    <3>1. i \in 1 .. (n - 1) /\ From(i) = x
      BY <1>1, <1>2, <2>1, <2>3
    <3> HIDE DEF i, From
    <3> QED BY <3>1
  <2> QED BY <2>2, <2>3
<1>8. \A i \in 1 .. (n - 1) : r[i] = l[From(i)]
  BY <1>3
<1>9. DOMAIN r = 1 .. (n - 1)
  BY <1>3
<1>10. n > 1 /\ k # 1 => 1 \in 1 .. (n - 1) /\ From(1) = 1
  BY <1>1, <1>2
<1>11. l[1] # t => k # 1 /\ n > 1
  BY <1>1, <1>2
<1> HIDE DEF From
<1>12. r \in [1 .. (n - 1) -> Tasks]
  BY <1>1, <1>3, <1>5, <1>8, <1>9
<1>13. r \in Seq(Tasks) /\ Len(r) = n - 1
  BY <1>5, <1>12
<1>14. \A i, j \in 1 .. Len(r) : r[i] = r[j] => i = j
  BY <1>4, <1>5, <1>6, <1>8, <1>13
<1>15. ASSUME NEW u \in Tasks PROVE (\E i \in 1 .. Len(r) : r[i] = u) <=> u # t /\ \E i \in 1 .. n : l[i] = u
  <2>1. ASSUME NEW i \in 1 .. Len(r), r[i] = u PROVE u # t /\ \E j \in 1 .. n : l[j] = u
    BY <1>2, <1>4, <1>5, <1>8, <1>13, <2>1
  <2>2. ASSUME u # t, NEW x \in 1 .. n, l[x] = u PROVE \E i \in 1 .. Len(r) : r[i] = u
    BY <1>2, <1>7, <1>8, <1>13, <2>2
  <2> QED BY <2>1, <2>2
<1>16. l[1] # t => r[1] = l[1]
  BY <1>8, <1>10, <1>11
<1> QED BY <1>13, <1>14, <1>15, <1>16 DEF Leaves, n

-----------------------------------------------------------------------------
(* The uid lookup.                                                          *)

Inside == {"sent", "served"}
Queued == {"waiting", "sent", "served"}

Lookups(s) == [pc: {"idle", "waiting", "sent", "served", "found", "notFound", "failed"},
               game: s.games \cup {NoGame}, since: Nat, games: SUBSET s.games]

(* No game but those in games had an account before the given time. *)
AsOf(s, b, games, time) == \A g \in s.games : g \in games \/ b[g] >= time

(* What the cache says of the accounts was so when they were asked for. *)
ItemRecent(s, e, b, n) ==
    /\ e.expires <= n + ttl
    /\ e.key = "accounts" => AsOf(s, b, e.value, e.expires - ttl - Transit)

GoodCache(s, c, b, n) ==
    /\ c \in Caches(s) /\ Len(c) <= s.maxsize /\ Once(c) /\ (s.static => c = <<>>)
    /\ \A i \in 1 .. Len(c) : ItemRecent(s, c[i], b, n)

LEMMA MemoryIs ==
    ASSUME NEW s, LookupSetting(s)
    PROVE  /\ Uids(s)!Memory \in Nat /\ Uids(s)!Memory <= ttl
           /\ ~s.static => Uids(s)!Memory = ttl
BY LookupAssumption DEF LookupSetting, Uids!Memory

(* What a task was told, or will be, is as recent. *)
TaskRecent(s, c, b, n) ==
    /\ c.pc # "idle" => c.game \in s.games
    /\ c.pc \in Inside => c.since <= n /\ n <= c.since + Transit
    /\ c.pc = "served" => AsOf(s, b, c.games, c.since)
    /\ c.pc = "notFound" => b[c.game] >= n - Uids(s)!Memory - Transit

LookupType(s) ==
    /\ now \in Nat /\ now <= s.time
    /\ lock \in Seq(Tasks) /\ task \in [Tasks -> Lookups(s)]
    /\ bound \in [s.games -> Nat] /\ stored \in Seq(Nat)

(* The tasks that wait or ask are in the lock's queue, and only the first    *)
(* one asks.                                                                *)
LockInv ==
    /\ \A i, j \in 1 .. Len(lock) : lock[i] = lock[j] => i = j
    /\ \A t \in Tasks : task[t].pc \in Queued <=> \E i \in 1 .. Len(lock) : lock[i] = t
    /\ \A t \in Tasks : task[t].pc \in Inside => lock[1] = t

LookupInv(s) ==
    /\ LookupType(s) /\ LockInv /\ GoodCache(s, cache, bound, now)
    /\ \A t \in Tasks : TaskRecent(s, task[t], bound, now)

(* With a cache to itself: it has the accounts until they time out, and      *)
(* none asks for them before.                                               *)
Own(s) == s.others = {} /\ ~s.static
LastStored == stored[Len(stored)]
OwnInv ==
    /\ \A i \in 1 .. (Len(stored) - 1) : stored[i + 1] > stored[i] + ttl
    /\ stored # <<>> => LastStored <= now
    /\ stored # <<>> /\ LastStored + ttl >= now => Len(cache) = 1 /\ cache[1].expires = LastStored + ttl
    /\ \A t \in Tasks : task[t].pc \in Inside /\ stored # <<>> => LastStored + ttl < now

LEMMA TimesAre == ttl \in Nat /\ Transit \in Nat
BY LookupAssumption

LEMMA LookupStarts ==
    ASSUME NEW s, LookupSetting(s), Uids(s)!Init
    PROVE  LookupInv(s) /\ OwnInv
<1> USE DEF Uids!Init
<1>1. s.time \in Nat /\ s.time + 1 \in Nat
  BY DEF LookupSetting
<1>2. bound \in [s.games -> Nat] /\ <<>> \in Seq(Tasks) /\ <<>> \in Seq(Nat) /\ <<>> \in Caches(s)
  BY <1>1 DEF Uids!Never, Caches
<1>3. \A t \in Tasks : task[t].pc = "idle"
  BY DEF Uids!Idle
<1>4. task \in [Tasks -> Lookups(s)]
  BY DEF Uids!Idle, Lookups
<1>5. LookupType(s)
  BY <1>1, <1>2, <1>4 DEF LookupType, LookupSetting
<1>6. LockInv
  BY <1>3 DEF LockInv, Queued, Inside
<1>7. GoodCache(s, cache, bound, now)
  BY <1>2 DEF GoodCache, Once, LookupSetting
<1>8. \A t \in Tasks : TaskRecent(s, task[t], bound, now)
  BY <1>3 DEF TaskRecent, Inside
<1>9. OwnInv
  BY <1>3 DEF OwnInv, Inside
<1> QED BY <1>5, <1>6, <1>7, <1>8, <1>9 DEF LookupInv

(* A task changes, and with it perhaps the cache. *)
LEMMA OneLookup ==
    ASSUME NEW s, LookupInv(s), NEW t \in Tasks, NEW c \in Lookups(s), TaskRecent(s, c, bound, now),
           task' = [task EXCEPT ![t] = c], now' = now, bound' = bound,
           GoodCache(s, cache', bound, now), lock' \in Seq(Tasks), stored' \in Seq(Nat), LockInv'
    PROVE  LookupInv(s)'
<1>1. LookupType(s)'
  BY DEF LookupInv, LookupType
<1>2. \A u \in Tasks : task'[u] = IF u = t THEN c ELSE task[u]
  BY DEF LookupInv, LookupType
<1>3. \A u \in Tasks : TaskRecent(s, task'[u], bound, now)
  BY <1>2 DEF LookupInv
<1> QED BY <1>1, <1>3 DEF LookupInv

(* A task leaves the lock. *)
LEMMA LeaveKeeps ==
    ASSUME NEW s, LookupInv(s), NEW t \in Tasks, task[t].pc \in Queued,
           NEW p \in {"found", "notFound", "failed"}, Uids(s)!Leave(t, p),
           p = "notFound" => bound[task[t].game] >= now - Uids(s)!Memory - Transit,
           now' = now, bound' = bound, GoodCache(s, cache', bound, now), stored' \in Seq(Nat)
    PROVE  LookupInv(s)'
<1> DEFINE c == [task[t] EXCEPT !.pc = p]
<1>1. task[t] \in Lookups(s) /\ lock \in Seq(Tasks) /\ task \in [Tasks -> Lookups(s)] /\ LockInv
  BY DEF LookupInv, LookupType
<1>2. c \in Lookups(s) /\ c.pc = p /\ c.game = task[t].game
  BY <1>1 DEF Lookups
<1>3. task' = [task EXCEPT ![t] = c] /\ lock' = Uids(s)!Without(lock, t)
  BY DEF Uids!Leave, Uids!Becomes
<1> HIDE DEF c
<1>4. \E i \in 1 .. Len(lock) : lock[i] = t
  BY <1>1 DEF LockInv
<1>5. Leaves(lock, t, lock')
  BY <1>1, <1>3, <1>4, WithoutIs DEF LockInv
<1>6. TaskRecent(s, c, bound, now)
  <2>1. task[t].game \in s.games
    BY DEF LookupInv, TaskRecent, Queued
  <2> QED BY <1>2, <2>1 DEF TaskRecent, Inside
<1>7. \A u \in Tasks : task'[u] = IF u = t THEN c ELSE task[u]
  BY <1>1, <1>3
<1>8. LockInv'
  <2>1. p \notin Queued /\ p \notin Inside
    BY DEF Queued, Inside
  <2>2. \A i, j \in 1 .. Len(lock') : lock'[i] = lock'[j] => i = j
    BY <1>5 DEF Leaves
  <2>3. \A u \in Tasks : task'[u].pc \in Queued <=> \E i \in 1 .. Len(lock') : lock'[i] = u
    BY <1>1, <1>2, <1>5, <1>7, <2>1 DEF Leaves, LockInv
  <2>4. \A u \in Tasks : task'[u].pc \in Inside => lock'[1] = u
    BY <1>1, <1>2, <1>5, <1>7, <2>1 DEF Leaves, LockInv
  <2> QED BY <2>2, <2>3, <2>4 DEF LockInv
<1>9. lock' \in Seq(Tasks)
  BY <1>5 DEF Leaves
<1> QED BY <1>2, <1>3, <1>6, <1>8, <1>9, OneLookup

(* A task stays where it is in the queue. *)
LEMMA StayKeeps ==
    ASSUME NEW s, LookupInv(s), NEW t \in Tasks, NEW c \in Lookups(s), TaskRecent(s, c, bound, now),
           task' = [task EXCEPT ![t] = c], lock' = lock, now' = now, bound' = bound,
           c.pc \in Queued <=> task[t].pc \in Queued, c.pc \in Inside => lock[1] = t,
           GoodCache(s, cache', bound, now), stored' \in Seq(Nat)
    PROVE  LookupInv(s)'
<1>1. lock \in Seq(Tasks) /\ task \in [Tasks -> Lookups(s)] /\ LockInv
  BY DEF LookupInv, LookupType
<1>2. \A u \in Tasks : task'[u] = IF u = t THEN c ELSE task[u]
  BY <1>1
<1>3. LockInv'
  BY <1>1, <1>2 DEF LockInv
<1> QED BY <1>1, <1>3, OneLookup

(* While neither the cache nor the clock moves, nor a task begins to ask. *)
LEMMA OwnStays ==
    ASSUME OwnInv, UNCHANGED <<now, cache, stored>>,
           \A u \in Tasks : task'[u].pc \in Inside => task[u].pc \in Inside
    PROVE  OwnInv'
BY DEF OwnInv, LastStored

LEMMA LookupIs ==
    ASSUME NEW s, NEW c \in Caches(s)
    PROVE  \A v : v \in Uids(s)!Lookup(c, Uids(s)!Accounts) <=>
                    \E i \in 1 .. Len(c) : c[i].key = "accounts" /\ c[i].value = v
<1>1. DOMAIN c = 1 .. Len(c)
  BY ItemIs
<1> QED BY <1>1 DEF Uids!Lookup, Uids!Accounts

LEMMA ClearedGood ==
    ASSUME NEW s, LookupSetting(s), NEW c, GoodCache(s, c, bound, now), NEW r, r = Uids(s)!Cleared(c)
    PROVE  /\ Clears(s, c, r) /\ GoodCache(s, r, bound, now)
           /\ \A i \in 1 .. Len(r) : r[i].expires >= now
<1>1. c \in Caches(s) /\ Once(c) /\ \A i \in 1 .. Len(c) : ItemRecent(s, c[i], bound, now)
  BY DEF GoodCache
<1>2. Clears(s, c, r)
  BY <1>1, ClearedIs
<1>3. \A i \in 1 .. Len(r) : \E j \in 1 .. Len(c) : r[i] = c[j] /\ c[j].expires >= now
  BY <1>2 DEF Clears, CopiedFrom
<1>4. \A i \in 1 .. Len(r) : r[i].expires >= now /\ ItemRecent(s, r[i], bound, now)
  BY <1>1, <1>3
<1>5. r \in Caches(s) /\ Len(r) <= s.maxsize /\ Once(r)
  BY <1>1, <1>2 DEF Clears, CopiedFrom
<1>6. ASSUME s.static PROVE r = <<>>
  <2>1. c = <<>>
    BY <1>6 DEF GoodCache
  <2>2. Len(r) \in Nat /\ (Len(r) # 0 => 1 \in 1 .. Len(r)) /\ 1 .. Len(c) = {}
    BY <1>5, <2>1 DEF Caches
  <2>3. Len(r) = 0
    BY <1>3, <2>2
  <2> QED BY <1>5, <2>3 DEF Caches
<1> QED BY <1>2, <1>4, <1>5, <1>6 DEF GoodCache

LEMMA SetGood ==
    ASSUME NEW s, LookupSetting(s), NEW c, GoodCache(s, c, bound, now), now \in Nat,
           NEW k \in CacheKeys(s), NEW v \in SUBSET s.games, k = "accounts" => AsOf(s, bound, v, now - Transit),
           NEW r, r = Uids(s)!Set(c, k, v)
    PROVE  /\ GoodCache(s, r, bound, now)
           /\ s.static \/ Stores(s, c, [key |-> k, expires |-> now + ttl, value |-> v], r)
<1>a. CASE s.static
  BY <1>a DEF Uids!Set
<1>b. CASE ~s.static
  <2> DEFINE e == [key |-> k, expires |-> now + ttl, value |-> v]
  <2>1. c \in Caches(s) /\ Once(c) /\ \A i \in 1 .. Len(c) : ItemRecent(s, c[i], bound, now)
    BY DEF GoodCache
  <2>2. now + ttl \in Int /\ now + ttl >= now /\ (now + ttl) - ttl - Transit = now - Transit
    BY TimesAre
  <2>3. Stores(s, c, e, r)
    BY <1>b, <2>1, <2>2, SetIs
  <2>4. e.key = k /\ e.expires = now + ttl /\ e.value = v
    OBVIOUS
  <2> HIDE DEF e
  <2>5. ItemRecent(s, e, bound, now)
    BY <2>2, <2>4 DEF ItemRecent
  <2>6. \A i \in 1 .. Len(r) : ItemRecent(s, r[i], bound, now)
    BY <2>1, <2>3, <2>5 DEF Stores
  <2>7. r \in Caches(s) /\ Len(r) <= s.maxsize /\ Once(r)
    BY <2>1, <2>3 DEF Stores
  <2> QED BY <1>b, <2>3, <2>6, <2>7 DEF GoodCache, e
<1> QED BY <1>a, <1>b

LEMMA CallKeeps ==
    ASSUME NEW s, LookupInv(s), NEW t \in Tasks, Uids(s)!Call(t)
    PROVE  LookupInv(s)' /\ (OwnInv => OwnInv')
<1>1. lock \in Seq(Tasks) /\ task \in [Tasks -> Lookups(s)] /\ LockInv /\ stored \in Seq(Nat)
      /\ GoodCache(s, cache, bound, now)
  BY DEF LookupInv, LookupType
<1>2. PICK g \in s.games : task' = [task EXCEPT ![t] = [Uids(s)!Idle EXCEPT !.pc = "waiting", !.game = g]]
  BY DEF Uids!Call
<1> DEFINE c == [Uids(s)!Idle EXCEPT !.pc = "waiting", !.game = g]
<1>3. c \in Lookups(s) /\ c.pc = "waiting" /\ c.game = g
  BY DEF Uids!Idle, Lookups
<1>4. task' = [task EXCEPT ![t] = c]
  BY <1>2
<1>5. /\ task[t].pc \notin Queued /\ lock' = Append(lock, t)
      /\ now' = now /\ cache' = cache /\ bound' = bound /\ stored' = stored
  BY DEF Uids!Call, Queued
<1> HIDE DEF c
<1>6. \A u \in Tasks : task'[u] = IF u = t THEN c ELSE task[u]
  BY <1>1, <1>4
<1>7. TaskRecent(s, c, bound, now)
  BY <1>3 DEF TaskRecent, Inside
<1>8. ~ \E i \in 1 .. Len(lock) : lock[i] = t
  BY <1>1, <1>5 DEF LockInv
<1>9. /\ lock' \in Seq(Tasks) /\ Len(lock') = Len(lock) + 1 /\ lock'[Len(lock) + 1] = t
      /\ Len(lock) \in Nat /\ \A i \in 1 .. Len(lock) : lock'[i] = lock[i]
  BY <1>1, <1>5
<1>10. \A i \in 1 .. Len(lock') : i \in 1 .. Len(lock) \/ i = Len(lock) + 1
  BY <1>9
<1>11. LockInv'
  <2>1. \A i, j \in 1 .. Len(lock') : lock'[i] = lock'[j] => i = j
    BY <1>1, <1>8, <1>9, <1>10, SMTT(60) DEF LockInv
  <2>2. \A u \in Tasks : task'[u].pc \in Queued <=> \E i \in 1 .. Len(lock') : lock'[i] = u
    <3>1. SUFFICES ASSUME NEW u \in Tasks
                   PROVE  task'[u].pc \in Queued <=> \E i \in 1 .. Len(lock') : lock'[i] = u
      OBVIOUS
    <3>2. CASE u = t
      <4>1. task'[u].pc \in Queued /\ Len(lock) + 1 \in 1 .. Len(lock')
        BY <1>3, <1>6, <1>9, <3>2 DEF Queued
      <4> QED BY <1>9, <3>2, <4>1
    <3>3. CASE u # t
      <4>1. task'[u] = task[u] /\ \A i \in 1 .. Len(lock) : i \in 1 .. Len(lock')
        BY <1>6, <1>9, <3>3
      <4> QED BY <1>1, <1>9, <1>10, <3>3, <4>1 DEF LockInv
    <3> QED BY <3>2, <3>3
  <2>3. \A u \in Tasks : task'[u].pc \in Inside => lock'[1] = u
    <3>1. SUFFICES ASSUME NEW u \in Tasks, task'[u].pc \in Inside PROVE lock'[1] = u
      OBVIOUS
    <3>2. task[u].pc \in Inside /\ task[u].pc \in Queued
      BY <1>3, <1>6, <3>1 DEF Inside, Queued
    <3>3. lock[1] = u /\ 1 \in 1 .. Len(lock)
      BY <1>1, <1>9, <3>2 DEF LockInv
    <3> QED BY <1>9, <3>3
  <2> QED BY <2>1, <2>2, <2>3 DEF LockInv
<1>12. LookupInv(s)'
  BY <1>1, <1>3, <1>4, <1>5, <1>7, <1>9, <1>11, OneLookup
<1>13. \A u \in Tasks : task'[u].pc \in Inside => task[u].pc \in Inside
  BY <1>3, <1>6 DEF Inside
<1> QED BY <1>5, <1>12, <1>13, OwnStays

(* The steps that only leave: a failure or a cancellation.                  *)
LEMMA FailKeeps ==
    ASSUME NEW s, LookupInv(s), NEW t \in Tasks, Uids(s)!Fail(t) \/ Uids(s)!CancelWaiting(t)
    PROVE  LookupInv(s)' /\ (OwnInv => OwnInv')
<1>1. /\ task[t].pc \in Queued /\ Uids(s)!Leave(t, "failed")
      /\ now' = now /\ cache' = cache /\ bound' = bound /\ stored' = stored
  BY DEF Uids!Fail, Uids!CancelWaiting, Queued
<1>2. stored \in Seq(Nat) /\ GoodCache(s, cache, bound, now) /\ task \in [Tasks -> Lookups(s)]
  BY DEF LookupInv, LookupType
<1>3. LookupInv(s)'
  <2>1. "failed" \in {"found", "notFound", "failed"} /\ "failed" # "notFound"
    OBVIOUS
  <2> QED BY <1>1, <1>2, <2>1, LeaveKeeps
<1>4. \A u \in Tasks : task'[u].pc \in Inside => task[u].pc \in Inside
  <2>1. \A u \in Tasks : u # t => task'[u] = task[u]
    BY <1>1, <1>2 DEF Uids!Leave, Uids!Becomes
  <2>2. task'[t].pc = "failed"
    BY <1>1, <1>2 DEF Uids!Leave, Uids!Becomes, Lookups
  <2> QED BY <2>1, <2>2 DEF Inside
<1> QED BY <1>1, <1>3, <1>4, OwnStays

LEMMA ServeLookupKeeps ==
    ASSUME NEW s, LookupInv(s), NEW t \in Tasks, Uids(s)!Serve(t)
    PROVE  LookupInv(s)' /\ (OwnInv => OwnInv')
<1> DEFINE B == Uids(s)!Bound
           c == [task[t] EXCEPT !.pc = "served", !.games = B]
<1>1. /\ task[t].pc = "sent" /\ task' = [task EXCEPT ![t] = c] /\ lock' = lock
      /\ now' = now /\ cache' = cache /\ bound' = bound /\ stored' = stored
  BY DEF Uids!Serve
<1>2. /\ stored \in Seq(Nat) /\ GoodCache(s, cache, bound, now) /\ task \in [Tasks -> Lookups(s)]
      /\ now \in Nat /\ bound \in [s.games -> Nat] /\ TaskRecent(s, task[t], bound, now) /\ LockInv
  BY DEF LookupInv, LookupType
<1>3. B \in SUBSET s.games /\ \A g \in s.games : g \in B \/ bound[g] > now
  BY <1>2 DEF Uids!Bound
<1> HIDE DEF B
<1>4. c \in Lookups(s) /\ c.pc = "served" /\ c.games = B /\ c.game = task[t].game /\ c.since = task[t].since
  BY <1>2, <1>3 DEF Lookups
<1> HIDE DEF c
<1>5. task[t].game \in s.games /\ task[t].since <= now /\ now <= task[t].since + Transit /\ task[t].since \in Nat
  BY <1>1, <1>2 DEF TaskRecent, Inside, Lookups
<1>6. \A g \in s.games : bound[g] > now => bound[g] >= task[t].since
  BY <1>2, <1>5
<1>7. TaskRecent(s, c, bound, now)
  BY <1>3, <1>4, <1>5, <1>6 DEF TaskRecent, AsOf
<1>8. c.pc \in Queued /\ task[t].pc \in Queued /\ task[t].pc \in Inside
  BY <1>1, <1>4 DEF Queued, Inside
<1>9. lock[1] = t
  BY <1>2, <1>8 DEF LockInv
<1>10. LookupInv(s)'
  BY <1>1, <1>2, <1>4, <1>7, <1>8, <1>9, StayKeeps
<1>11. \A u \in Tasks : task'[u].pc \in Inside => task[u].pc \in Inside
  BY <1>1, <1>2, <1>8
<1> QED BY <1>1, <1>10, <1>11, OwnStays

LEMMA ReturnKeeps ==
    ASSUME NEW s, LookupInv(s), NEW t \in Tasks, Uids(s)!Return(t)
    PROVE  LookupInv(s)' /\ (OwnInv => OwnInv')
<1> DEFINE c == [task[t] EXCEPT !.pc = "idle"]
<1>1. /\ task[t].pc \notin Queued /\ task' = [task EXCEPT ![t] = c] /\ lock' = lock
      /\ now' = now /\ cache' = cache /\ bound' = bound /\ stored' = stored
  BY DEF Uids!Return, Uids!Becomes, Queued
<1>2. stored \in Seq(Nat) /\ GoodCache(s, cache, bound, now) /\ task \in [Tasks -> Lookups(s)]
  BY DEF LookupInv, LookupType
<1>3. c \in Lookups(s) /\ c.pc = "idle"
  BY <1>2 DEF Lookups
<1> HIDE DEF c
<1>4. TaskRecent(s, c, bound, now) /\ c.pc \notin Queued /\ c.pc \notin Inside
  BY <1>3 DEF TaskRecent, Queued, Inside
<1>5. LookupInv(s)'
  BY <1>1, <1>2, <1>3, <1>4, StayKeeps
<1>6. \A u \in Tasks : task'[u].pc \in Inside => task[u].pc \in Inside
  BY <1>1, <1>2, <1>4
<1> QED BY <1>1, <1>5, <1>6, OwnStays

(* Alone in the cache, the accounts are there or they are not. *)
LEMMA OneItem ==
    ASSUME NEW s, s.others = {}, NEW c \in Caches(s), Once(c)
    PROVE  /\ \A i \in 1 .. Len(c) : c[i].key = "accounts"
           /\ Len(c) = 0 \/ Len(c) = 1
<1>1. Len(c) \in Nat /\ \A i \in 1 .. Len(c) : c[i].key = "accounts"
  BY ItemIs DEF CacheKeys
<1>2. Len(c) > 1 => 1 \in 1 .. Len(c) /\ 2 \in 1 .. Len(c)
  BY <1>1
<1>3. ~(Len(c) > 1)
  <2>1. SUFFICES ASSUME Len(c) > 1 PROVE FALSE
    OBVIOUS
  <2>2. c[1].key = c[2].key
    BY <1>1, <1>2, <2>1
  <2> QED BY <1>2, <2>1, <2>2 DEF Once
<1>4. Len(c) \in Nat
  BY <1>1
<1>5. Len(c) = 0 \/ Len(c) = 1
  BY ONLY <1>3, <1>4
<1> QED BY <1>1, <1>5

LEMMA OwnCleared ==
    ASSUME NEW s, LookupSetting(s), s.others = {}, LookupInv(s), OwnInv,
           cache' = Uids(s)!Cleared(cache), now' = now, stored' = stored,
           \A u \in Tasks : task'[u].pc \in Inside =>
               task[u].pc \in Inside \/ (stored # <<>> => LastStored + ttl < now)
    PROVE  OwnInv'
<1>1. GoodCache(s, cache, bound, now)
  BY DEF LookupInv
<1>2. Clears(s, cache, cache') /\ cache \in Caches(s)
  BY <1>1, ClearedGood DEF GoodCache
<1>3. ASSUME stored # <<>>, LastStored + ttl >= now PROVE Len(cache') = 1 /\ cache'[1].expires = LastStored + ttl
  <2>1. Len(cache) = 1 /\ cache[1].expires = LastStored + ttl
    BY <1>3 DEF OwnInv
  <2>2. cache' = cache
    BY <1>2, <1>3, <2>1 DEF Clears
  <2> QED BY <2>1, <2>2
<1>4. LastStored' = LastStored
  BY DEF LastStored
<1>5. \A u \in Tasks : task'[u].pc \in Inside /\ stored # <<>> => LastStored + ttl < now
  BY DEF OwnInv
<1> QED BY <1>3, <1>4, <1>5 DEF OwnInv

LEMMA LastIs == ASSUME NEW s, LookupInv(s), stored # <<>> PROVE LastStored \in Nat
BY DEF LookupInv, LookupType, LastStored

LEMMA EnterKeeps ==
    ASSUME NEW s, LookupSetting(s), LookupInv(s), NEW t \in Tasks, Uids(s)!Enter(t)
    PROVE  LookupInv(s)' /\ (Own(s) /\ OwnInv => OwnInv')
<1>1. /\ task[t].pc = "waiting" /\ task[t].pc \in Queued /\ lock # <<>> /\ Head(lock) = t
      /\ now' = now /\ bound' = bound /\ stored' = stored
  BY DEF Uids!Enter, Uids!Holds, Queued
<1>2. /\ stored \in Seq(Nat) /\ GoodCache(s, cache, bound, now) /\ task \in [Tasks -> Lookups(s)]
      /\ now \in Nat /\ bound \in [s.games -> Nat] /\ TaskRecent(s, task[t], bound, now)
      /\ lock \in Seq(Tasks)
  BY DEF LookupInv, LookupType
<1>3. lock[1] = t /\ task[t].game \in s.games
  BY <1>1, <1>2 DEF TaskRecent
<1>4. ASSUME NEW p \in {"found", "notFound", "failed"}, Uids(s)!Leave(t, p)
      PROVE  \A u \in Tasks : task'[u].pc \in Inside => task[u].pc \in Inside
  <2>1. \A u \in Tasks : u # t => task'[u] = task[u]
    BY <1>2, <1>4 DEF Uids!Leave, Uids!Becomes
  <2>2. task'[t].pc = p
    BY <1>2, <1>4 DEF Uids!Leave, Uids!Becomes, Lookups
  <2> QED BY <2>1, <2>2 DEF Inside
<1>5. CASE task[t].game \in uids
  <2>1. Uids(s)!Leave(t, "found") /\ cache' = cache
    BY <1>5 DEF Uids!Enter
  <2>2. LookupInv(s)'
    <3>1. "found" \in {"found", "notFound", "failed"} /\ "found" # "notFound"
      OBVIOUS
    <3> QED BY <1>1, <1>2, <2>1, <3>1, LeaveKeeps
  <2> QED BY <1>1, <1>4, <2>1, <2>2, OwnStays
<1>7. CASE task[t].game \notin uids /\ s.multi
  <2>1. Uids(s)!Leave(t, "failed") /\ cache' = cache
    BY <1>7 DEF Uids!Enter
  <2>2. LookupInv(s)'
    <3>1. "failed" \in {"found", "notFound", "failed"} /\ "failed" # "notFound"
      OBVIOUS
    <3> QED BY <1>1, <1>2, <2>1, <3>1, LeaveKeeps
  <2> QED BY <1>1, <1>4, <2>1, <2>2, OwnStays
<1>6. CASE task[t].game \notin uids /\ ~s.multi
  <2>1. cache' = Uids(s)!Cleared(cache)
    BY <1>6 DEF Uids!Enter
  <2>2. /\ Clears(s, cache, cache') /\ GoodCache(s, cache', bound, now)
        /\ \A i \in 1 .. Len(cache') : cache'[i].expires >= now
    BY <1>2, <2>1, ClearedGood
  <2>3. cache' \in Caches(s)
    BY <2>2 DEF GoodCache
  <2>4. CASE Uids(s)!Lookup(cache', Uids(s)!Accounts) = {}
    <3> DEFINE c == [task[t] EXCEPT !.pc = "sent", !.since = now]
    <3>1. task' = [task EXCEPT ![t] = c] /\ lock' = lock
      BY <1>6, <2>4 DEF Uids!Enter
    <3>2. c \in Lookups(s) /\ c.pc = "sent" /\ c.since = now /\ c.game = task[t].game
      BY <1>2 DEF Lookups
    <3> HIDE DEF c
    <3>3. TaskRecent(s, c, bound, now)
      BY <1>2, <1>3, <3>2, TimesAre DEF TaskRecent
    <3>4. c.pc \in Queued
      BY <3>2 DEF Queued
    <3>5. LookupInv(s)'
      BY <1>1, <1>2, <1>3, <2>2, <3>1, <3>2, <3>3, <3>4, StayKeeps
    <3>6. ASSUME Own(s), OwnInv PROVE OwnInv'
      <4>1. \A i \in 1 .. Len(cache') : cache'[i].key # "accounts"
        BY <2>3, <2>4, LookupIs
      <4>2. ASSUME stored # <<>> PROVE LastStored + ttl < now
        <5>1. SUFFICES ASSUME LastStored + ttl >= now PROVE FALSE
          BY <1>2, <4>2, LastIs, TimesAre
        <5>2. Len(cache) = 1 /\ cache[1].expires = LastStored + ttl
          BY <3>6, <4>2, <5>1 DEF OwnInv
        <5>3. cache' = cache
          BY <2>2, <5>1, <5>2 DEF Clears
        <5>4. cache[1].key = "accounts"
          BY <1>2, <3>6, <5>2, OneItem DEF GoodCache, Own
        <5>5. 1 \in 1 .. Len(cache') /\ cache'[1].key = "accounts"
          <6>1. Len(cache') = 1 /\ cache'[1].key = "accounts"
            BY <5>2, <5>3, <5>4
          <6>2. 1 \in 1 .. 1
            OBVIOUS
          <6> QED BY <6>1, <6>2
        <5> QED BY <4>1, <5>5
      <4>3. \A u \in Tasks : task'[u].pc \in Inside =>
               task[u].pc \in Inside \/ (stored # <<>> => LastStored + ttl < now)
        BY <4>2
      <4> QED BY <1>1, <2>1, <3>6, <4>3, OwnCleared DEF Own
    <3> QED BY <3>5, <3>6
  <2>5. CASE Uids(s)!Lookup(cache', Uids(s)!Accounts) # {}
    <3>1. PICK games \in Uids(s)!Lookup(cache', Uids(s)!Accounts) : Uids(s)!Update(t, games)
      BY <1>6, <2>5 DEF Uids!Enter
    <3> DEFINE p == IF task[t].game \in games THEN "found" ELSE "notFound"
    <3>2. Uids(s)!Leave(t, p)
      BY <3>1 DEF Uids!Update
    <3>3. p \in {"found", "notFound", "failed"} /\ p \in {"found", "notFound"}
          /\ (p = "notFound" => task[t].game \notin games)
      OBVIOUS
    <3> HIDE DEF p
    <3>4. ASSUME p = "notFound" PROVE bound[task[t].game] >= now - Uids(s)!Memory - Transit
      <4>1. PICK i \in 1 .. Len(cache') : cache'[i].key = "accounts" /\ cache'[i].value = games
        BY <2>3, <3>1, LookupIs
      <4>6. Uids(s)!Memory = ttl
        <5>1. Len(cache') \in Nat /\ i \in 1 .. Len(cache')
          BY <2>3 DEF Caches
        <5>2. cache' # <<>>
          BY <5>1
        <5> QED BY <2>2, <5>2, MemoryIs DEF GoodCache
      <4> DEFINE x == cache'[i].expires
                 b == bound[task[t].game]
      <4>2. ItemRecent(s, cache'[i], bound, now)
        BY <2>2 DEF GoodCache
      <4>3. b >= x - ttl - Transit
        BY <1>3, <3>3, <3>4, <4>1, <4>2 DEF ItemRecent, AsOf
      <4>4. x \in Int /\ x >= now /\ b \in Nat
        BY <1>2, <1>3, <2>2, <2>3, ItemIs
      <4> HIDE DEF x, b
      <4>5. b >= now - ttl - Transit
        BY ONLY <4>3, <4>4, <1>2, TimesAre
      <4> QED BY <4>5, <4>6 DEF b
    <3>5. LookupInv(s)'
      BY <1>1, <1>2, <2>2, <3>2, <3>3, <3>4, LeaveKeeps
    <3>6. Own(s) /\ OwnInv => OwnInv'
      BY <1>1, <1>4, <2>1, <3>2, <3>3, OwnCleared DEF Own
    <3> QED BY <3>5, <3>6
  <2> QED BY <2>4, <2>5
<1> QED BY <1>5, <1>6, <1>7

LEMMA ArriveKeeps ==
    ASSUME NEW s, LookupSetting(s), LookupInv(s), NEW t \in Tasks, Uids(s)!Arrive(t)
    PROVE  LookupInv(s)' /\ (Own(s) /\ OwnInv => OwnInv')
<1> DEFINE v == task[t].games
           p == IF task[t].game \in v THEN "found" ELSE "notFound"
           e == [key |-> "accounts", expires |-> now + ttl, value |-> v]
<1>1. /\ task[t].pc = "served" /\ cache' = Uids(s)!Set(cache, "accounts", v)
      /\ stored' = Append(stored, now) /\ now' = now /\ bound' = bound
      /\ Uids(s)!Leave(t, p)
  BY DEF Uids!Arrive, Uids!Update, Uids!Accounts
<1>2. /\ stored \in Seq(Nat) /\ GoodCache(s, cache, bound, now) /\ task \in [Tasks -> Lookups(s)]
      /\ now \in Nat /\ bound \in [s.games -> Nat] /\ TaskRecent(s, task[t], bound, now)
      /\ lock \in Seq(Tasks) /\ LockInv
  BY DEF LookupInv, LookupType
<1>3. v \in SUBSET s.games /\ task[t].since \in Nat /\ task[t].game \in s.games
  BY <1>1, <1>2 DEF Lookups, TaskRecent
<1>4. task[t].since >= now - Transit /\ AsOf(s, bound, v, task[t].since) /\ now - Transit >= now - ttl - Transit
  BY <1>1, <1>2, <1>3, TimesAre DEF TaskRecent, Inside
<1>5. p \in {"found", "notFound", "failed"} /\ (p = "notFound" => task[t].game \notin v)
      /\ p \notin Inside /\ task[t].pc \in Inside /\ task[t].pc \in Queued
  BY <1>1 DEF Inside, Queued
<1> HIDE DEF v, p
<1>6. AsOf(s, bound, v, now - Transit)
  <2>1. ASSUME NEW g \in s.games, bound[g] >= task[t].since PROVE bound[g] >= now - Transit
    BY <1>2, <1>3, <1>4, <2>1, TimesAre
  <2> QED BY <1>4, <2>1 DEF AsOf
<1>7. "accounts" \in CacheKeys(s)
  BY DEF CacheKeys
<1>8. GoodCache(s, cache', bound, now) /\ (s.static \/ Stores(s, cache, e, cache'))
  BY <1>1, <1>2, <1>3, <1>6, <1>7, SetGood
<1>9. e.key = "accounts" /\ e.expires = now + ttl
  OBVIOUS
<1> HIDE DEF e
<1>10. ASSUME p = "notFound" PROVE bound[task[t].game] >= now - Uids(s)!Memory - Transit
  <2>1. bound[task[t].game] >= now - Transit /\ bound[task[t].game] \in Nat
    BY <1>2, <1>3, <1>5, <1>6, <1>10 DEF AsOf
  <2>2. Uids(s)!Memory \in Nat
    BY MemoryIs
  <2> QED BY <1>2, <2>1, <2>2, TimesAre
<1>11. stored' \in Seq(Nat) /\ Len(stored) \in Nat /\ Len(stored') = Len(stored) + 1 /\ stored'[Len(stored) + 1] = now
       /\ (\A i \in 1 .. Len(stored) : stored'[i] = stored[i]) /\ (stored # <<>> <=> Len(stored) # 0)
       /\ stored' # <<>>
  BY <1>1, <1>2
<1>12. LookupInv(s)'
  BY <1>1, <1>2, <1>5, <1>8, <1>10, <1>11, LeaveKeeps
<1>13. ASSUME Own(s), OwnInv PROVE OwnInv'
  <2>1. LastStored' = now /\ (Len(stored) # 0 => LastStored = stored[Len(stored)])
    BY <1>11 DEF LastStored
  <2>2. \A i \in 1 .. (Len(stored') - 1) : stored'[i + 1] > stored'[i] + ttl
    <3>1. SUFFICES ASSUME NEW i \in 1 .. (Len(stored') - 1) PROVE stored'[i + 1] > stored'[i] + ttl
      OBVIOUS
    <3>2. i \in 1 .. Len(stored) /\ (i = Len(stored) \/ (i \in 1 .. (Len(stored) - 1) /\ i + 1 \in 1 .. Len(stored)))
      BY <1>11
    <3>3. CASE i = Len(stored)
      <4>1. LastStored + ttl < now
        BY <1>5, <1>11, <1>13, <3>2, <3>3 DEF OwnInv
      <4>2. stored'[i] = LastStored /\ stored'[i + 1] = now /\ LastStored \in Nat
        BY <1>2, <1>11, <2>1, <3>2, <3>3
      <4> QED BY <1>2, <4>1, <4>2, TimesAre
    <3>4. CASE i # Len(stored)
      BY <1>11, <1>13, <3>2, <3>4 DEF OwnInv
    <3> QED BY <3>3, <3>4
  <2>3. Len(cache') = 1 /\ cache'[1].expires = now + ttl
    <3>1. Len(cache) = 0 \/ (Len(cache) = 1 /\ cache[1].key = e.key)
      BY <1>2, <1>9, <1>13, OneItem, SMTT(60) DEF GoodCache, Own
    <3> QED BY <1>8, <1>9, <1>13, <3>1 DEF Stores, Own
  <2>4. \A u \in Tasks : task'[u].pc \notin Inside
    <3>1. task'[t].pc = p /\ \A u \in Tasks : u # t => task'[u] = task[u]
      BY <1>1, <1>2 DEF Uids!Leave, Uids!Becomes, Lookups
    <3>2. \A u \in Tasks : u # t => task[u].pc \notin Inside
      BY <1>2, <1>5 DEF LockInv
    <3> QED BY <1>5, <3>1, <3>2
  <2> QED BY <1>1, <1>2, <2>1, <2>2, <2>3, <2>4 DEF OwnInv
<1> QED BY <1>12, <1>13

LEMMA OtherKeeps ==
    ASSUME NEW s, LookupSetting(s), LookupInv(s), NEW k \in s.others, Uids(s)!Other(k)
    PROVE  LookupInv(s)'
<1> DEFINE c == Uids(s)!Cleared(cache)
<1>1. /\ cache' = Uids(s)!Set(c, k, {})
      /\ now' = now /\ lock' = lock /\ task' = task /\ bound' = bound /\ stored' = stored
  BY DEF Uids!Other
<1>2. GoodCache(s, c, bound, now)
  BY ClearedGood DEF LookupInv
<1> HIDE DEF c
<1>3. k \in CacheKeys(s) /\ k # "accounts" /\ {} \in SUBSET s.games /\ now \in Nat
  BY DEF CacheKeys, LookupSetting, LookupInv, LookupType
<1>4. GoodCache(s, cache', bound, now)
  BY <1>1, <1>2, <1>3, SetGood
<1>5. LookupType(s)' /\ LockInv'
  BY <1>1 DEF LookupInv, LookupType, LockInv
<1>6. \A t \in Tasks : TaskRecent(s, task'[t], bound', now')
  BY <1>1 DEF LookupInv
<1> QED BY <1>1, <1>4, <1>5, <1>6 DEF LookupInv

LEMMA BindKeeps ==
    ASSUME NEW s, LookupSetting(s), LookupInv(s), NEW g \in s.games, Uids(s)!Bind(g)
    PROVE  LookupInv(s)' /\ (OwnInv => OwnInv')
<1>1. /\ bound' = [bound EXCEPT ![g] = now]
      /\ now' = now /\ cache' = cache /\ lock' = lock /\ task' = task /\ stored' = stored
  BY DEF Uids!Bind
<1>2. /\ GoodCache(s, cache, bound, now) /\ task \in [Tasks -> Lookups(s)]
      /\ now \in Nat /\ bound \in [s.games -> Nat] /\ \A t \in Tasks : TaskRecent(s, task[t], bound, now)
  BY DEF LookupInv, LookupType
<1>3. ASSUME NEW games, NEW time \in Int, time <= now, AsOf(s, bound, games, time)
      PROVE  AsOf(s, bound', games, time)
  BY <1>1, <1>2, <1>3 DEF AsOf
<1>4. GoodCache(s, cache, bound', now)
  <2>1. ASSUME NEW i \in 1 .. Len(cache) PROVE ItemRecent(s, cache[i], bound', now)
    <3>1. ItemRecent(s, cache[i], bound, now) /\ cache[i].expires \in Int
      BY <1>2, ItemIs DEF GoodCache
    <3>2. cache[i].expires - ttl - Transit \in Int /\ cache[i].expires - ttl - Transit <= now
      BY <1>2, <3>1, TimesAre DEF ItemRecent
    <3> QED BY <1>3, <3>1, <3>2 DEF ItemRecent
  <2> QED BY <1>2, <2>1 DEF GoodCache
<1>5. ASSUME NEW t \in Tasks PROVE TaskRecent(s, task[t], bound', now)
  <2>1. TaskRecent(s, task[t], bound, now) /\ task[t].since \in Int
    BY <1>2 DEF Lookups
  <2>2. task[t].pc = "served" => AsOf(s, bound', task[t].games, task[t].since)
    BY <1>3, <2>1 DEF TaskRecent, Inside
  <2>3. task[t].pc = "notFound" => bound'[task[t].game] >= now - Uids(s)!Memory - Transit
    <3>1. now >= now - Uids(s)!Memory - Transit
      BY <1>2, TimesAre, MemoryIs
    <3>2. task[t].pc = "notFound" =>
              task[t].game \in s.games /\ bound[task[t].game] >= now - Uids(s)!Memory - Transit
      BY <2>1 DEF TaskRecent
    <3> QED BY <1>1, <1>2, <3>1, <3>2
  <2> QED BY <2>1, <2>2, <2>3 DEF TaskRecent
<1>6. LookupType(s)' /\ LockInv'
  BY <1>1 DEF LookupInv, LookupType, LockInv
<1>7. LookupInv(s)'
  BY <1>1, <1>4, <1>5, <1>6 DEF LookupInv
<1> QED BY <1>1, <1>7, OwnStays

LEMMA TickKeeps ==
    ASSUME NEW s, LookupSetting(s), LookupInv(s), Uids(s)!Tick
    PROVE  LookupInv(s)' /\ (OwnInv => OwnInv')
<1>1. /\ now < s.time /\ now' = now + 1
      /\ \A t \in Tasks : task[t].pc \in {"sent", "served"} => now < task[t].since + Transit
      /\ \A t \in Tasks : task[t].pc \notin {"found", "notFound"}
      /\ bound' = bound /\ cache' = cache /\ lock' = lock /\ task' = task /\ stored' = stored
  BY DEF Uids!Tick
<1>2. /\ GoodCache(s, cache, bound, now) /\ task \in [Tasks -> Lookups(s)] /\ s.time \in Nat
      /\ now \in Nat /\ \A t \in Tasks : TaskRecent(s, task[t], bound, now)
  BY DEF LookupInv, LookupType, LookupSetting
<1>3. GoodCache(s, cache, bound, now + 1)
  <2>1. ASSUME NEW i \in 1 .. Len(cache) PROVE ItemRecent(s, cache[i], bound, now + 1)
    <3>1. ItemRecent(s, cache[i], bound, now) /\ cache[i].expires \in Int
      BY <1>2, ItemIs DEF GoodCache
    <3>2. cache[i].expires <= (now + 1) + ttl
      BY <1>2, <3>1, TimesAre DEF ItemRecent
    <3> QED BY <3>1, <3>2 DEF ItemRecent
  <2> QED BY <1>2, <2>1 DEF GoodCache
<1>4. ASSUME NEW t \in Tasks PROVE TaskRecent(s, task[t], bound, now + 1)
  <2>1. TaskRecent(s, task[t], bound, now) /\ task[t].since \in Nat /\ task[t].pc # "notFound"
    BY <1>1, <1>2 DEF Lookups
  <2>2. task[t].pc \in Inside => task[t].since <= now + 1 /\ now + 1 <= task[t].since + Transit
    BY <1>1, <1>2, <2>1, TimesAre DEF TaskRecent, Inside
  <2> QED BY <2>1, <2>2 DEF TaskRecent
<1>5. LookupType(s)' /\ LockInv'
  BY <1>1, <1>2 DEF LookupInv, LookupType, LockInv
<1>6. LookupInv(s)'
  BY <1>1, <1>3, <1>4, <1>5 DEF LookupInv
<1>7. ASSUME OwnInv PROVE OwnInv'
  <2>1. LastStored' = LastStored /\ (stored # <<>> => LastStored \in Nat)
    BY <1>1, LastIs DEF LastStored
  <2>2. stored # <<>> => LastStored <= now + 1
    BY <1>2, <1>7, <2>1 DEF OwnInv
  <2>3. stored # <<>> /\ LastStored + ttl >= now + 1 => LastStored + ttl >= now
    BY <1>2, <2>1, TimesAre
  <2>4. stored # <<>> /\ LastStored + ttl < now => LastStored + ttl < now + 1
    BY <1>2, <2>1, TimesAre
  <2> QED BY <1>1, <1>7, <2>1, <2>2, <2>3, <2>4 DEF OwnInv
<1> QED BY <1>6, <1>7

LEMMA LookupSteps ==
    ASSUME NEW s, LookupSetting(s), LookupInv(s), Uids(s)!Next \/ UNCHANGED lookup
    PROVE  LookupInv(s)' /\ (Own(s) /\ OwnInv => OwnInv')
<1>1. CASE UNCHANGED lookup
  <2>1. /\ now' = now /\ cache' = cache /\ lock' = lock /\ task' = task
        /\ bound' = bound /\ stored' = stored
    BY <1>1 DEF lookup
  <2>2. LookupInv(s)'
    BY <2>1 DEF LookupInv, LookupType, LockInv
  <2> QED BY <2>1, <2>2, OwnStays
<1>2. ASSUME NEW t \in Tasks,
             Uids(s)!Call(t) \/ Uids(s)!Step(t) \/ Uids(s)!CancelWaiting(t) \/ Uids(s)!Return(t)
      PROVE  LookupInv(s)' /\ (Own(s) /\ OwnInv => OwnInv')
  BY <1>2, CallKeeps, EnterKeeps, ServeLookupKeeps, ArriveKeeps, FailKeeps, ReturnKeeps DEF Uids!Step
<1>3. ASSUME NEW k \in s.others, Uids(s)!Other(k)
      PROVE  LookupInv(s)' /\ (Own(s) /\ OwnInv => OwnInv')
  BY <1>3, OtherKeeps DEF Own
<1>4. ASSUME NEW g \in s.games, Uids(s)!Bind(g)
      PROVE  LookupInv(s)' /\ (Own(s) /\ OwnInv => OwnInv')
  BY <1>4, BindKeeps
<1>5. CASE Uids(s)!Tick
  BY <1>5, TickKeeps
<1> QED BY <1>1, <1>2, <1>3, <1>4, <1>5 DEF Uids!Next

LEMMA LookupHolds ==
    ASSUME NEW s, LookupInv(s)
    PROVE  /\ Uids(s)!CacheKeeps /\ Uids(s)!NotFoundIsRecent
           /\ OwnInv => Uids(s)!FetchedOnce
<1>1. Uids(s)!CacheKeeps
  BY ItemIs DEF LookupInv, GoodCache, Once, Uids!CacheKeeps
<1>2. Uids(s)!NotFoundIsRecent
  BY DEF LookupInv, TaskRecent, Uids!NotFoundIsRecent
<1>3. OwnInv => Uids(s)!FetchedOnce
  BY DEF OwnInv, Uids!FetchedOnce
<1> QED BY <1>1, <1>2, <1>3

(* The suite's invariant, with the setting of each part.  In the parts that  *)
(* are of other classes the lookup rests in its first setting.               *)
LookupPart ==
    /\ part = "shared cache"  => LookupInv(SharedCache)
    /\ part = "default cache" => LookupInv(DefaultCache)
    /\ part = "many cookies"  => LookupInv(ManyCookies) /\ OwnInv
    /\ part \notin {"shared cache", "default cache", "many cookies"} => LookupInv(OwnCache) /\ OwnInv

LEMMA LookupSettings ==
    /\ LookupSetting(OwnCache) /\ Own(OwnCache) /\ LookupSetting(SharedCache)
    /\ LookupSetting(DefaultCache) /\ LookupSetting(ManyCookies) /\ Own(ManyCookies)
<1>1. LookupSetting(OwnCache) /\ Own(OwnCache)
  BY DEF LookupSetting, Own, OwnCache
<1>2. LookupSetting(SharedCache)
  BY DEF LookupSetting, SharedCache
<1>3. LookupSetting(DefaultCache)
  BY DEF LookupSetting, DefaultCache, OwnCache
<1>4. LookupSetting(ManyCookies) /\ Own(ManyCookies)
  BY DEF LookupSetting, Own, ManyCookies, OwnCache
<1> QED BY <1>1, <1>2, <1>3, <1>4

(* The settings but the shared one differ in nothing that Init looks at.     *)
LEMMA LookupInits ==
    ASSUME Uids(OwnCache)!Init
    PROVE  Uids(DefaultCache)!Init /\ Uids(ManyCookies)!Init
<1>1. /\ DefaultCache.games = OwnCache.games /\ DefaultCache.time = OwnCache.time
      /\ ManyCookies.games = OwnCache.games /\ ManyCookies.time = OwnCache.time
  BY DEF DefaultCache, ManyCookies, OwnCache
<1> QED BY <1>1 DEF Uids!Init, Uids!Never, Uids!Idle

(* The lock's queue, the cache and what each task is told, however tasks     *)
(* ask, fail, are cancelled and share the cache: an inductive invariant.     *)
THEOREM LookupInductive == GenshinSpec => []LookupPart
<1>1. GenshinInit => LookupPart
  BY LookupSettings, LookupInits, LookupStarts DEF GenshinInit, LookupPart
<1>2. LookupPart /\ [GenshinNext]_state => LookupPart'
  <2>1. SUFFICES ASSUME LookupPart, [GenshinNext]_state PROVE LookupPart'
    OBVIOUS
  <2>2. part' = part
    BY <2>1 DEF GenshinNext, state
  <2>3. \/ UNCHANGED lookup
        \/ part = "shared cache" /\ Uids(SharedCache)!Next
        \/ part = "default cache" /\ Uids(DefaultCache)!Next
        \/ part = "many cookies" /\ Uids(ManyCookies)!Next
        \/ part = "own cache" /\ Uids(OwnCache)!Next
    <3>1. (\E p \in LookupParts : part = p /\ Uids(LookupOf(p))!Next) \/ UNCHANGED lookup
      BY <2>1 DEF GenshinNext, state
    <3>2. /\ LookupOf("shared cache") = SharedCache /\ LookupOf("default cache") = DefaultCache
          /\ LookupOf("many cookies") = ManyCookies /\ LookupOf("own cache") = OwnCache
      BY DEF LookupOf
    <3> QED BY <3>1, <3>2 DEF LookupParts
  <2>4. CASE part = "shared cache"
    BY <2>1, <2>2, <2>3, <2>4, LookupSettings, LookupSteps DEF LookupPart
  <2>5. CASE part = "default cache"
    BY <2>1, <2>2, <2>3, <2>5, LookupSettings, LookupSteps DEF LookupPart
  <2>6. CASE part = "many cookies"
    BY <2>1, <2>2, <2>3, <2>6, LookupSettings, LookupSteps DEF LookupPart
  <2>7. CASE part \notin {"shared cache", "default cache", "many cookies"}
    BY <2>1, <2>2, <2>3, <2>7, LookupSettings, LookupSteps DEF LookupPart
  <2> QED BY <2>4, <2>5, <2>6, <2>7
<1> QED BY <1>1, <1>2, PTL DEF GenshinSpec

(* The accounts are fetched once and not again before the cache has          *)
(* forgotten them, a game is reported missing only if it was missing that    *)
(* recently, and the cache keeps to maxsize with no key twice.               *)
THEOREM UidsAreCurrent == GenshinSpec => []UidsCurrent
<1>1. LookupPart => UidsCurrent
  BY LookupHolds DEF LookupPart, UidsCurrent
<1> QED BY <1>1, LookupInductive, PTL

-----------------------------------------------------------------------------
(* The pages.                                                               *)

ItemIds == Nat \ {0}

(* What the lemmas ask of a setting: each item is in one list, where the ids *)
(* ascend; several sources know their page size; a list that is read by page *)
(* number does not grow; and one whose page size is guessed is not empty.    *)
PagesSetting(z) ==
    /\ z.kind \in {"cursor", "paged", "token"} /\ z.newest \in BOOLEAN /\ z.failsEarly \in BOOLEAN
    /\ z.known \in {PageSize, -1} /\ z.limit \in Nat /\ z.latest \in Nat /\ z.arrivals \in Nat
    /\ z.kind = "token" => z.known = PageSize
    /\ z.kind = "paged" => z.arrivals = 0
    /\ \A w \in z.starts :
          /\ Len(w) \in Nat \ {0} /\ DOMAIN w = 1 .. Len(w) /\ w \in [1 .. Len(w) -> Seq(ItemIds)]
          /\ Len(w) > 1 => z.known = PageSize
          /\ \A s \in DOMAIN w :
                /\ Ascends(w[s])
                /\ \A k \in DOMAIN w[s] : w[s][k] <= z.latest
                /\ z.known = -1 /\ z.kind = "cursor" => w[s] # <<>>
          /\ \A s, t \in DOMAIN w : \A x : Has(w[s], x) /\ Has(w[t], x) => s = t

BufferedPaginators == [at : Nat \cup {-1}, buffer : Seq(ItemIds), size : Nat \cup {-1}, counter : Nat, exhausted : BOOLEAN]

(* The items that the source p has still to ask for. *)
Ahead(z, s, p) == IF p.at = -1 THEN 0 ELSE Pages(z)!Rest(s, p.at)

(* The cursor, page number or token, and the page size. *)
CursorOf(z, s, p) ==
    /\ z.kind = "paged" => p.at # 0
    /\ z.kind # "paged" => p.at \in {-1, 0} \/ Has(server[s], p.at)
    /\ p.size = -1 => z.known = -1 /\ (z.kind = "cursor" => p.at = 0)
    /\ p.size <= PageSize
    /\ z.kind # "paged" => p.size # 0

(* What the source p has given is a window of its list: from the newest item *)
(* when it was first asked (hi) back to lo + 1.  The buffer has the next.    *)
Window(z, s, p, lo, hi) ==
    /\ p \in BufferedPaginators /\ CursorOf(z, s, p)
    /\ lo \in Nat /\ hi \in Nat /\ lo <= hi /\ hi <= Len(server[s]) /\ Len(start[s]) <= hi
    /\ p.at = 0 => p.buffer = <<>> /\ lo = Len(server[s])
    /\ ~p.exhausted => lo = Ahead(z, s, p) + Len(p.buffer)
    /\ \A i \in 1 .. Len(p.buffer) : i <= lo /\ p.buffer[i] = server[s][lo + 1 - i]
    /\ p.exhausted => p.buffer = <<>>
    /\ p.exhausted /\ z.limit = 0 => lo = 0 /\ (z.kind # "paged" => p.at = -1)

(* The counter: what a source gives is counted, and so is what fails. *)
Counts(z, p, lo, hi, f) ==
    z.limit > 0 =>
       /\ hi - lo <= p.counter /\ hi - lo <= z.limit
       /\ f = 0 => IF p.exhausted THEN p.at # 0 /\ (lo = 0 \/ hi - lo = z.limit) ELSE p.counter = hi - lo

(* What a source gave and the caller has not got yet: its item in the heap, *)
(* or the first one, before there is a heap.                                *)
Holds(s, x) == IF prepared THEN <<x, s>> \in heap ELSE first[s] = x /\ x # -2 /\ x # -3 /\ x # -4

(* Nothing is lost: no first request failed. *)
Lossless(z) == failed = 0 \/ ~z.failsEarly \/ Len(start) <= 1

(* What the caller got of a list is in the window, what is held is its last  *)
(* item, and when nothing is lost that is the whole window.                  *)
Given(z, s, lo, hi) ==
    /\ \A k \in DOMAIN server[s] : Has(out, server[s][k]) => lo < k /\ k <= hi
    /\ \A x : Holds(s, x) => lo < hi /\ x = server[s][lo + 1] /\ ~Has(out, x)
    /\ Lossless(z) => \A k \in DOMAIN server[s] : lo < k /\ k <= hi => Has(out, server[s][k]) \/ Holds(s, server[s][k])

SourceInv(z, s) ==
    \E lo, hi \in 0 .. Len(server[s]) :
       Window(z, s, source[s], lo, hi) /\ Counts(z, source[s], lo, hi, failed) /\ Given(z, s, lo, hi)

(* The lists at the server. *)
ServerInv(z) ==
    /\ start \in z.starts /\ arrived \in Nat /\ failed \in Nat
    /\ server \in [DOMAIN start -> Seq(ItemIds)]
    /\ \A s \in DOMAIN start :
          /\ Ascends(server[s])
          /\ \A k \in DOMAIN server[s] : server[s][k] <= z.latest + arrived
          /\ start[s] \in Seq(ItemIds)
          /\ \A k \in DOMAIN start[s] : k \in DOMAIN server[s] /\ server[s][k] = start[s][k]
    /\ \A s, t \in DOMAIN start : \A x : Has(server[s], x) /\ Has(server[t], x) => s = t
    /\ arrived = 0 => server = start

(* What the caller got. *)
OutInv(z) ==
    /\ out \in Seq(ItemIds)
    /\ \A i \in DOMAIN out : \E s \in DOMAIN start : Has(server[s], out[i])
    /\ Pages(z)!SourcesInOrder
    /\ z.newest => Pages(z)!NewestFirst /\ \A a \in heap : \A i \in DOMAIN out : a[1] < out[i]

Firsts == ItemIds \cup {-2, -3, -4}

(* How far the merge is. *)
MergeInv(z) ==
    /\ pc \in {"ready", "preparing", "raised", "complete"} /\ prepared \in BOOLEAN
    /\ heap \in SUBSET (ItemIds \X DOMAIN start) /\ first \in [DOMAIN start -> Firsts]
    /\ source \in [DOMAIN start -> BufferedPaginators]
    /\ Len(start) > 1 => z.known = PageSize
    /\ ~prepared => heap = {}
    /\ Len(start) <= 1 => ~prepared /\ pc # "preparing" /\ \A s \in DOMAIN start : first[s] = -2
    /\ Len(start) > 1 /\ ~prepared => out = <<>> /\ pc # "complete"
    /\ pc = "preparing" => ~prepared
    /\ \A s \in DOMAIN start :
          /\ first[s] = -3 /\ ~prepared => source[s].exhausted
          /\ prepared => source[s].exhausted \/ \E x \in ItemIds : <<x, s>> \in heap
          /\ first[s] = -4 => z.failsEarly /\ failed > 0
          /\ ~prepared /\ pc # "preparing" /\ Lossless(z) => first[s] = -2
          /\ pc = "complete" => source[s].exhausted
    /\ pc = "complete" => heap = {}

PagesInv(z) == ServerInv(z) /\ (\A s \in DOMAIN start : SourceInv(z, s)) /\ OutInv(z) /\ MergeInv(z)

LEMMA ListIs ==
    ASSUME NEW l \in Seq(ItemIds), Ascends(l)
    PROVE  /\ Len(l) \in Nat /\ DOMAIN l = 1 .. Len(l)
           /\ \A i \in 1 .. Len(l) : l[i] \in Nat /\ l[i] # 0
           /\ \A i, j \in 1 .. Len(l) : l[i] < l[j] => i < j
           /\ \A i, j \in 1 .. Len(l) : i < j => l[i] < l[j]
<1>1. Len(l) \in Nat /\ DOMAIN l = 1 .. Len(l) /\ \A i \in 1 .. Len(l) : l[i] \in Nat /\ l[i] # 0
  BY DEF ItemIds
<1>2. \A i, j \in 1 .. Len(l) : i < j => l[i] < l[j]
  BY <1>1 DEF Ascends
<1>3. ASSUME NEW i \in 1 .. Len(l), NEW j \in 1 .. Len(l), l[i] < l[j] PROVE i < j
  <2>1. CASE i = j
    BY <1>1, <1>3, <2>1
  <2>2. CASE j < i
    BY <1>1, <1>2, <1>3, <2>2
  <2> QED BY <1>1, <2>1, <2>2
<1> QED BY <1>1, <1>2, <1>3

(* What is ahead of a cursor. *)
Older(l, at) == CHOOSE r \in 0 .. Len(l) : \A k \in DOMAIN l : l[k] < at <=> k <= r

LEMMA OlderIs ==
    ASSUME NEW l \in Seq(ItemIds), Ascends(l), NEW k \in 1 .. Len(l)
    PROVE  Older(l, l[k]) = k - 1
<1> DEFINE P(r) == \A j \in DOMAIN l : l[j] < l[k] <=> j <= r
<1>1. /\ Len(l) \in Nat /\ DOMAIN l = 1 .. Len(l)
      /\ \A i \in 1 .. Len(l) : l[i] \in Nat /\ l[i] # 0
      /\ \A i, j \in 1 .. Len(l) : l[i] < l[j] => i < j
      /\ \A i, j \in 1 .. Len(l) : i < j => l[i] < l[j]
  BY ListIs
<1>2. Older(l, l[k]) = CHOOSE r \in 0 .. Len(l) : P(r)
  BY DEF Older
<1>3. k - 1 \in 0 .. Len(l) /\ P(k - 1)
  <2>1. k \in Nat /\ 1 <= k /\ k <= Len(l)
    BY <1>1
  <2>2. \A j \in 1 .. Len(l) : l[j] < l[k] <=> j < k
    BY <1>1, <2>1
  <2>3. \A j \in 1 .. Len(l) : j < k <=> j <= k - 1
    BY <1>1, <2>1
  <2> QED BY <1>1, <2>1, <2>2, <2>3
<1>4. ASSUME NEW r \in 0 .. Len(l), P(r) PROVE r = k - 1
  <2>1. k \in Nat /\ 1 <= k /\ k <= Len(l)
    BY <1>1
  <2>2. \A j \in 1 .. Len(l) : j <= r <=> j <= k - 1
    BY <1>1, <1>3, <1>4
  <2>3. CASE r >= k
    BY <1>1, <2>1, <2>2, <2>3
  <2>4. CASE r < k - 1
    <3>1. r + 1 \in 1 .. Len(l) /\ ~(r + 1 <= r) /\ r + 1 <= k - 1
      BY <1>1, <2>1, <2>4
    <3> QED BY <2>2, <3>1
  <2> QED BY <1>1, <2>1, <2>3, <2>4
<1> HIDE DEF P
<1> QED BY <1>2, <1>3, <1>4

LEMMA RestOfCursor ==
    ASSUME NEW z, z.kind # "paged", NEW s, NEW at, at # 0
    PROVE  Pages(z)!Rest(s, at) = Older(server[s], at) /\ Pages(z)!Rest(s, at)' = Older(server[s], at)'
<1>1. Pages(z)!Rest(s, at) = Older(server[s], at)
  BY Zenon DEF Pages!Rest, Older
<1>2. Pages(z)!Rest(s, at)' = Older(server[s], at)'
  BY Zenon DEF Pages!Rest, Older
<1> QED BY <1>1, <1>2

LEMMA AheadOfCursor ==
    ASSUME NEW z, z.kind # "paged", NEW s, server[s] \in Seq(ItemIds), Ascends(server[s]),
           NEW k \in 1 .. Len(server[s])
    PROVE  Pages(z)!Rest(s, server[s][k]) = k - 1
<1> DEFINE at == server[s][k]
<1>1. Older(server[s], at) = k - 1
  BY OlderIs
<1>2. at # 0
  BY ListIs
<1>3. Pages(z)!Rest(s, at) = Older(server[s], at)
  BY Zenon, <1>2 DEF Pages!Rest, Older
<1> QED BY <1>1, <1>3

LEMMA AheadIs ==
    ASSUME NEW z, PagesSetting(z), NEW s, server[s] \in Seq(ItemIds), Ascends(server[s]),
           NEW p \in BufferedPaginators, CursorOf(z, s, p)
    PROVE  /\ Ahead(z, s, p) \in Nat /\ Ahead(z, s, p) <= Len(server[s])
           /\ p.at = 0 => Ahead(z, s, p) = Len(server[s])
<1> DEFINE l == server[s]
<1>1. Len(l) \in Nat /\ DOMAIN l = 1 .. Len(l) /\ \A i \in 1 .. Len(l) : l[i] \in Nat /\ l[i] # 0
  BY ListIs
<1>2. p.at \in Nat \cup {-1}
  BY DEF BufferedPaginators
<1>3. CASE p.at = -1
  BY <1>1, <1>3 DEF Ahead
<1>4. CASE p.at # -1 /\ z.kind = "paged"
  <2>1. p.at # 0
    BY <1>4 DEF CursorOf
  <2> DEFINE b == Len(l) - (p.at - 1) * PageSize
  <2>2. Ahead(z, s, p) = IF b > 0 THEN b ELSE 0
    BY <1>4 DEF Ahead, Pages!Rest
  <2>3. (p.at - 1) * PageSize \in Nat
    BY <1>2, <1>4, <2>1, PagesAssumption
  <2>4. b \in Int /\ b <= Len(l)
    BY <1>1, <2>3
  <2> HIDE DEF b, l
  <2> QED BY <1>1, <2>1, <2>2, <2>4 DEF l
<1>5. CASE p.at # -1 /\ z.kind # "paged"
  <2>1. CASE p.at = 0
    BY <1>1, <1>5, <2>1 DEF Ahead, Pages!Rest
  <2>2. CASE p.at # 0
    <3>1. PICK k \in 1 .. Len(l) : l[k] = p.at
      BY <1>1, <1>5, <2>2 DEF CursorOf, Has
    <3>2. Ahead(z, s, p) = k - 1
      BY <1>5, <3>1, AheadOfCursor DEF Ahead
    <3> QED BY <1>1, <2>2, <3>2
  <2> QED BY <2>1, <2>2
<1> QED BY <1>3, <1>4, <1>5

(* A page is the items ahead of the cursor, the newest first. *)
LEMMA PageIs ==
    ASSUME NEW z, PagesSetting(z), NEW s, server[s] \in Seq(ItemIds), Ascends(server[s]),
           NEW p \in BufferedPaginators, CursorOf(z, s, p), p.at # -1,
           NEW r, r = Ahead(z, s, p), NEW d, d = Pages(z)!Page(s, p.at)
    PROVE  /\ d \in Seq(ItemIds) /\ Len(d) \in Nat /\ Len(d) <= r /\ Len(d) <= PageSize
           /\ r \in Nat /\ r <= Len(server[s])
           /\ Len(d) < PageSize => Len(d) = r
           /\ \A i \in 1 .. Len(d) : d[i] = server[s][r + 1 - i]
<1> DEFINE l == server[s]
           n == IF r < PageSize THEN r ELSE PageSize
<1>1. Len(l) \in Nat /\ DOMAIN l = 1 .. Len(l) /\ \A i \in 1 .. Len(l) : l[i] \in ItemIds
  BY ListIs
<1>2. r \in Nat /\ r <= Len(l)
  BY AheadIs
<1>3. r = Pages(z)!Rest(s, p.at)
  BY DEF Ahead
<1>4. d = [i \in 1 .. n |-> l[r + 1 - i]]
  BY <1>3 DEF Pages!Page
<1>5. n \in Nat /\ n <= r /\ n <= PageSize /\ (n < PageSize => n = r)
  BY <1>2, PagesAssumption
<1> HIDE DEF n, l
<1>6. ASSUME NEW i \in 1 .. n PROVE l[r + 1 - i] \in ItemIds
  <2>1. r + 1 - i \in 1 .. Len(l)
    BY <1>1, <1>2, <1>5
  <2> QED BY <1>1, <2>1
<1>7. d \in Seq(ItemIds) /\ Len(d) = n
  BY <1>4, <1>5, <1>6
<1> QED BY <1>2, <1>4, <1>5, <1>7 DEF l

Asked(p, at, size) == [p EXCEPT !.at = at, !.size = size]

(* What follows a page is what was ahead without the page. *)
LEMMA BehindPage ==
    ASSUME NEW z, PagesSetting(z), NEW s, server[s] \in Seq(ItemIds), Ascends(server[s]),
           NEW p \in BufferedPaginators, CursorOf(z, s, p), p.at # -1,
           z.kind = "cursor" /\ p.size = -1 => Len(server[s]) > 0,
           NEW d, d = Pages(z)!Page(s, p.at),
           NEW size, size = IF p.size = -1 THEN Len(d) ELSE p.size,
           NEW q, q = Asked(p, Pages(z)!Following(p, size, d), size)
    PROVE  /\ q \in BufferedPaginators /\ CursorOf(z, s, q) /\ q.at # 0
           /\ Ahead(z, s, q) = Ahead(z, s, p) - Len(d)
           /\ z.kind # "paged" => size # 0
           /\ d = <<>> => Ahead(z, s, p) = 0 /\ (z.kind # "paged" => q.at = -1)
<1> DEFINE l == server[s]
           r == Ahead(z, s, p)
           at == Pages(z)!Following(p, size, d)
<1>1. /\ Len(l) \in Nat /\ DOMAIN l = 1 .. Len(l) /\ \A i \in 1 .. Len(l) : l[i] \in Nat /\ l[i] # 0
  BY ListIs
<1>2. /\ d \in Seq(ItemIds) /\ Len(d) \in Nat /\ Len(d) <= r /\ Len(d) <= PageSize
      /\ r \in Nat /\ r <= Len(l)
      /\ Len(d) < PageSize => Len(d) = r
      /\ \A i \in 1 .. Len(d) : d[i] = l[r + 1 - i]
  BY PageIs
<1>3. /\ p.at \in Nat /\ p.size \in Nat \cup {-1} /\ PageSize \in Nat /\ PageSize > 0
      /\ (p.at = 0 => r = Len(l)) /\ p.size <= PageSize
  BY PagesAssumption, AheadIs DEF BufferedPaginators, CursorOf
<1>4. q = [at |-> at, buffer |-> p.buffer, size |-> size, counter |-> p.counter, exhausted |-> p.exhausted]
  BY DEF BufferedPaginators, Asked
<1>5. at = IF Len(d) < size THEN -1 ELSE IF z.kind = "paged" THEN p.at + 1 ELSE IF d = <<>> THEN p.at ELSE d[Len(d)]
  BY DEF Pages!Following, Pages!None
<1>6. size \in Nat /\ size <= PageSize
  BY <1>2, <1>3
<1>7. z.kind # "paged" => size # 0
  <2>1. CASE p.size = -1 /\ z.kind # "paged"
    <3>1. z.kind = "cursor" /\ p.at = 0
      BY <2>1, PagesAssumption DEF CursorOf, PagesSetting
    <3>2. r > 0
      BY <1>1, <1>3, <2>1, <3>1
    <3> HIDE DEF r, l
    <3>3. Len(d) # 0
      BY <1>2, <1>3, <3>2
    <3> QED BY <2>1, <3>3
  <2>2. CASE p.size # -1
    BY <2>2 DEF CursorOf
  <2> QED BY <2>1, <2>2
<1>8. d = <<>> => Len(d) = 0
  OBVIOUS
<1>9. Len(d) = 0 => d = <<>>
  BY <1>2
<1>10. d = <<>> => r = 0
  BY <1>2, <1>3, <1>8
<1>11. /\ at \in Nat \cup {-1} /\ at # 0
       /\ z.kind # "paged" => at = -1 \/ \E k \in 1 .. Len(l) : l[k] = at
       /\ (IF at = -1 THEN 0 ELSE Pages(z)!Rest(s, at)) = r - Len(d)
  <2>1. CASE Len(d) < size
    <3>1. at = -1 /\ Len(d) < PageSize
      BY <1>2, <1>3, <1>5, <1>6, <2>1
    <3> HIDE DEF at, r
    <3>2. r - Len(d) = 0
      BY <1>2, <3>1
    <3> QED BY <3>1, <3>2
  <2>2. CASE ~(Len(d) < size) /\ z.kind = "paged"
    <3>1. at = p.at + 1 /\ p.at # 0
      BY <1>5, <2>2 DEF CursorOf
    <3> DEFINE m == (p.at - 1) * PageSize
               b == Len(l) - m
               c == Len(l) - p.at * PageSize
    <3>2. r = IF b > 0 THEN b ELSE 0
      BY <2>2 DEF Ahead, Pages!Rest
    <3>3. Pages(z)!Rest(s, at) = IF Len(l) - (at - 1) * PageSize > 0 THEN Len(l) - (at - 1) * PageSize ELSE 0
      BY <2>2 DEF Pages!Rest
    <3>4. at - 1 = p.at
      BY <1>3, <3>1
    <3>5. Pages(z)!Rest(s, at) = IF c > 0 THEN c ELSE 0
      BY <3>3, <3>4
    <3>6. m \in Nat /\ p.at * PageSize = m + PageSize
      BY <1>3, <3>1
    <3>7. b \in Int /\ c = b - PageSize
      BY <1>1, <1>3, <3>6
    <3> HIDE DEF at, r, b, c, m
    <3>8. (IF c > 0 THEN c ELSE 0) = r - Len(d)
      <4>1. /\ Len(d) \in Nat /\ Len(d) <= r /\ Len(d) <= PageSize /\ (Len(d) < PageSize => Len(d) = r)
            /\ PageSize \in Nat /\ b \in Int /\ c = b - PageSize
        BY <1>2, <1>3, <3>7
      <4>2. CASE b > 0
        <5>1. r = b
          BY <3>2, <4>2
        <5> QED BY ONLY <4>1, <5>1, <4>2
      <4>3. CASE ~(b > 0)
        <5>1. r = 0
          BY <3>2, <4>3
        <5> QED BY ONLY <4>1, <5>1, <4>3
      <4> QED BY <4>2, <4>3
    <3>9. at \in Nat /\ at # 0 /\ at # -1
      BY <1>3, <3>1
    <3> QED BY <2>2, <3>5, <3>8, <3>9
  <2>3. CASE ~(Len(d) < size) /\ z.kind # "paged"
    <3>1. Len(d) > 0 /\ d # <<>>
      BY <1>2, <1>6, <1>7, <1>8, <2>3
    <3> DEFINE k == r + 1 - Len(d)
    <3>2. at = d[Len(d)] /\ d[Len(d)] = l[k]
      BY <1>2, <1>5, <2>3, <3>1
    <3> HIDE DEF r
    <3>3. k \in 1 .. Len(l) /\ k - 1 = r - Len(d)
      <4>1. Len(l) \in Nat /\ Len(d) \in Nat /\ r \in Nat /\ Len(d) <= r /\ r <= Len(l) /\ Len(d) > 0
        BY <1>1, <1>2, <3>1
      <4> QED BY ONLY <4>1
    <3> HIDE DEF k, at
    <3>4. Pages(z)!Rest(s, at) = k - 1
      BY <2>3, <3>2, <3>3, AheadOfCursor
    <3>5. at \in Nat /\ at # 0 /\ at # -1
      BY <1>1, <3>2, <3>3
    <3> QED BY <3>2, <3>3, <3>4, <3>5
  <2> QED BY <2>1, <2>2, <2>3
<1>12. d = <<>> /\ z.kind # "paged" => at = -1
  <2>1. d = <<>> /\ z.kind # "paged" => Len(d) < size
    BY <1>2, <1>6, <1>7, <1>8
  <2> QED BY <1>5, <2>1
<1> HIDE DEF at
<1>13. q \in BufferedPaginators /\ q.at = at /\ q.size = size
  <2>1. p.buffer \in Seq(ItemIds) /\ p.counter \in Nat /\ p.exhausted \in BOOLEAN
    BY DEF BufferedPaginators
  <2> QED BY ONLY <1>4, <1>6, <1>11, <2>1 DEF BufferedPaginators
<1>14. CursorOf(z, s, q)
  <2>1. size # -1 /\ (z.kind # "paged" => at \in {-1, 0} \/ Has(server[s], at))
    BY <1>1, <1>6, <1>11 DEF Has
  <2> QED BY <1>6, <1>7, <1>11, <1>13, <2>1 DEF CursorOf
<1>15. Ahead(z, s, q) = r - Len(d)
  BY <1>11, <1>13 DEF Ahead
<1> QED BY <1>7, <1>10, <1>11, <1>12, <1>13, <1>14, <1>15

(* What __anext__ of the source s comes to: Stop, an exception, which takes a *)
(* mayFail, or the next item of the list.                                   *)
Coming(z, s, o, lo, hi, f, mayFail) ==
    \/ /\ o.result = -3 /\ o.source.exhausted
       /\ Window(z, s, o.source, lo, hi) /\ Counts(z, o.source, lo, hi, f)
    \/ /\ o.result = -4 /\ mayFail
       /\ Window(z, s, o.source, lo, hi) /\ Counts(z, o.source, lo, hi, f + 1)
    \/ /\ lo > 0 /\ o.result = server[s][lo]
       /\ Window(z, s, o.source, lo - 1, hi) /\ Counts(z, o.source, lo - 1, hi, f)

(* A source that has ended, has been counted, or has another buffer. *)
Ended(p)           == [p EXCEPT !.exhausted = TRUE, !.buffer = <<>>]
Buffered(p, b)     == [p EXCEPT !.buffer = b]

LEMMA EndedIs ==
    ASSUME NEW p \in BufferedPaginators, NEW q, q = Ended(p)
    PROVE  /\ q \in BufferedPaginators /\ q.at = p.at /\ q.size = p.size /\ q.counter = p.counter
           /\ q.buffer = <<>> /\ q.exhausted
<1>1. q = [at |-> p.at, buffer |-> <<>>, size |-> p.size, counter |-> p.counter, exhausted |-> TRUE]
  BY DEF BufferedPaginators, Ended
<1>2. /\ p.at \in Nat \cup {-1} /\ p.buffer \in Seq(ItemIds) /\ p.size \in Nat \cup {-1}
      /\ p.counter \in Nat /\ p.exhausted \in BOOLEAN
  BY DEF BufferedPaginators
<1>3. <<>> \in Seq(ItemIds)
  OBVIOUS
<1> QED BY ONLY <1>1, <1>2, <1>3 DEF BufferedPaginators

LEMMA CountedIs ==
    ASSUME NEW z, z.limit \in Nat, NEW p \in BufferedPaginators, NEW q, q = Pages(z)!Counted(p)
    PROVE  /\ q \in BufferedPaginators /\ q.at = p.at /\ q.size = p.size
           /\ q.buffer = p.buffer /\ q.exhausted = p.exhausted
           /\ q.counter = IF z.limit > 0 THEN p.counter + 1 ELSE p.counter
<1> DEFINE c == IF z.limit > 0 THEN p.counter + 1 ELSE p.counter
<1>1. q = [at |-> p.at, buffer |-> p.buffer, size |-> p.size, counter |-> c, exhausted |-> p.exhausted]
  BY DEF BufferedPaginators, Pages!Counted
<1>2. /\ p.at \in Nat \cup {-1} /\ p.buffer \in Seq(ItemIds) /\ p.size \in Nat \cup {-1}
      /\ p.counter \in Nat /\ p.exhausted \in BOOLEAN
  BY DEF BufferedPaginators
<1>3. c \in Nat
  BY <1>2
<1> HIDE DEF c
<1>4. /\ q \in BufferedPaginators /\ q.at = p.at /\ q.size = p.size
      /\ q.buffer = p.buffer /\ q.exhausted = p.exhausted /\ q.counter = c
  BY ONLY <1>1, <1>2, <1>3 DEF BufferedPaginators
<1> QED BY <1>4 DEF c

LEMMA BufferedIs ==
    ASSUME NEW p \in BufferedPaginators, NEW b, b \in Seq(ItemIds), NEW q, q = Buffered(p, b)
    PROVE  /\ q \in BufferedPaginators /\ q.at = p.at /\ q.size = p.size /\ q.counter = p.counter
           /\ q.buffer = b /\ q.exhausted = p.exhausted
<1>1. q = [at |-> p.at, buffer |-> b, size |-> p.size, counter |-> p.counter, exhausted |-> p.exhausted]
  BY DEF BufferedPaginators, Buffered
<1>2. /\ p.at \in Nat \cup {-1} /\ p.buffer \in Seq(ItemIds) /\ p.size \in Nat \cup {-1}
      /\ p.counter \in Nat /\ p.exhausted \in BOOLEAN
  BY DEF BufferedPaginators
<1> QED BY ONLY <1>1, <1>2, b \in Seq(ItemIds) DEF BufferedPaginators

(* The window does not depend on the counter. *)
LEMMA EndedWindow ==
    ASSUME NEW z, NEW s, NEW p, NEW q \in BufferedPaginators, NEW lo, NEW hi, Window(z, s, p, lo, hi),
           q.at = p.at, q.size = p.size, q.buffer = <<>>, q.exhausted,
           z.limit = 0 => lo = 0 /\ (z.kind # "paged" => p.at = -1)
    PROVE  Window(z, s, q, lo, hi)
<1>1. CursorOf(z, s, q)
  BY DEF Window, CursorOf
<1>2. \A i \in 1 .. Len(q.buffer) : FALSE
  OBVIOUS
<1> QED BY <1>1, <1>2 DEF Window

LEMMA CountedWindow ==
    ASSUME NEW z, NEW s, NEW p, NEW q \in BufferedPaginators, NEW lo, NEW hi, Window(z, s, p, lo, hi),
           q.at = p.at, q.size = p.size, q.buffer = p.buffer, q.exhausted = p.exhausted
    PROVE  Window(z, s, q, lo, hi)
<1>1. CursorOf(z, s, q) /\ Ahead(z, s, q) = Ahead(z, s, p)
  BY DEF Window, CursorOf, Ahead
<1> QED BY <1>1 DEF Window

(* q is a source whose buffer is the page or the buffer b without its first.  *)
TakenFrom(z, s, q, b, lo, hi) ==
    /\ q \in BufferedPaginators /\ Len(b) \in Nat /\ Len(b) > 0 /\ Len(q.buffer) = Len(b) - 1
    /\ \A i \in 1 .. Len(b) - 1 : q.buffer[i] = b[i + 1]
    /\ lo \in Nat /\ hi \in Nat /\ lo <= hi /\ hi <= Len(server[s]) /\ Len(start[s]) <= hi
    /\ Len(server[s]) \in Nat /\ CursorOf(z, s, q) /\ q.at # 0 /\ ~q.exhausted
    /\ Ahead(z, s, q) \in Nat /\ lo = Ahead(z, s, q) + Len(b)
    /\ \A i \in 1 .. Len(b) : b[i] = server[s][lo + 1 - i]

LEMMA NextWindow ==
    ASSUME NEW z, NEW s, NEW q, NEW b, NEW lo, NEW hi, TakenFrom(z, s, q, b, lo, hi)
    PROVE  lo > 0 /\ b[1] = server[s][lo] /\ Window(z, s, q, lo - 1, hi)
<1> DEFINE n == Len(b)
<1>1. n \in Nat /\ n > 0 /\ lo \in Nat /\ lo >= n /\ hi \in Nat /\ lo <= hi /\ lo = Ahead(z, s, q) + n
      /\ Ahead(z, s, q) \in Nat
  BY DEF TakenFrom
<1> HIDE DEF n
<1>2. lo > 0 /\ lo + 1 - 1 = lo /\ 1 \in 1 .. n
  BY ONLY <1>1
<1>3. b[1] = server[s][lo]
  BY <1>2 DEF n, TakenFrom
<1>4. ASSUME NEW i \in 1 .. n - 1 PROVE i <= lo - 1 /\ q.buffer[i] = server[s][(lo - 1) + 1 - i]
  <2>1. i + 1 \in 1 .. n /\ lo + 1 - (i + 1) = (lo - 1) + 1 - i /\ i <= lo - 1
    BY ONLY <1>1, i \in 1 .. n - 1
  <2>2. q.buffer[i] = b[i + 1] /\ b[i + 1] = server[s][lo + 1 - (i + 1)]
    BY <1>4, <2>1 DEF n, TakenFrom
  <2> QED BY <2>1, <2>2
<1>5. lo - 1 \in Nat /\ lo - 1 <= hi /\ lo - 1 = Ahead(z, s, q) + (n - 1)
  BY ONLY <1>1
<1>6. Len(q.buffer) = n - 1
  BY DEF n, TakenFrom
<1>7. Window(z, s, q, lo - 1, hi)
  BY <1>4, <1>5, <1>6 DEF Window, TakenFrom
<1> QED BY <1>2, <1>3, <1>7

LEMMA TailIs ==
    ASSUME NEW b, b \in Seq(ItemIds), b # <<>>, NEW t, t = Tail(b)
    PROVE  /\ t \in Seq(ItemIds) /\ Len(b) \in Nat /\ Len(b) > 0 /\ Len(t) = Len(b) - 1
           /\ Head(b) = b[1] /\ \A i \in 1 .. Len(b) - 1 : t[i] = b[i + 1]
OBVIOUS

LEMMA AnextIs ==
    ASSUME NEW z, PagesSetting(z), NEW s, server[s] \in Seq(ItemIds), Ascends(server[s]),
           Len(start[s]) \in Nat, z.known = -1 /\ z.kind = "cursor" => Len(start[s]) > 0,
           NEW lo, NEW hi, NEW f \in Nat, Window(z, s, source[s], lo, hi), Counts(z, source[s], lo, hi, f),
           NEW mayFail \in BOOLEAN, NEW o \in Pages(z)!Anext(s, mayFail)
    PROVE  Coming(z, s, o, lo, hi, f, mayFail)
<1> DEFINE p == source[s]
           c == Pages(z)!Counted(p)
<1>1. /\ p \in BufferedPaginators /\ CursorOf(z, s, p) /\ lo \in Nat /\ hi \in Nat
      /\ lo <= hi /\ hi <= Len(server[s]) /\ Len(start[s]) <= hi /\ Len(server[s]) \in Nat
      /\ p.at = 0 => p.buffer = <<>> /\ lo = Len(server[s])
      /\ ~p.exhausted => lo = Ahead(z, s, p) + Len(p.buffer)
      /\ \A i \in 1 .. Len(p.buffer) : p.buffer[i] = server[s][lo + 1 - i]
      /\ p.exhausted /\ z.limit = 0 => lo = 0 /\ (z.kind # "paged" => p.at = -1)
  BY DEF Window
<1>2. /\ p.counter \in Nat /\ p.buffer \in Seq(ItemIds) /\ p.exhausted \in BOOLEAN /\ z.limit \in Nat
      /\ p.at \in Nat \cup {-1}
  BY <1>1 DEF BufferedPaginators, PagesSetting
<1>3. Ahead(z, s, p) \in Nat
  BY <1>1, AheadIs
<1>4. /\ c \in BufferedPaginators /\ c.at = p.at /\ c.size = p.size
      /\ c.buffer = p.buffer /\ c.exhausted = p.exhausted
      /\ c.counter = IF z.limit > 0 THEN p.counter + 1 ELSE p.counter
  BY <1>1, <1>2, CountedIs
<1>5. CursorOf(z, s, c) /\ Ahead(z, s, c) = Ahead(z, s, p) /\ Window(z, s, c, lo, hi)
  BY <1>1, <1>4, CountedWindow DEF CursorOf, Ahead
<1>6. p.exhausted \/ (z.limit > 0 /\ p.counter >= z.limit) <=> p.exhausted \/ Pages(z)!LimitReached(p)
  BY DEF Pages!LimitReached
<1>7. /\ p.exhausted \/ Pages(z)!LimitReached(p) => o = Pages(z)!Complete(p)
      /\ ~(p.exhausted \/ Pages(z)!LimitReached(p)) =>
            /\ p.buffer # <<>> => o = Pages(z)!Outcome(Buffered(c, Tail(p.buffer)), Head(p.buffer))
            /\ p.buffer = <<>> /\ p.at = -1 => o = Pages(z)!Complete(c)
            /\ p.buffer = <<>> /\ p.at # -1 =>
                  o = Pages(z)!Answered(s, c) \/ (mayFail /\ o = Pages(z)!Outcome(c, -4))
  BY Zenon DEF Pages!Anext, Pages!None, Pages!Raise, Buffered
<1>8. /\ \A q, x : Pages(z)!Outcome(q, x).source = q /\ Pages(z)!Outcome(q, x).result = x
      /\ \A q : Pages(z)!Complete(q) = Pages(z)!Outcome(Ended(q), -3)
  BY DEF Pages!Outcome, Pages!Complete, Pages!Stop, Ended
<1>9. /\ z.limit > 0 => hi - lo <= p.counter /\ hi - lo <= z.limit
      /\ z.limit > 0 /\ f = 0 => IF p.exhausted THEN p.at # 0 /\ (lo = 0 \/ hi - lo = z.limit) ELSE p.counter = hi - lo
  BY DEF Counts
<1>10. CASE p.exhausted \/ Pages(z)!LimitReached(p)
  <2> DEFINE q == Ended(p)
  <2>0. q = Ended(p) /\ Pages(z)!Complete(p) = Pages(z)!Outcome(q, -3)
    BY <1>8
  <2> HIDE DEF q, c
  <2>1. o.source = q /\ o.result = -3
    BY <1>7, <1>8, <1>10, <2>0
  <2>2. /\ q \in BufferedPaginators /\ q.at = p.at /\ q.size = p.size /\ q.counter = p.counter
        /\ q.buffer = <<>> /\ q.exhausted
    BY <1>1, <1>2, <2>0, EndedIs
  <2>3. z.limit = 0 => lo = 0 /\ (z.kind # "paged" => p.at = -1)
    BY <1>1, <1>6, <1>10
  <2>4. Window(z, s, q, lo, hi)
    BY <2>2, <2>3, EndedWindow
  <2>5. ASSUME z.limit > 0, f = 0 PROVE p.at # 0 /\ (lo = 0 \/ hi - lo = z.limit)
    <3>1. CASE p.exhausted
      BY <1>9, <2>5, <3>1
    <3>2. CASE ~p.exhausted
      <4>1. p.counter >= z.limit /\ p.counter = hi - lo /\ hi - lo <= z.limit
        BY <1>6, <1>9, <1>10, <2>5, <3>2
      <4> HIDE DEF p
      <4>2. lo \in Nat /\ hi \in Nat /\ z.limit \in Nat /\ z.limit > 0 /\ hi - lo >= z.limit /\ hi - lo <= z.limit
        BY <1>1, <1>2, <2>5, <4>1
      <4>3. hi - lo = z.limit /\ lo < hi
        BY ONLY <4>2
      <4>4. p.at # 0
        BY <1>1, <4>3
      <4> QED BY <4>3, <4>4
    <3> QED BY <3>1, <3>2
  <2>6. Counts(z, q, lo, hi, f)
    BY <1>9, <2>2, <2>5 DEF Counts
  <2> QED BY <2>1, <2>2, <2>4, <2>6 DEF Coming
<1>11. CASE ~(p.exhausted \/ Pages(z)!LimitReached(p))
  <2>1. z.limit > 0 => p.counter < z.limit /\ hi - lo <= p.counter /\ (f = 0 => p.counter = hi - lo)
    BY <1>2, <1>6, <1>9, <1>11
  <2>2. lo = Ahead(z, s, p) + Len(p.buffer) /\ ~c.exhausted
    BY <1>1, <1>4, <1>11
  <2>3. ASSUME NEW q, q.counter = c.counter, ~q.exhausted PROVE Counts(z, q, lo - 1, hi, f)
    BY <1>1, <1>2, <1>4, <2>1, <2>3 DEF Counts
  <2>4. ASSUME NEW q, q.counter = c.counter, q.exhausted, q.at # 0, lo = 0 PROVE Counts(z, q, lo, hi, f)
    BY <1>1, <1>2, <1>4, <2>1, <2>4 DEF Counts
  <2>5. CASE p.buffer # <<>>
    <3> DEFINE b == Tail(p.buffer)
               q == Buffered(c, b)
    <3>0. q = Buffered(c, b) /\ b = Tail(p.buffer) /\ o = Pages(z)!Outcome(q, Head(p.buffer))
      BY <1>7, <1>11, <2>5
    <3> HIDE DEF q, c, b
    <3>1. o.source = q /\ o.result = Head(p.buffer)
      BY <1>8, <3>0
    <3>10. q = Buffered(c, b)
      BY <3>0
    <3>2. b \in Seq(ItemIds)
      BY <1>2, <2>5, <3>0
    <3>3. /\ q \in BufferedPaginators /\ q.at = c.at /\ q.size = c.size /\ q.counter = c.counter
          /\ q.buffer = b /\ q.exhausted = c.exhausted
      BY <1>4, <3>10, <3>2, BufferedIs
    <3>4. q.at # 0 /\ CursorOf(z, s, q) /\ Ahead(z, s, q) = Ahead(z, s, p) /\ ~q.exhausted
      BY <1>1, <1>4, <1>5, <2>2, <2>5, <3>3 DEF CursorOf, Ahead
    <3>11. /\ Len(p.buffer) \in Nat /\ Len(p.buffer) > 0 /\ Len(b) = Len(p.buffer) - 1
           /\ Head(p.buffer) = p.buffer[1] /\ \A i \in 1 .. Len(p.buffer) - 1 : b[i] = p.buffer[i + 1]
      BY <1>2, <2>5, <3>0, TailIs
    <3>5. lo > 0 /\ p.buffer[1] = server[s][lo] /\ Window(z, s, q, lo - 1, hi)
      <4>1. TakenFrom(z, s, q, p.buffer, lo, hi)
        BY <1>1, <1>3, <2>2, <3>3, <3>4, <3>11 DEF TakenFrom
      <4> QED BY <4>1, NextWindow
    <3>6. Counts(z, q, lo - 1, hi, f)
      BY <2>3, <3>3, <3>4
    <3> QED BY <3>1, <3>5, <3>6, <3>11 DEF Coming
  <2>6. CASE p.buffer = <<>> /\ p.at = -1
    <3> DEFINE q == Ended(c)
    <3>0. q = Ended(c) /\ o = Pages(z)!Outcome(q, -3)
      BY <1>7, <1>8, <1>11, <2>6
    <3> HIDE DEF q, c
    <3>1. o.source = q /\ o.result = -3
      BY <1>8, <3>0
    <3>2. /\ q \in BufferedPaginators /\ q.at = c.at /\ q.size = c.size /\ q.counter = c.counter
          /\ q.buffer = <<>> /\ q.exhausted
      BY <1>4, <3>0, EndedIs
    <3>3. lo = 0
      <4>1. Len(p.buffer) = 0
        BY <2>6
      <4> QED BY <2>2, <2>6, <4>1 DEF Ahead
    <3>4. Window(z, s, q, lo, hi)
      BY <1>4, <2>6, <3>2, <3>3, EndedWindow
    <3>5. Counts(z, q, lo, hi, f)
      BY <1>4, <2>4, <2>6, <3>2, <3>3
    <3> QED BY <3>1, <3>2, <3>4, <3>5 DEF Coming
  <2>7. CASE p.buffer = <<>> /\ p.at # -1 /\ mayFail /\ o = Pages(z)!Outcome(c, -4)
    <3>1. o.source = c /\ o.result = -4
      BY <1>8, <2>7
    <3>2. Counts(z, c, lo, hi, f + 1)
      BY <1>1, <1>2, <1>4, <1>9 DEF Counts
    <3> HIDE DEF c
    <3> QED BY <1>5, <2>7, <3>1, <3>2 DEF Coming
  <2>8. CASE p.buffer = <<>> /\ p.at # -1 /\ o = Pages(z)!Answered(s, c)
    <3> DEFINE d == Pages(z)!Page(s, c.at)
               size == IF c.size = -1 THEN Len(d) ELSE c.size
               q == Asked(c, Pages(z)!Following(c, size, d), size)
               r == Ahead(z, s, c)
    <3> HIDE DEF c
    <3>1. z.kind = "cursor" /\ c.size = -1 => Len(server[s]) > 0
      BY <1>1, <1>5 DEF CursorOf
    <3>2. /\ d \in Seq(ItemIds) /\ Len(d) \in Nat /\ Len(d) <= r /\ r \in Nat
          /\ \A i \in 1 .. Len(d) : d[i] = server[s][r + 1 - i]
      BY <1>4, <1>5, <2>8, PageIs
    <3>3. /\ q \in BufferedPaginators /\ CursorOf(z, s, q) /\ q.at # 0
          /\ Ahead(z, s, q) = r - Len(d)
          /\ z.kind # "paged" => size # 0
          /\ d = <<>> => r = 0 /\ (z.kind # "paged" => q.at = -1)
      <4>1. q = Asked(c, Pages(z)!Following(c, size, d), size) /\ c.at # -1
        BY <1>4, <2>8
      <4>2. size = IF c.size = -1 THEN Len(d) ELSE c.size
        OBVIOUS
      <4>3. d = Pages(z)!Page(s, c.at) /\ r = Ahead(z, s, c)
        OBVIOUS
      <4> HIDE DEF q, size, d, r
      <4> QED BY <1>4, <1>5, <3>1, <4>1, <4>2, <4>3, BehindPage, SMTT(90)
    <3>4. q.buffer = c.buffer /\ q.counter = c.counter /\ q.exhausted = c.exhausted
      BY <1>4 DEF BufferedPaginators, Asked
    <3>5. o = IF d # <<>> THEN Pages(z)!Outcome(Buffered(q, Tail(d)), Head(d))
              ELSE IF z.kind = "cursor" /\ size = 0 THEN Pages(z)!Outcome(Asked(c, c.at, size), -5)
              ELSE Pages(z)!Complete(q)
      BY <2>8 DEF Pages!Answered, Pages!None, Pages!IndexError, Buffered, Asked
    <3>6. lo = r
      <4>1. Len(p.buffer) = 0
        BY <2>8
      <4> QED BY <1>3, <1>5, <2>2, <4>1
    <3> HIDE DEF q, r, size
    <3>7. CASE d # <<>>
      <4> DEFINE b == Tail(d)
                 u == Buffered(q, b)
      <4>0. u = Buffered(q, b) /\ b = Tail(d) /\ o = Pages(z)!Outcome(u, Head(d))
        BY <3>5, <3>7
      <4> HIDE DEF u, d, b
      <4>1. o.source = u /\ o.result = Head(d)
        BY <1>8, <4>0
      <4>10. u = Buffered(q, b)
        BY <4>0
      <4>2. b \in Seq(ItemIds)
        BY <3>2, <3>7, <4>0
      <4>3. /\ u \in BufferedPaginators /\ u.at = q.at /\ u.size = q.size /\ u.counter = q.counter
            /\ u.buffer = b /\ u.exhausted = q.exhausted
        BY <3>3, <4>10, <4>2, BufferedIs
      <4>4. CursorOf(z, s, u) /\ Ahead(z, s, u) = Ahead(z, s, q) /\ ~u.exhausted /\ u.counter = c.counter
        BY <2>2, <3>3, <3>4, <4>3 DEF CursorOf, Ahead
      <4>5. Ahead(z, s, u) \in Nat /\ lo = Ahead(z, s, u) + Len(d)
        BY <3>2, <3>3, <3>6, <4>4
      <4>11. /\ Len(d) > 0 /\ Len(b) = Len(d) - 1
             /\ Head(d) = d[1] /\ \A i \in 1 .. Len(d) - 1 : b[i] = d[i + 1]
        BY <3>2, <3>7, <4>0, TailIs
      <4>6. lo > 0 /\ d[1] = server[s][lo] /\ Window(z, s, u, lo - 1, hi)
        <5>1. TakenFrom(z, s, u, d, lo, hi)
          BY <1>1, <3>2, <3>3, <3>6, <4>3, <4>4, <4>5, <4>11 DEF TakenFrom
        <5> QED BY <5>1, NextWindow
      <4>7. Counts(z, u, lo - 1, hi, f)
        BY <2>3, <4>4
      <4> QED BY <4>1, <4>6, <4>7, <4>11 DEF Coming
    <3>8. CASE d = <<>>
      <4> DEFINE u == Ended(q)
      <4>0. u = Ended(q) /\ o = Pages(z)!Complete(q)
        BY <3>3, <3>5, <3>8
      <4> HIDE DEF u, d
      <4>1. o.source = u /\ o.result = -3
        BY <1>8, <4>0
      <4>2. /\ u \in BufferedPaginators /\ u.at = q.at /\ u.size = q.size /\ u.counter = q.counter
            /\ u.buffer = <<>> /\ u.exhausted
        BY <3>3, <4>0, EndedIs
      <4>3. lo = 0 /\ (z.kind # "paged" => u.at = -1) /\ u.counter = c.counter /\ CursorOf(z, s, u) /\ u.at # 0
        BY <3>3, <3>4, <3>6, <3>8, <4>2 DEF CursorOf
      <4>4. \A i \in 1 .. Len(u.buffer) : FALSE
        BY <4>2
      <4>5. Window(z, s, u, lo, hi)
        BY <1>1, <4>2, <4>3, <4>4 DEF Window
      <4>6. Counts(z, u, lo, hi, f)
        BY <2>4, <4>2, <4>3
      <4> QED BY <4>1, <4>2, <4>5, <4>6 DEF Coming
    <3> QED BY <3>7, <3>8
  <2>9. p.buffer = <<>> /\ p.at # -1 => o = Pages(z)!Answered(s, c) \/ (mayFail /\ o = Pages(z)!Outcome(c, -4))
    BY <1>7, <1>11
  <2> QED BY <2>5, <2>6, <2>7, <2>8, <2>9
<1> QED BY <1>10, <1>11

-----------------------------------------------------------------------------
(* Steps of the paginators. *)

(* The sequence r is l with x behind it. *)
Grown(l, x, r) ==
    /\ r \in Seq(ItemIds) /\ Len(l) \in Nat /\ Len(r) = Len(l) + 1 /\ r[Len(l) + 1] = x
    /\ DOMAIN l = 1 .. Len(l) /\ DOMAIN r = 1 .. Len(l) + 1 /\ r # <<>>
    /\ \A i \in 1 .. Len(l) : r[i] = l[i]
    /\ \A y : Has(r, y) <=> Has(l, y) \/ y = x

LEMMA HasAppend ==
    ASSUME NEW l, l \in Seq(ItemIds), NEW x, x \in ItemIds, NEW r, r = Append(l, x)
    PROVE  Grown(l, x, r)
<1>1. /\ r \in Seq(ItemIds) /\ Len(l) \in Nat /\ Len(r) = Len(l) + 1 /\ r[Len(l) + 1] = x
      /\ DOMAIN l = 1 .. Len(l) /\ DOMAIN r = 1 .. Len(l) + 1
      /\ \A i \in 1 .. Len(l) : r[i] = l[i]
  OBVIOUS
<1>2. /\ Len(l) + 1 \in 1 .. Len(l) + 1
      /\ \A i \in 1 .. Len(l) + 1 : i = Len(l) + 1 \/ i \in 1 .. Len(l)
      /\ \A i \in 1 .. Len(l) : i \in 1 .. Len(l) + 1
  BY <1>1
<1>3. ASSUME NEW y PROVE Has(r, y) <=> Has(l, y) \/ y = x
  BY <1>1, <1>2 DEF Has
<1>4. r # <<>>
  BY <1>1
<1> QED BY ONLY <1>1, <1>3, <1>4 DEF Grown

(* The lists' facts, of one list. *)
LEMMA ListOf ==
    ASSUME NEW z, ServerInv(z), NEW s \in DOMAIN start
    PROVE  /\ server[s] \in Seq(ItemIds) /\ Ascends(server[s])
           /\ Len(server[s]) \in Nat /\ DOMAIN server[s] = 1 .. Len(server[s])
           /\ \A i \in 1 .. Len(server[s]) : server[s][i] \in Nat /\ server[s][i] # 0 /\ server[s][i] \in ItemIds
           /\ \A i, j \in 1 .. Len(server[s]) : server[s][i] < server[s][j] => i < j
           /\ \A i, j \in 1 .. Len(server[s]) : i < j => server[s][i] < server[s][j]
           /\ \A i, j \in 1 .. Len(server[s]) : server[s][i] = server[s][j] => i = j
           /\ start[s] \in Seq(ItemIds) /\ Len(start[s]) \in Nat /\ DOMAIN start[s] = 1 .. Len(start[s])
<1>1. /\ server[s] \in Seq(ItemIds) /\ Ascends(server[s]) /\ start[s] \in Seq(ItemIds)
  BY DEF ServerInv
<1>2. \A i \in 1 .. Len(server[s]) : server[s][i] \in ItemIds
  BY <1>1
<1>3. /\ Len(server[s]) \in Nat /\ DOMAIN server[s] = 1 .. Len(server[s])
      /\ \A i \in 1 .. Len(server[s]) : server[s][i] \in Nat /\ server[s][i] # 0
      /\ \A i, j \in 1 .. Len(server[s]) : server[s][i] < server[s][j] => i < j
      /\ \A i, j \in 1 .. Len(server[s]) : i < j => server[s][i] < server[s][j]
  BY <1>1, ListIs
<1>4. ASSUME NEW i \in 1 .. Len(server[s]), NEW j \in 1 .. Len(server[s]), server[s][i] = server[s][j] PROVE i = j
  <2>1. ~(i < j) /\ ~(j < i)
    BY <1>3, <1>4
  <2> QED BY <1>3, <2>1
<1>5. Len(start[s]) \in Nat /\ DOMAIN start[s] = 1 .. Len(start[s])
  BY <1>1
<1> QED BY <1>1, <1>2, <1>3, <1>4, <1>5

LEMMA SourceStep ==
    ASSUME NEW z, PagesSetting(z), PagesInv(z), NEW s \in DOMAIN start, NEW lo, NEW hi,
           Window(z, s, source[s], lo, hi), Counts(z, source[s], lo, hi, failed),
           NEW mayFail \in BOOLEAN, NEW o \in Pages(z)!Anext(s, mayFail)
    PROVE  Coming(z, s, o, lo, hi, failed, mayFail)
<1>1. ServerInv(z) /\ failed \in Nat /\ start \in z.starts
  BY DEF PagesInv, ServerInv
<1>2. server[s] \in Seq(ItemIds) /\ Ascends(server[s]) /\ Len(start[s]) \in Nat
  BY <1>1, ListOf
<1>3. z.known = -1 /\ z.kind = "cursor" => Len(start[s]) > 0
  <2>1. z.known = -1 /\ z.kind = "cursor" => start[s] # <<>>
    BY <1>1 DEF PagesSetting
  <2>2. start[s] \in Seq(ItemIds)
    BY <1>1, ListOf
  <2> QED BY <2>1, <2>2
<1> QED BY <1>1, <1>2, <1>3, AnextIs

(* The window of a source that stays as it is, and of one that takes a step. *)
LEMMA WindowStays ==
    ASSUME NEW z, NEW s, NEW lo, NEW hi, NEW q, Window(z, s, q, lo, hi),
           server' = server, start' = start, source'[s] = q
    PROVE  Window(z, s, source[s], lo, hi)'
BY DEF Window, CursorOf, Ahead, Pages!Rest, Has

LEMMA CountsStay ==
    ASSUME NEW z, NEW p, NEW lo, NEW hi, NEW f, NEW g, Counts(z, p, lo, hi, f), f \in Nat, g \in Nat, g >= f
    PROVE  Counts(z, p, lo, hi, g)
<1>1. g = 0 => f = 0
  OBVIOUS
<1> QED BY <1>1 DEF Counts

LEMMA ActingSource ==
    ASSUME NEW z, NEW s, NEW lo, NEW hi, NEW q, Window(z, s, q, lo, hi), Counts(z, q, lo, hi, failed'),
           server' = server, start' = start, source'[s] = q, Given(z, s, lo, hi)',
           Len(server[s]) \in Nat
    PROVE  SourceInv(z, s)'
<1>1. Window(z, s, source[s], lo, hi)'
  BY WindowStays
<1>2. Counts(z, source[s], lo, hi, failed)'
  BY DEF Counts
<1>3. lo \in 0 .. Len(server[s]) /\ hi \in 0 .. Len(server[s])
  BY DEF Window
<1> QED BY <1>1, <1>2, <1>3 DEF SourceInv

(* What the caller got and what is held of s stays. *)
SameOf(s) ==
    /\ \A k \in DOMAIN server[s] : Has(out', server[s][k]) <=> Has(out, server[s][k])
    /\ \A x : Holds(s, x)' <=> Holds(s, x)

LEMMA KeptSource ==
    ASSUME NEW z, NEW s, SourceInv(z, s), server' = server, start' = start, source'[s] = source[s],
           failed \in Nat, failed' \in Nat, failed' >= failed, SameOf(s), Len(server[s]) \in Nat
    PROVE  SourceInv(z, s)'
<1>1. PICK lo \in 0 .. Len(server[s]), hi \in 0 .. Len(server[s]) :
        Window(z, s, source[s], lo, hi) /\ Counts(z, source[s], lo, hi, failed) /\ Given(z, s, lo, hi)
  BY DEF SourceInv
<1>2. Counts(z, source[s], lo, hi, failed')
  BY <1>1, CountsStay
<1>3. Lossless(z)' => Lossless(z)
  BY DEF Lossless
<1>4. Given(z, s, lo, hi)'
  BY <1>1, <1>3 DEF Given, SameOf
<1> QED BY <1>1, <1>2, <1>4, ActingSource

(* The caller gets x, the item of s that is older than what it got of s. *)
LEMMA OutGrows ==
    ASSUME NEW z, ServerInv(z), server' = server, start' = start, out \in Seq(ItemIds),
           \A i \in DOMAIN out : \E s \in DOMAIN start : Has(server[s], out[i]),
           Pages(z)!SourcesInOrder,
           NEW s \in DOMAIN start, NEW x \in ItemIds, Has(server[s], x), out' = Append(out, x),
           \A i \in DOMAIN out : Has(server[s], out[i]) => x < out[i]
    PROVE  /\ out' \in Seq(ItemIds)
           /\ \A i \in DOMAIN out' : \E t \in DOMAIN start : Has(server[t], out'[i])
           /\ Pages(z)!SourcesInOrder'
           /\ Pages(z)!NewestFirst /\ (\A i \in DOMAIN out : x < out[i]) => Pages(z)!NewestFirst'
           /\ \A y : Has(out', y) <=> Has(out, y) \/ y = x
<1> DEFINE n == Len(out)
<1>1. /\ out' \in Seq(ItemIds) /\ n \in Nat /\ out'[n + 1] = x
      /\ DOMAIN out = 1 .. n /\ DOMAIN out' = 1 .. n + 1
      /\ \A i \in 1 .. n : out'[i] = out[i]
      /\ \A y : Has(out', y) <=> Has(out, y) \/ y = x
  <2>1. Grown(out, x, out')
    BY HasAppend, Zenon
  <2> QED BY <2>1 DEF Grown
<1>2. \A i \in 1 .. n : out[i] \in Nat
  BY DEF ItemIds
<1> HIDE DEF n
<1>3. /\ \A i \in 1 .. n + 1 : i = n + 1 \/ i \in 1 .. n
      /\ \A i, j \in 1 .. n + 1 : i < j => i \in 1 .. n
  BY ONLY <1>1
<1>4. \A i \in DOMAIN out' : \E t \in DOMAIN start : Has(server[t], out'[i])
  BY <1>1, <1>3
<1>5. x \in Nat
  BY DEF ItemIds
<1>6. ASSUME NEW t \in DOMAIN start, NEW i \in 1 .. n + 1, NEW j \in 1 .. n + 1, i < j,
             Has(server[t], out'[i]), Has(server[t], out'[j])
      PROVE  out'[i] > out'[j]
  <2>1. i \in 1 .. n /\ out'[i] = out[i]
    BY <1>1, <1>3, <1>6
  <2>2. CASE j = n + 1
    <3>1. t = s
      BY <1>1, <1>6, <2>2 DEF ServerInv
    <3>2. x < out[i]
      BY <1>1, <1>6, <2>1, <3>1
    <3> QED BY <1>1, <1>2, <1>5, <2>1, <2>2, <3>2
  <2>3. CASE j \in 1 .. n
    <3>1. i \in Pages(z)!From(t) /\ j \in Pages(z)!From(t)
      BY <1>1, <1>6, <2>1, <2>3 DEF Pages!From, Has
    <3>2. out[i] > out[j]
      BY <1>6, <3>1 DEF Pages!SourcesInOrder, Pages!Sources
    <3> QED BY <1>1, <2>1, <2>3, <3>2
  <2> QED BY <1>3, <2>2, <2>3
<1>7. Pages(z)!SourcesInOrder'
  BY <1>1, <1>6 DEF Pages!SourcesInOrder, Pages!Sources, Pages!From, Has
<1>8. ASSUME Pages(z)!NewestFirst, \A i \in DOMAIN out : x < out[i] PROVE Pages(z)!NewestFirst'
  <2>1. ASSUME NEW i \in 1 .. n + 1, NEW j \in 1 .. n + 1, i < j PROVE out'[i] > out'[j]
    <3>1. i \in 1 .. n /\ out'[i] = out[i]
      BY <1>1, <1>3, <2>1
    <3>2. CASE j = n + 1
      <4>1. x < out[i]
        BY <1>1, <1>8, <3>1
      <4> QED BY <1>1, <1>2, <1>5, <3>1, <3>2, <4>1
    <3>3. CASE j \in 1 .. n
      BY <1>1, <1>8, <2>1, <3>1, <3>3 DEF Pages!NewestFirst
    <3> QED BY <1>3, <3>2, <3>3
  <2> QED BY <1>1, <2>1 DEF Pages!NewestFirst
<1> QED BY <1>1, <1>4, <1>7, <1>8

LEMMA ServerStays ==
    ASSUME NEW z, ServerInv(z), server' = server, start' = start, arrived' = arrived, failed' \in Nat
    PROVE  ServerInv(z)'
BY DEF ServerInv

LEMMA OutStays ==
    ASSUME NEW z, OutInv(z), server' = server, start' = start, out' = out, heap' = heap
    PROVE  OutInv(z)'
BY DEF OutInv, Pages!SourcesInOrder, Pages!NewestFirst, Pages!Sources, Pages!From

(* A source is asked: what Advance leaves, what it does, and how it goes on. *)
Asks(z, s, o) ==
    /\ source' = [source EXCEPT ![s] = o.source]
    /\ failed' = failed + IF o.result = -4 THEN 1 ELSE 0
    /\ server' = server /\ start' = start /\ arrived' = arrived

(* The outcomes of a step of the source s, with a window of its list. *)
Ends(z, s, o, lo, hi) ==
    /\ o.result = -3 /\ o.source.exhausted /\ failed' = failed
    /\ Window(z, s, o.source, lo, hi) /\ Counts(z, o.source, lo, hi, failed')

Fails(z, s, o, lo, hi) ==
    /\ o.result = -4 /\ failed' = failed + 1
    /\ Window(z, s, o.source, lo, hi) /\ Counts(z, o.source, lo, hi, failed')

Gives(z, s, o, lo, hi) ==
    /\ lo \in 1 .. Len(server[s]) /\ lo - 1 \in Nat /\ o.result = server[s][lo] /\ o.result \in ItemIds /\ failed' = failed
    /\ Window(z, s, o.source, lo - 1, hi) /\ Counts(z, o.source, lo - 1, hi, failed')

LEMMA AskedSource ==
    ASSUME NEW z, PagesSetting(z), PagesInv(z), NEW s \in DOMAIN start, NEW o, Asks(z, s, o),
           NEW mayFail \in BOOLEAN, o \in Pages(z)!Anext(s, mayFail)
    PROVE  \E lo, hi \in Nat :
              /\ Window(z, s, source[s], lo, hi) /\ Given(z, s, lo, hi) /\ lo <= hi /\ hi <= Len(server[s])
              /\ Ends(z, s, o, lo, hi) \/ (mayFail /\ Fails(z, s, o, lo, hi)) \/ Gives(z, s, o, lo, hi)
<1>1. ServerInv(z) /\ failed \in Nat /\ SourceInv(z, s)
  BY DEF PagesInv, ServerInv
<1>2. PICK lo \in 0 .. Len(server[s]), hi \in 0 .. Len(server[s]) :
        Window(z, s, source[s], lo, hi) /\ Counts(z, source[s], lo, hi, failed) /\ Given(z, s, lo, hi)
  BY <1>1 DEF SourceInv
<1>3. lo \in Nat /\ hi \in Nat /\ lo <= hi /\ hi <= Len(server[s]) /\ Len(server[s]) \in Nat
  BY <1>1, <1>2, ListOf DEF Window
<1>4. Coming(z, s, o, lo, hi, failed, mayFail)
  BY <1>2, SourceStep
<1>5. CASE /\ o.result = -3 /\ o.source.exhausted
           /\ Window(z, s, o.source, lo, hi) /\ Counts(z, o.source, lo, hi, failed)
  <2>1. failed' = failed
    BY <1>1, <1>5 DEF Asks
  <2>2. Ends(z, s, o, lo, hi)
    BY <1>5, <2>1 DEF Ends
  <2> QED BY <1>2, <1>3, <2>2
<1>6. CASE /\ o.result = -4 /\ mayFail
           /\ Window(z, s, o.source, lo, hi) /\ Counts(z, o.source, lo, hi, failed + 1)
  <2>1. failed' = failed + 1
    BY <1>1, <1>6 DEF Asks
  <2>2. Fails(z, s, o, lo, hi)
    BY <1>6, <2>1 DEF Fails
  <2> QED BY <1>2, <1>3, <1>6, <2>2
<1>7. CASE /\ lo > 0 /\ o.result = server[s][lo]
           /\ Window(z, s, o.source, lo - 1, hi) /\ Counts(z, o.source, lo - 1, hi, failed)
  <2>1. lo \in 1 .. Len(server[s]) /\ lo - 1 \in Nat
    BY <1>3, <1>7
  <2>2. server[s][lo] \in ItemIds
    BY <1>1, <2>1, ListOf
  <2>3. o.result # -4
    BY <1>7, <2>2 DEF ItemIds
  <2>4. failed' = failed
    BY <1>1, <2>3 DEF Asks
  <2>5. Gives(z, s, o, lo, hi)
    BY <1>7, <2>1, <2>2, <2>4 DEF Gives
  <2> QED BY <1>2, <1>3, <2>5
<1> QED BY <1>4, <1>5, <1>6, <1>7 DEF Coming

LEMMA DirectKeeps ==
    ASSUME NEW z, PagesSetting(z), PagesInv(z), Pages(z)!Direct
    PROVE  PagesInv(z)'
<1>1. /\ ServerInv(z) /\ OutInv(z) /\ MergeInv(z) /\ start \in z.starts /\ failed \in Nat
  BY DEF PagesInv, ServerInv
<1>2. Len(start) \in Nat \ {0} /\ DOMAIN start = 1 .. Len(start)
  BY <1>1 DEF PagesSetting
<1>3. /\ ~(Len(start) > 1) /\ pc = "ready"
      /\ start' = start /\ prepared' = prepared /\ server' = server /\ heap' = heap
      /\ first' = first /\ arrived' = arrived
  BY DEF Pages!Direct, Pages!Merged
<1>4. DOMAIN start = {1} /\ Len(start) = 1
  BY <1>2, <1>3
<1>5. PICK o : /\ o \in Pages(z)!Anext(1, TRUE) /\ Asks(z, 1, o)
               /\ pc' = IF o.result \in {-4, -5} THEN "raised" ELSE IF o.result = -3 THEN "complete" ELSE "ready"
               /\ out' = IF o.result >= 0 THEN Append(out, o.result) ELSE out
  <2>1. PICK o : /\ Pages(z)!Advance(1, TRUE, o)
                 /\ pc' = IF o.result \in {-4, -5} THEN "raised" ELSE IF o.result = -3 THEN "complete" ELSE "ready"
                 /\ out' = IF o.result >= 0 THEN Append(out, o.result) ELSE out
    BY DEF Pages!Direct, Pages!Exceptions, Pages!Raise, Pages!IndexError, Pages!Stop
  <2>2. o \in Pages(z)!Anext(1, TRUE /\ failed < Failures)
    BY <2>1 DEF Pages!Advance
  <2>3. o \in Pages(z)!Anext(1, TRUE)
    BY <2>2, Zenon DEF Pages!Anext
  <2>4. Asks(z, 1, o)
    BY <1>3, <2>1 DEF Pages!Advance, Pages!Raise, Asks
  <2> QED BY <2>1, <2>3, <2>4
<1>6. PICK lo \in Nat, hi \in Nat :
              /\ Window(z, 1, source[1], lo, hi) /\ Given(z, 1, lo, hi) /\ lo <= hi /\ hi <= Len(server[1])
              /\ Ends(z, 1, o, lo, hi) \/ (TRUE /\ Fails(z, 1, o, lo, hi)) \/ Gives(z, 1, o, lo, hi)
  BY <1>4, <1>5, AskedSource
<1>7. failed' \in Nat /\ failed' >= failed
  BY <1>1, <1>6 DEF Ends, Fails, Gives
<1>8. ServerInv(z)'
  BY <1>1, <1>3, <1>7, ServerStays
<1>9. /\ ~prepared /\ first[1] = -2 /\ heap = {} /\ source \in [{1} -> BufferedPaginators]
      /\ \A x : ~Holds(1, x)
  BY <1>1, <1>3, <1>4 DEF MergeInv, Holds
<1>10. source'[1] = o.source /\ source' \in [{1} -> BufferedPaginators]
  <2>1. o.source \in BufferedPaginators
    BY <1>6 DEF Ends, Fails, Gives, Window
  <2> QED BY <1>5, <1>9, <2>1 DEF Asks
<1>11. \A x : ~Holds(1, x)'
  BY <1>3, <1>9 DEF Holds
<1>12. pc' \in {"ready", "raised", "complete"} /\ (pc' = "complete" => o.source.exhausted)
  <2>1. o.result = -3 => o.source.exhausted
    BY <1>6 DEF Ends, Fails, Gives, ItemIds
  <2> QED BY <1>5, <2>1
<1>13. MergeInv(z)'
  <2>1. \A s \in DOMAIN start : first[s] = -2
    BY <1>4, <1>9
  <2> QED BY <1>1, <1>3, <1>4, <1>9, <1>10, <1>12, <2>1 DEF MergeInv
<1>14. Len(server[1]) \in Nat
  BY <1>1, <1>4, ListOf
<1>15. CASE Ends(z, 1, o, lo, hi) \/ Fails(z, 1, o, lo, hi)
  <2>1. out' = out
    BY <1>5, <1>15 DEF Ends, Fails
  <2>2. Given(z, 1, lo, hi)'
    BY <1>3, <1>4, <1>6, <1>9, <1>11, <2>1 DEF Given, Lossless
  <2>3. SourceInv(z, 1)'
    BY <1>3, <1>10, <1>14, <1>15, <2>2, ActingSource DEF Ends, Fails
  <2>4. OutInv(z)'
    BY <1>1, <1>3, <2>1, OutStays
  <2> QED BY <1>3, <1>4, <1>8, <1>13, <2>3, <2>4 DEF PagesInv
<1>16. CASE Gives(z, 1, o, lo, hi)
  <2> DEFINE x == o.result
  <2>1. /\ x = server[1][lo] /\ x \in ItemIds /\ lo \in 1 .. Len(server[1]) /\ lo - 1 \in Nat
        /\ Window(z, 1, o.source, lo - 1, hi) /\ Counts(z, o.source, lo - 1, hi, failed')
    BY <1>16 DEF Gives
  <2>2. out' = Append(out, x)
    BY <1>5, <2>1 DEF ItemIds
  <2> HIDE DEF x
  <2>3. Has(server[1], x)
    BY <1>1, <1>4, <2>1, ListOf DEF Has
  <2>4. ASSUME NEW i \in DOMAIN out, Has(server[1], out[i]) PROVE x < out[i]
    <3>1. PICK k \in 1 .. Len(server[1]) : server[1][k] = out[i]
      BY <1>1, <1>4, <2>4, ListOf DEF Has
    <3>2. Has(out, server[1][k])
      BY <2>4, <3>1 DEF Has
    <3>3. lo < k
      BY <1>1, <1>4, <1>6, <3>2, ListOf DEF Given
    <3> QED BY <1>1, <1>4, <2>1, <3>1, <3>3, ListOf
  <2>5. /\ out' \in Seq(ItemIds)
        /\ \A i \in DOMAIN out' : \E t \in DOMAIN start : Has(server[t], out'[i])
        /\ Pages(z)!SourcesInOrder'
        /\ Pages(z)!NewestFirst /\ (\A i \in DOMAIN out : x < out[i]) => Pages(z)!NewestFirst'
        /\ \A y : Has(out', y) <=> Has(out, y) \/ y = x
    <3>1. /\ out \in Seq(ItemIds) /\ Pages(z)!SourcesInOrder /\ 1 \in DOMAIN start
          /\ \A i \in DOMAIN out : \E s \in DOMAIN start : Has(server[s], out[i])
      BY <1>1, <1>4 DEF OutInv
    <3> QED BY <1>1, <1>3, <2>1, <2>2, <2>3, <2>4, <3>1, OutGrows, SMTT(60)
  <2>6. \A i \in DOMAIN out : x < out[i]
    BY <1>1, <1>4, <2>4 DEF OutInv
  <2>7. OutInv(z)'
    BY <1>1, <1>3, <1>9, <2>5, <2>6 DEF OutInv
  <2>8. Given(z, 1, lo - 1, hi)'
    <3>1. ASSUME NEW k \in DOMAIN server[1], Has(out', server[1][k]) PROVE lo - 1 < k /\ k <= hi
      <4>1. CASE Has(out, server[1][k])
        <5>1. lo < k /\ k <= hi
          BY <1>6, <4>1 DEF Given
        <5> QED BY <1>1, <1>4, <1>6, <5>1, ListOf
      <4>2. CASE server[1][k] = x
        <5>1. k = lo
          BY <1>1, <1>4, <2>1, <4>2, ListOf, SMTT(40)
        <5> QED BY <1>6, <5>1
      <4> QED BY <2>5, <3>1, <4>1, <4>2
    <3>2. ASSUME NEW k \in DOMAIN server[1], lo - 1 < k, k <= hi PROVE Has(out', server[1][k])
      <4>1. CASE k = lo
        BY <2>1, <2>5, <4>1
      <4>2. CASE k # lo
        <5>1. lo < k
          BY <1>1, <1>4, <1>6, <3>2, <4>2, ListOf
        <5> QED BY <1>4, <1>6, <1>9, <2>5, <3>2, <5>1 DEF Given, Lossless
      <4> QED BY <4>1, <4>2
    <3> QED BY <1>3, <1>11, <3>1, <3>2 DEF Given
  <2>9. SourceInv(z, 1)'
    BY <1>3, <1>10, <1>14, <2>1, <2>8, ActingSource
  <2> QED BY <1>3, <1>4, <1>8, <1>13, <2>7, <2>9 DEF PagesInv
<1> QED BY <1>6, <1>15, <1>16

LEMMA FirstKeeps ==
    ASSUME NEW z, PagesSetting(z), PagesInv(z), NEW s \in DOMAIN start, Pages(z)!First(s)
    PROVE  PagesInv(z)'
<1>1. /\ ServerInv(z) /\ OutInv(z) /\ MergeInv(z) /\ start \in z.starts /\ failed \in Nat
  BY DEF PagesInv, ServerInv
<1>2. Len(start) \in Nat \ {0} /\ DOMAIN start = 1 .. Len(start)
  BY <1>1 DEF PagesSetting
<1>3. /\ pc = "preparing" /\ first[s] = -2
      /\ start' = start /\ prepared' = prepared /\ server' = server /\ heap' = heap
      /\ out' = out /\ pc' = pc /\ arrived' = arrived
  BY DEF Pages!First, Pages!Pending
<1>4. ~prepared /\ Len(start) > 1 /\ out = <<>> /\ heap = {}
  BY <1>1, <1>2, <1>3 DEF MergeInv
<1>5. PICK o : /\ o \in Pages(z)!Anext(s, z.failsEarly) /\ Asks(z, s, o)
               /\ first' = [first EXCEPT ![s] = o.result]
  <2>1. PICK o : /\ Pages(z)!Advance(s, z.failsEarly, o)
                 /\ first' = [first EXCEPT ![s] = o.result]
    BY DEF Pages!First
  <2>2. o \in Pages(z)!Anext(s, z.failsEarly /\ failed < Failures)
    BY <2>1 DEF Pages!Advance
  <2>3. o \in Pages(z)!Anext(s, z.failsEarly)
    BY <2>2, Zenon DEF Pages!Anext
  <2>4. Asks(z, s, o)
    BY <1>3, <2>1 DEF Pages!Advance, Pages!Raise, Asks
  <2> QED BY <2>1, <2>3, <2>4
<1>6. PICK lo \in Nat, hi \in Nat :
              /\ Window(z, s, source[s], lo, hi) /\ Given(z, s, lo, hi) /\ lo <= hi /\ hi <= Len(server[s])
              /\ Ends(z, s, o, lo, hi) \/ (z.failsEarly /\ Fails(z, s, o, lo, hi)) \/ Gives(z, s, o, lo, hi)
  <2>1. z.failsEarly \in BOOLEAN
    BY DEF PagesSetting
  <2> QED BY <1>5, <2>1, AskedSource
<1>7. failed' \in Nat /\ failed' >= failed
  BY <1>1, <1>6 DEF Ends, Fails, Gives
<1>8. ServerInv(z)' /\ OutInv(z)'
  BY <1>1, <1>3, <1>7, ServerStays, OutStays
<1>9. /\ source \in [DOMAIN start -> BufferedPaginators] /\ first \in [DOMAIN start -> Firsts]
      /\ \A t \in DOMAIN start : Len(server[t]) \in Nat
  BY <1>1, ListOf DEF MergeInv
<1>10. /\ source'[s] = o.source /\ source' \in [DOMAIN start -> BufferedPaginators]
       /\ first'[s] = o.result /\ first' \in [DOMAIN start -> Firsts]
       /\ \A t \in DOMAIN start : t # s => source'[t] = source[t] /\ first'[t] = first[t]
  <2>1. o.source \in BufferedPaginators /\ o.result \in Firsts
    BY <1>6 DEF Ends, Fails, Gives, Window, Firsts
  <2> QED BY <1>5, <1>9, <2>1 DEF Asks
<1>11. \A t \in DOMAIN start : \A x : Holds(t, x)' <=> first'[t] = x /\ x # -2 /\ x # -3 /\ x # -4
  BY <1>3, <1>4 DEF Holds
<1>12. \A t \in DOMAIN start : \A x : Holds(t, x) <=> first[t] = x /\ x # -2 /\ x # -3 /\ x # -4
  BY <1>3, <1>4 DEF Holds
<1>13. MergeInv(z)'
  <2>1. /\ o.result = -3 => o.source.exhausted
        /\ o.result = -4 => z.failsEarly /\ failed' > 0
    BY <1>1, <1>6 DEF Ends, Fails, Gives, ItemIds
  <2>2. \A t \in DOMAIN start : first[t] = -4 => z.failsEarly /\ failed' > 0
    BY <1>1, <1>7 DEF MergeInv
  <2>3. \A t \in DOMAIN start :
          /\ first'[t] = -3 => source'[t].exhausted
          /\ first'[t] = -4 => z.failsEarly /\ failed' > 0
    BY <1>1, <1>4, <1>10, <2>1, <2>2 DEF MergeInv
  <2> QED BY <1>1, <1>3, <1>4, <1>10, <2>3 DEF MergeInv
<1>14. ASSUME NEW t \in DOMAIN start, t # s PROVE SourceInv(z, t)'
  <2>1. SameOf(t)
    BY <1>3, <1>10, <1>11, <1>12, <1>14 DEF SameOf
  <2>2. SourceInv(z, t) /\ source'[t] = source[t]
    BY <1>10, <1>14 DEF PagesInv
  <2> QED BY <1>1, <1>3, <1>7, <1>9, <2>1, <2>2, KeptSource
<1>15. SourceInv(z, s)'
  <2>1. \A x : ~Holds(s, x) /\ ~Has(out, x)
    BY <1>3, <1>4, <1>12 DEF Has
  <2>2. CASE Ends(z, s, o, lo, hi)
    <3>1. \A x : ~Holds(s, x)'
      BY <1>10, <1>11, <2>2 DEF Ends
    <3>2. Given(z, s, lo, hi)'
      BY <1>3, <1>6, <2>1, <2>2, <3>1 DEF Given, Lossless, Ends
    <3> QED BY <1>3, <1>9, <1>10, <2>2, <3>2, ActingSource DEF Ends
  <2>3. CASE z.failsEarly /\ Fails(z, s, o, lo, hi)
    <3>1. (\A x : ~Holds(s, x)') /\ ~Lossless(z)'
      BY <1>1, <1>3, <1>4, <1>10, <1>11, <2>3 DEF Fails, Lossless
    <3>2. Given(z, s, lo, hi)'
      BY <1>3, <2>1, <3>1 DEF Given
    <3> QED BY <1>3, <1>9, <1>10, <2>3, <3>2, ActingSource DEF Fails
  <2>4. CASE Gives(z, s, o, lo, hi)
    <3> DEFINE x == o.result
    <3>1. /\ x = server[s][lo] /\ x \in ItemIds /\ lo \in 1 .. Len(server[s]) /\ lo - 1 \in Nat
          /\ Window(z, s, o.source, lo - 1, hi) /\ Counts(z, o.source, lo - 1, hi, failed')
          /\ failed' = failed
      BY <2>4 DEF Gives
    <3>2. \A y : Holds(s, y)' <=> y = x
      <4>1. first'[s] = x /\ x # -2 /\ x # -3 /\ x # -4
        BY <1>10, <3>1 DEF ItemIds
      <4> QED BY <1>11, <4>1
    <3> HIDE DEF x
    <3>3. (lo - 1) + 1 = lo /\ lo - 1 < hi
      BY <1>6, <3>1
    <3>4. ASSUME Lossless(z), NEW k \in DOMAIN server[s], lo - 1 < k, k <= hi PROVE server[s][k] = x
      <4>1. CASE lo < k
        BY <1>6, <2>1, <3>4, <4>1 DEF Given
      <4>2. CASE k = lo
        BY <3>1, <4>2
      <4> QED BY <1>1, <3>1, <3>4, <4>1, <4>2, ListOf
    <3>5. Lossless(z)' => Lossless(z)
      BY <1>3, <3>1 DEF Lossless
    <3>6. Given(z, s, lo - 1, hi)'
      BY <1>3, <2>1, <3>1, <3>2, <3>3, <3>4, <3>5 DEF Given
    <3> QED BY <1>3, <1>9, <1>10, <3>1, <3>6, ActingSource
  <2> QED BY <1>6, <2>2, <2>3, <2>4
<1> QED BY <1>3, <1>8, <1>13, <1>14, <1>15 DEF PagesInv

(* Steps that ask no source. *)
LEMMA SourcesStay ==
    ASSUME NEW z, PagesInv(z), server' = server, start' = start, source' = source,
           failed' = failed, arrived' = arrived, out' = out, heap' = heap,
           \A s \in DOMAIN start : \A x : Holds(s, x)' <=> Holds(s, x), MergeInv(z)'
    PROVE  PagesInv(z)'
<1>1. ServerInv(z) /\ OutInv(z) /\ failed \in Nat
  BY DEF PagesInv, ServerInv
<1>2. ServerInv(z)' /\ OutInv(z)'
  BY <1>1, ServerStays, OutStays
<1>3. ASSUME NEW s \in DOMAIN start PROVE SourceInv(z, s)'
  <2>1. SourceInv(z, s) /\ Len(server[s]) \in Nat /\ SameOf(s) /\ source'[s] = source[s]
    BY <1>1, ListOf DEF PagesInv, SameOf
  <2>2. failed' \in Nat /\ failed' >= failed
    BY <1>1
  <2> QED BY <1>1, <2>1, <2>2, KeptSource
<1> QED BY <1>2, <1>3 DEF PagesInv

LEMMA PrepareKeeps ==
    ASSUME NEW z, PagesSetting(z), PagesInv(z), Pages(z)!Prepare
    PROVE  PagesInv(z)'
<1>1. /\ ServerInv(z) /\ OutInv(z) /\ MergeInv(z) /\ failed \in Nat
  BY DEF PagesInv, ServerInv
<1>2. /\ Len(start) > 1 /\ ~prepared /\ pc = "ready" /\ pc' = "preparing"
      /\ start' = start /\ prepared' = prepared /\ server' = server /\ heap' = heap /\ source' = source
      /\ out' = out /\ arrived' = arrived /\ failed' = failed
      /\ first' = [s \in DOMAIN start |-> -2]
  BY DEF Pages!Prepare, Pages!Merged, Pages!Sources, Pages!Pending
<1>3. out = <<>> /\ \A s \in DOMAIN start : Lossless(z) => first[s] = -2
  BY <1>1, <1>2 DEF MergeInv
<1>4. ServerInv(z)' /\ OutInv(z)'
  BY <1>1, <1>2, ServerStays, OutStays
<1>5. MergeInv(z)'
  <2>1. first' \in [DOMAIN start -> Firsts] /\ \A s \in DOMAIN start : first'[s] = -2
    BY <1>2 DEF Firsts
  <2> QED BY <1>1, <1>2, <2>1 DEF MergeInv
<1>6. ASSUME NEW s \in DOMAIN start PROVE SourceInv(z, s)'
  <2>1. SourceInv(z, s) /\ Len(server[s]) \in Nat
    BY <1>1, ListOf DEF PagesInv
  <2>2. PICK lo \in 0 .. Len(server[s]), hi \in 0 .. Len(server[s]) :
          Window(z, s, source[s], lo, hi) /\ Counts(z, source[s], lo, hi, failed) /\ Given(z, s, lo, hi)
    BY <2>1 DEF SourceInv
  <2>3. (\A x : ~Holds(s, x)') /\ (Lossless(z) => \A x : ~Holds(s, x))
    BY <1>2, <1>3 DEF Holds
  <2>4. Lossless(z)' <=> Lossless(z)
    BY <1>2 DEF Lossless
  <2>5. Given(z, s, lo, hi)'
    BY <1>2, <2>2, <2>3, <2>4 DEF Given
  <2> QED BY <1>2, <2>1, <2>2, <2>5, ActingSource
<1> QED BY <1>2, <1>4, <1>5, <1>6 DEF PagesInv

LEMMA PreparedKeeps ==
    ASSUME NEW z, PagesSetting(z), PagesInv(z), Pages(z)!Prepared
    PROVE  PagesInv(z)'
<1>1. /\ ServerInv(z) /\ OutInv(z) /\ MergeInv(z) /\ start \in z.starts /\ failed \in Nat
  BY DEF PagesInv, ServerInv
<1>2. Len(start) \in Nat \ {0}
  BY <1>1 DEF PagesSetting
<1>3. /\ pc = "preparing" /\ \A s \in DOMAIN start : first[s] # -2
      /\ start' = start /\ server' = server /\ source' = source /\ first' = first
      /\ out' = out /\ arrived' = arrived /\ failed' = failed
      /\ IF \E s \in DOMAIN start : first[s] \in {-4, -5}
         THEN pc' = "raised" /\ heap' = heap /\ prepared' = prepared
         ELSE pc' = "ready" /\ prepared' = TRUE /\ heap' = {<<first[s], s>> : s \in {t \in DOMAIN start : first[t] # -3}}
  BY DEF Pages!Prepared, Pages!Sources, Pages!Pending, Pages!Stop, Pages!Exceptions, Pages!Raise, Pages!IndexError
<1>4. ~prepared /\ Len(start) > 1 /\ out = <<>> /\ heap = {} /\ first \in [DOMAIN start -> Firsts]
  BY <1>1, <1>2, <1>3 DEF MergeInv
<1>5. CASE \E s \in DOMAIN start : first[s] \in {-4, -5}
  <2>1. PICK s \in DOMAIN start : first[s] = -4
    BY <1>4, <1>5 DEF Firsts, ItemIds
  <2>2. ~Lossless(z)'
    BY <1>1, <1>3, <1>4, <2>1 DEF MergeInv, Lossless
  <2>3. /\ pc' = "raised" /\ heap' = heap /\ prepared' = prepared
        /\ \A t \in DOMAIN start : \A x : Holds(t, x)' <=> Holds(t, x)
    BY <1>3, <1>5 DEF Holds
  <2>4. MergeInv(z)'
    BY <1>1, <1>3, <1>4, <2>2, <2>3 DEF MergeInv
  <2> QED BY <1>3, <2>3, <2>4, SourcesStay
<1>6. CASE ~ \E s \in DOMAIN start : first[s] \in {-4, -5}
  <2>1. pc' = "ready" /\ prepared' = TRUE /\ heap' = {<<first[s], s>> : s \in {t \in DOMAIN start : first[t] # -3}}
    BY <1>3, <1>6
  <2>2. \A s \in DOMAIN start : first[s] = -3 \/ first[s] \in ItemIds
    BY <1>3, <1>4, <1>6 DEF Firsts
  <2>3. \A s \in DOMAIN start : \A x : <<x, s>> \in heap' <=> first[s] = x /\ x # -3
    BY <2>1
  <2>4. \A s \in DOMAIN start : \A x : Holds(s, x)' <=> Holds(s, x)
    <3>1. \A s \in DOMAIN start : first[s] # -4 /\ first[s] # -2
      BY <1>3, <1>6
    <3> QED BY <1>4, <2>1, <2>3, <3>1 DEF Holds
  <2>5. heap' \in SUBSET (ItemIds \X DOMAIN start)
    BY <2>1, <2>2
  <2>6. \A s \in DOMAIN start : source[s].exhausted \/ \E x \in ItemIds : <<x, s>> \in heap'
    <3>1. ASSUME NEW s \in DOMAIN start, first[s] = -3 PROVE source[s].exhausted
      BY <1>1, <1>4, <3>1 DEF MergeInv
    <3>2. ASSUME NEW s \in DOMAIN start, first[s] # -3 PROVE first[s] \in ItemIds /\ <<first[s], s>> \in heap'
      BY <2>2, <2>3, <3>2
    <3> QED BY <3>1, <3>2
  <2>7. MergeInv(z)'
    BY <1>1, <1>3, <1>4, <2>1, <2>5, <2>6 DEF MergeInv
  <2>8. OutInv(z)'
    <3>1. DOMAIN out = {}
      BY <1>4
    <3>2. Pages(z)!SourcesInOrder' /\ (z.newest => Pages(z)!NewestFirst')
      BY <1>1, <1>3 DEF OutInv, Pages!SourcesInOrder, Pages!NewestFirst, Pages!Sources, Pages!From
    <3> QED BY <1>1, <1>3, <3>1, <3>2 DEF OutInv
  <2>9. ServerInv(z)'
    BY <1>1, <1>3, ServerStays
  <2>10. ASSUME NEW s \in DOMAIN start PROVE SourceInv(z, s)'
    <3>1. SourceInv(z, s) /\ Len(server[s]) \in Nat /\ SameOf(s) /\ source'[s] = source[s]
      BY <1>1, <1>3, <2>4, ListOf DEF PagesInv, SameOf
    <3>2. failed' \in Nat /\ failed' >= failed
      BY <1>1, <1>3
    <3> QED BY <1>1, <1>3, <3>1, <3>2, KeptSource
  <2> QED BY <1>3, <2>7, <2>8, <2>9, <2>10 DEF PagesInv
<1> QED BY <1>5, <1>6

LEMMA ExhaustedKeeps ==
    ASSUME NEW z, PagesInv(z), Pages(z)!Exhausted
    PROVE  PagesInv(z)'
<1>1. /\ Len(start) > 1 /\ pc = "ready" /\ prepared /\ heap = {} /\ pc' = "complete"
      /\ start' = start /\ prepared' = prepared /\ server' = server /\ heap' = heap /\ source' = source
      /\ first' = first /\ out' = out /\ arrived' = arrived /\ failed' = failed
  BY DEF Pages!Exhausted, Pages!Merged
<1>2. MergeInv(z)
  BY DEF PagesInv
<1>3. \A s \in DOMAIN start : source[s].exhausted
  BY <1>1, <1>2 DEF MergeInv
<1>4. MergeInv(z)' /\ \A s \in DOMAIN start : \A x : Holds(s, x)' <=> Holds(s, x)
  BY <1>1, <1>2, <1>3 DEF MergeInv, Holds, Lossless
<1> QED BY <1>1, <1>4, SourcesStay

LEMMA AskAgainKeeps ==
    ASSUME NEW z, PagesInv(z), Pages(z)!AskAgain
    PROVE  PagesInv(z)'
<1>1. /\ pc = "raised" /\ pc' = "ready"
      /\ start' = start /\ prepared' = prepared /\ server' = server /\ heap' = heap /\ source' = source
      /\ first' = first /\ out' = out /\ arrived' = arrived /\ failed' = failed
  BY DEF Pages!AskAgain
<1>2. MergeInv(z)
  BY DEF PagesInv
<1>3. MergeInv(z)' /\ \A s \in DOMAIN start : \A x : Holds(s, x)' <=> Holds(s, x)
  BY <1>1, <1>2 DEF MergeInv, Holds, Lossless
<1> QED BY <1>1, <1>3, SourcesStay

(* What the heap has: an item of each source that has not ended. *)
LEMMA HeapIs ==
    ASSUME NEW z, PagesInv(z), heap # {}
    PROVE  /\ prepared /\ pc # "complete" /\ heap \in SUBSET (ItemIds \X DOMAIN start)
           /\ \A a \in heap : a[1] \in ItemIds /\ a[2] \in DOMAIN start /\ a = <<a[1], a[2]>>
                              /\ Has(server[a[2]], a[1]) /\ a[1] <= z.latest + arrived
           /\ \A a, b \in heap : a[1] = b[1] => a = b
<1>1. /\ ServerInv(z) /\ MergeInv(z) /\ prepared /\ pc # "complete"
      /\ heap \in SUBSET (ItemIds \X DOMAIN start)
  BY DEF PagesInv, MergeInv
<1>2. ASSUME NEW a \in heap
      PROVE  /\ a[1] \in ItemIds /\ a[2] \in DOMAIN start /\ a = <<a[1], a[2]>>
             /\ Has(server[a[2]], a[1]) /\ a[1] <= z.latest + arrived
  <2>1. a[1] \in ItemIds /\ a[2] \in DOMAIN start /\ a = <<a[1], a[2]>>
    BY <1>1
  <2> DEFINE s == a[2]
             x == a[1]
  <2>2. Holds(s, x) /\ s \in DOMAIN start
    BY <1>1, <2>1 DEF Holds
  <2> HIDE DEF s, x
  <2>3. SourceInv(z, s)
    BY <2>2 DEF PagesInv
  <2>4. PICK lo \in 0 .. Len(server[s]), hi \in 0 .. Len(server[s]) : Given(z, s, lo, hi)
    BY <2>3 DEF SourceInv
  <2>5. lo < hi /\ x = server[s][lo + 1] /\ Len(server[s]) \in Nat /\ DOMAIN server[s] = 1 .. Len(server[s])
    BY <1>1, <2>2, <2>4, ListOf DEF Given
  <2>6. lo + 1 \in DOMAIN server[s]
    BY <2>5
  <2>7. Has(server[s], x) /\ x <= z.latest + arrived
    BY <1>1, <2>2, <2>5, <2>6 DEF Has, ServerInv
  <2> QED BY <2>1, <2>7 DEF s, x
<1>3. ASSUME NEW a \in heap, NEW b \in heap, a[1] = b[1] PROVE a = b
  <2>1. a[2] = b[2]
    BY <1>1, <1>2, <1>3 DEF ServerInv
  <2> QED BY <1>2, <1>3, <2>1
<1> QED BY <1>1, <1>2, <1>3

(* The top of the heap exists, and is the newest where the key says so. *)
LEMMA TopIs ==
    ASSUME NEW z, PagesSetting(z), PagesInv(z), heap # {}, NEW a, a = Pages(z)!Top
    PROVE  a \in heap /\ (z.newest => \A b \in heap : b # a => b[1] < a[1])
<1>1. /\ \A b \in heap : b[1] \in Nat /\ b[1] <= z.latest + arrived
      /\ \A b, c \in heap : b[1] = c[1] => b = c
  BY HeapIs DEF ItemIds
<1>2. z.latest + arrived \in Nat /\ z.newest \in BOOLEAN
  BY DEF PagesInv, ServerInv, PagesSetting
<1> DEFINE m == z.latest + arrived
<1>3. m \in Nat /\ \A b \in heap : b[1] <= m
  BY <1>1, <1>2
<1> HIDE DEF m
<1>4. ASSUME NEW b, NEW c PROVE Pages(z)!Less(b, c) <=>
          (IF z.newest THEN b[1] > c[1] ELSE b[1] < c[1]) \/ (b[1] = c[1] /\ b[2] < c[2])
  BY DEF Pages!Less
<1>5. \E b \in heap : \A c \in heap \ {b} : Pages(z)!Less(b, c)
  <2>1. CASE z.newest
    <3> DEFINE T == {m - b[1] : b \in heap}
    <3>1. T \in SUBSET Nat /\ T # {}
      BY <1>1, <1>3
    <3>2. PICK n \in T : \A k \in T : n <= k
      BY <3>1, LeastNat
    <3>3. PICK b \in heap : n = m - b[1]
      BY <3>2
    <3>4. ASSUME NEW c \in heap \ {b} PROVE b[1] > c[1]
      <4>1. n <= m - c[1]
        BY <3>2
      <4>2. b[1] # c[1] /\ b[1] \in Nat /\ c[1] \in Nat
        BY <1>1, <3>4
      <4> QED BY <1>3, <3>3, <4>1, <4>2
    <3> QED BY <1>4, <2>1, <3>4
  <2>2. CASE ~z.newest
    <3> DEFINE T == {b[1] : b \in heap}
    <3>1. T \in SUBSET Nat /\ T # {}
      BY <1>1
    <3>2. PICK n \in T : \A k \in T : n <= k
      BY <3>1, LeastNat
    <3>3. PICK b \in heap : n = b[1]
      BY <3>2
    <3>4. ASSUME NEW c \in heap \ {b} PROVE b[1] < c[1]
      <4>1. n <= c[1]
        BY <3>2
      <4>2. b[1] # c[1] /\ b[1] \in Nat /\ c[1] \in Nat
        BY <1>1, <3>4
      <4> QED BY <3>3, <4>1, <4>2
    <3> QED BY <1>4, <2>2, <3>4
  <2> QED BY <2>1, <2>2
<1>6. a = CHOOSE b \in heap : \A c \in heap \ {b} : Pages(z)!Less(b, c)
  BY Zenon DEF Pages!Top
<1>7. a \in heap /\ \A c \in heap \ {a} : Pages(z)!Less(a, c)
  BY <1>5, <1>6, Zenon
<1>8. ASSUME z.newest, NEW b \in heap, b # a PROVE b[1] < a[1]
  <2>1. a[1] > b[1] \/ a[1] = b[1]
    BY <1>4, <1>7, <1>8
  <2>2. a[1] # b[1] /\ a[1] \in Nat /\ b[1] \in Nat
    BY <1>1, <1>7, <1>8
  <2> QED BY <2>1, <2>2
<1> QED BY <1>7, <1>8

LEMMA MergeKeeps ==
    ASSUME NEW z, PagesSetting(z), PagesInv(z), Pages(z)!Merge
    PROVE  PagesInv(z)'
<1>1. /\ ServerInv(z) /\ OutInv(z) /\ MergeInv(z) /\ start \in z.starts /\ failed \in Nat
  BY DEF PagesInv, ServerInv
<1>2. /\ Len(start) > 1 /\ pc = "ready" /\ prepared /\ heap # {}
      /\ start' = start /\ prepared' = prepared /\ server' = server /\ first' = first /\ arrived' = arrived
  BY DEF Pages!Merge, Pages!Merged
<1>3. PICK x \in ItemIds, s \in DOMAIN start :
      /\ <<x, s>> = Pages(z)!Top /\ <<x, s>> \in heap /\ Has(server[s], x)
      /\ \A b, c \in heap : b[1] = c[1] => b = c
      /\ \A b \in heap : b[1] \in ItemIds /\ b[2] \in DOMAIN start /\ b = <<b[1], b[2]>>
      /\ heap \in SUBSET (ItemIds \X DOMAIN start)
      /\ z.newest => \A b \in heap : b # <<x, s>> => b[1] < x
  <2> DEFINE a == Pages(z)!Top
  <2>1. a = Pages(z)!Top
    OBVIOUS
  <2> HIDE DEF a
  <2>2. a \in heap /\ (z.newest => \A b \in heap : b # a => b[1] < a[1])
    BY <1>2, <2>1, TopIs
  <2>3. /\ a[1] \in ItemIds /\ a[2] \in DOMAIN start /\ a = <<a[1], a[2]>> /\ Has(server[a[2]], a[1])
        /\ heap \in SUBSET (ItemIds \X DOMAIN start)
        /\ \A b, c \in heap : b[1] = c[1] => b = c
        /\ \A b \in heap : b[1] \in ItemIds /\ b[2] \in DOMAIN start /\ b = <<b[1], b[2]>>
    BY <1>2, <2>2, HeapIs
  <2> QED BY <2>1, <2>2, <2>3
<1>4. PICK o : /\ o \in Pages(z)!Anext(s, TRUE) /\ Asks(z, s, o)
               /\ pc' = IF o.result \in {-4, -5} THEN "raised" ELSE "ready"
               /\ out' = IF o.result \in {-4, -5} THEN out ELSE Append(out, x)
               /\ heap' = IF o.result \in {-4, -5} THEN heap
                          ELSE (heap \ {<<x, s>>}) \cup IF o.result = -3 THEN {} ELSE {<<o.result, s>>}
  <2>1. PICK o : /\ Pages(z)!Advance(s, TRUE, o)
                 /\ pc' = IF o.result \in {-4, -5} THEN "raised" ELSE "ready"
                 /\ out' = IF o.result \in {-4, -5} THEN out ELSE Append(out, x)
                 /\ heap' = IF o.result \in {-4, -5} THEN heap
                            ELSE (heap \ {<<x, s>>}) \cup IF o.result = -3 THEN {} ELSE {<<o.result, s>>}
    <3>1. Pages(z)!Top[1] = x /\ Pages(z)!Top[2] = s
      BY <1>3
    <3> QED BY <1>3, <3>1 DEF Pages!Merge, Pages!Exceptions, Pages!Raise, Pages!IndexError, Pages!Stop
  <2>2. o \in Pages(z)!Anext(s, TRUE /\ failed < Failures)
    BY <2>1 DEF Pages!Advance
  <2>3. o \in Pages(z)!Anext(s, TRUE)
    BY <2>2, Zenon DEF Pages!Anext
  <2>4. Asks(z, s, o)
    BY <1>2, <2>1 DEF Pages!Advance, Pages!Raise, Asks
  <2> QED BY <2>1, <2>3, <2>4
<1>5. PICK lo \in Nat, hi \in Nat :
              /\ Window(z, s, source[s], lo, hi) /\ Given(z, s, lo, hi) /\ lo <= hi /\ hi <= Len(server[s])
              /\ Ends(z, s, o, lo, hi) \/ (TRUE /\ Fails(z, s, o, lo, hi)) \/ Gives(z, s, o, lo, hi)
  BY <1>3, <1>4, AskedSource
<1>6. failed' \in Nat /\ failed' >= failed
  BY <1>1, <1>5 DEF Ends, Fails, Gives
<1>7. ServerInv(z)'
  BY <1>1, <1>2, <1>6, ServerStays
<1>8. /\ source'[s] = o.source /\ source' \in [DOMAIN start -> BufferedPaginators]
      /\ \A t \in DOMAIN start : t # s => source'[t] = source[t]
  <2>1. o.source \in BufferedPaginators /\ source \in [DOMAIN start -> BufferedPaginators]
    BY <1>1, <1>5 DEF Ends, Fails, Gives, Window, MergeInv
  <2> QED BY <1>3, <1>4, <2>1 DEF Asks
<1>9. \A t \in DOMAIN start : Len(server[t]) \in Nat /\ DOMAIN server[t] = 1 .. Len(server[t])
  BY <1>1, ListOf
<1>10. /\ \A t, y : Holds(t, y) <=> <<y, t>> \in heap
       /\ \A t, y : Holds(t, y)' <=> <<y, t>> \in heap'
  BY <1>2 DEF Holds
<1>11. lo < hi /\ x = server[s][lo + 1] /\ ~Has(out, x) /\ (\A y : Holds(s, y) => y = x)
  <2>1. Holds(s, x)
    BY <1>3, <1>10
  <2> QED BY <1>5, <2>1 DEF Given
<1>12. ASSUME Fails(z, s, o, lo, hi) PROVE PagesInv(z)'
  <2>1. out' = out /\ heap' = heap /\ pc' = "raised" /\ failed' = failed + 1
    BY <1>4, <1>12 DEF Fails
  <2>2. \A t, y : Holds(t, y)' <=> Holds(t, y)
    BY <1>10, <2>1
  <2>3. Lossless(z)' => Lossless(z)
    BY <1>1, <1>2, <2>1 DEF Lossless
  <2>4. Given(z, s, lo, hi)'
    BY <1>2, <1>5, <2>1, <2>2, <2>3 DEF Given
  <2>5. SourceInv(z, s)'
    BY <1>2, <1>3, <1>8, <1>9, <1>12, <2>4, ActingSource DEF Fails
  <2>6. ASSUME NEW t \in DOMAIN start, t # s PROVE SourceInv(z, t)'
    <3>1. SourceInv(z, t) /\ SameOf(t) /\ source'[t] = source[t] /\ Len(server[t]) \in Nat
      BY <1>2, <1>8, <1>9, <2>1, <2>2, <2>6 DEF PagesInv, SameOf
    <3> QED BY <1>1, <1>2, <1>6, <3>1, KeptSource
  <2>7. OutInv(z)'
    BY <1>1, <1>2, <2>1, OutStays
  <2>8. MergeInv(z)'
    <3>1. \A t \in DOMAIN start : /\ source'[t].exhausted \/ \E y \in ItemIds : <<y, t>> \in heap
                                  /\ first[t] = -4 => z.failsEarly /\ failed' > 0
      <4>1. ASSUME NEW t \in DOMAIN start PROVE source'[t].exhausted \/ \E y \in ItemIds : <<y, t>> \in heap
        BY <1>1, <1>2, <1>3, <1>8 DEF MergeInv
      <4>2. ASSUME NEW t \in DOMAIN start, first[t] = -4 PROVE z.failsEarly /\ failed' > 0
        BY <1>1, <1>6, <4>2 DEF MergeInv
      <4> QED BY <4>1, <4>2
    <3> QED BY <1>1, <1>2, <1>8, <2>1, <3>1 DEF MergeInv
  <2> QED BY <1>2, <1>7, <2>5, <2>6, <2>7, <2>8 DEF PagesInv
<1>13. ASSUME out' = Append(out, x),
              NEW h, heap' = (heap \ {<<x, s>>}) \cup h, h \in SUBSET (ItemIds \X {s}),
              \A b \in h : b[1] < x,
              pc' = "ready", SourceInv(z, s)',
              o.source.exhausted \/ h # {}
       PROVE  PagesInv(z)'
  <2>1. ASSUME NEW i \in DOMAIN out, Has(server[s], out[i]) PROVE x < out[i]
    <3>1. PICK k \in 1 .. Len(server[s]) : server[s][k] = out[i]
      BY <1>9, <1>3, <2>1 DEF Has
    <3>2. Has(out, server[s][k])
      BY <2>1, <3>1 DEF Has
    <3>3. lo < k /\ k # lo + 1
      BY <1>3, <1>5, <1>9, <1>11, <3>2 DEF Given
    <3>4. lo + 1 < k /\ lo + 1 \in 1 .. Len(server[s])
      BY <1>3, <1>5, <1>9, <1>11, <3>3
    <3> QED BY <1>1, <1>3, <1>11, <3>1, <3>4, ListOf
  <2>2. /\ out' \in Seq(ItemIds)
        /\ \A i \in DOMAIN out' : \E t \in DOMAIN start : Has(server[t], out'[i])
        /\ Pages(z)!SourcesInOrder'
        /\ Pages(z)!NewestFirst /\ (\A i \in DOMAIN out : x < out[i]) => Pages(z)!NewestFirst'
        /\ \A y : Has(out', y) <=> Has(out, y) \/ y = x
    <3>1. /\ out \in Seq(ItemIds) /\ Pages(z)!SourcesInOrder
          /\ \A i \in DOMAIN out : \E t \in DOMAIN start : Has(server[t], out[i])
      BY <1>1 DEF OutInv
    <3> QED BY <1>1, <1>2, <1>3, <1>13, <2>1, <3>1, OutGrows
  <2>3. /\ heap' \in SUBSET (ItemIds \X DOMAIN start)
        /\ \A t \in DOMAIN start : t # s => \A y : <<y, t>> \in heap' <=> <<y, t>> \in heap
    BY <1>3, <1>13
  <2>4. ASSUME NEW t \in DOMAIN start, t # s PROVE SourceInv(z, t)'
    <3>1. ASSUME NEW k \in DOMAIN server[t] PROVE server[t][k] # x
      <4>1. Has(server[t], server[t][k])
        BY DEF Has
      <4>2. ~Has(server[t], x)
        BY <1>1, <1>3, <2>4 DEF ServerInv
      <4> QED BY <4>1, <4>2
    <3>2. SameOf(t)
      BY <1>10, <2>2, <2>3, <2>4, <3>1 DEF SameOf
    <3>3. SourceInv(z, t) /\ source'[t] = source[t] /\ Len(server[t]) \in Nat
      BY <1>8, <1>9, <2>4 DEF PagesInv
    <3> QED BY <1>1, <1>2, <1>6, <3>2, <3>3, KeptSource
  <2>5. ASSUME z.newest PROVE Pages(z)!NewestFirst' /\ \A b \in heap' : \A i \in DOMAIN out' : b[1] < out'[i]
    <3>1. Pages(z)!NewestFirst /\ \A b \in heap : \A i \in DOMAIN out : b[1] < out[i]
      BY <1>1, <2>5 DEF OutInv
    <3>2. \A i \in DOMAIN out : x < out[i]
      BY <1>3, <3>1
    <3>3. ASSUME NEW b \in heap' PROVE b[1] < x /\ b[1] \in Nat
      <4>1. CASE b \in heap
        BY <1>3, <1>13, <2>5, <3>3, <4>1 DEF ItemIds
      <4>2. CASE b \in h
        BY <1>13, <4>2 DEF ItemIds
      <4> QED BY <1>13, <3>3, <4>1, <4>2
    <3>4. ASSUME NEW b \in heap', NEW i \in DOMAIN out' PROVE b[1] < out'[i]
      <4>1. Has(out, out'[i]) \/ out'[i] = x
        BY <2>2, <3>4 DEF Has
      <4>2. x \in Nat /\ \A j \in DOMAIN out : out[j] \in Nat
        BY <1>1, <1>3 DEF ItemIds, OutInv
      <4> QED BY <3>2, <3>3, <4>1, <4>2 DEF Has
    <3> QED BY <2>2, <3>1, <3>2, <3>4
  <2>6. OutInv(z)'
    BY <1>2, <2>2, <2>5 DEF OutInv
  <2>7. MergeInv(z)'
    <3>1. ASSUME NEW t \in DOMAIN start PROVE source'[t].exhausted \/ \E y \in ItemIds : <<y, t>> \in heap'
      <4>1. CASE t = s
        BY <1>8, <1>13, <4>1, SMTT(90)
      <4>2. CASE t # s
        BY <1>1, <1>2, <1>8, <2>3, <4>2 DEF MergeInv
      <4> QED BY <4>1, <4>2
    <3>2. \A t \in DOMAIN start : first[t] = -4 => z.failsEarly /\ failed' > 0
      BY <1>1, <1>6 DEF MergeInv
    <3> QED BY <1>1, <1>2, <1>8, <1>13, <2>3, <3>1, <3>2 DEF MergeInv
  <2> QED BY <1>2, <1>7, <1>13, <2>4, <2>6, <2>7 DEF PagesInv
<1>14. Fails(z, s, o, lo, hi) \/ \A y : Has(out', y) <=> Has(out, y) \/ y = x
  <2>1. ASSUME ~Fails(z, s, o, lo, hi) PROVE \A y : Has(out', y) <=> Has(out, y) \/ y = x
    <3>1. o.result \notin {-4, -5}
      BY <1>5, <2>1 DEF Ends, Gives, ItemIds
    <3>2. out' = Append(out, x) /\ out \in Seq(ItemIds)
      BY <1>1, <1>4, <3>1 DEF OutInv
    <3>3. Grown(out, x, out')
      BY <1>3, <3>2, HasAppend, Zenon
    <3> QED BY <3>3 DEF Grown
  <2> QED BY <2>1
<1>15. ASSUME Ends(z, s, o, lo, hi) PROVE PagesInv(z)'
  <2>1. out' = Append(out, x) /\ heap' = (heap \ {<<x, s>>}) \cup {} /\ pc' = "ready" /\ o.source.exhausted
    BY <1>4, <1>15 DEF Ends
  <2>2. (\A y : Has(out', y) <=> Has(out, y) \/ y = x) /\ (Lossless(z)' => Lossless(z))
    BY <1>2, <1>14, <1>15 DEF Ends, Fails, Lossless
  <2>3. \A y : ~Holds(s, y)'
    BY <1>3, <1>10, <1>11, <2>1
  <2>4. Given(z, s, lo, hi)'
    <3>1. ASSUME NEW k \in DOMAIN server[s], server[s][k] = x PROVE k = lo + 1 /\ lo < k /\ k <= hi
      <4>1. lo + 1 \in 1 .. Len(server[s]) /\ k \in 1 .. Len(server[s])
        BY <1>3, <1>5, <1>9, <1>11
      <4>2. k = lo + 1
        BY <1>1, <1>3, <1>11, <3>1, <4>1, ListOf
      <4> QED BY <1>5, <1>11, <4>2
    <3>2. \A k \in DOMAIN server[s] : Has(out', server[s][k]) => lo < k /\ k <= hi
      BY <1>5, <2>2, <3>1 DEF Given
    <3>3. Lossless(z) => \A k \in DOMAIN server[s] : lo < k /\ k <= hi => Has(out', server[s][k])
      BY <1>5, <1>11, <2>2 DEF Given
    <3> QED BY <1>2, <2>2, <2>3, <3>2, <3>3 DEF Given
  <2>5. SourceInv(z, s)'
    BY <1>2, <1>3, <1>8, <1>9, <1>15, <2>4, ActingSource DEF Ends
  <2>6. PICK h \in SUBSET (ItemIds \X {s}) : heap' = (heap \ {<<x, s>>}) \cup h /\ \A b \in h : b[1] < x
    <3>1. {} \in SUBSET (ItemIds \X {s}) /\ \A b \in {} : b[1] < x
      OBVIOUS
    <3>2. heap' = (heap \ {<<x, s>>}) \cup {}
      BY <2>1
    <3> QED BY <3>1, <3>2
  <2> QED BY <1>13, <2>1, <2>5, <2>6, Zenon
<1>16. ASSUME Gives(z, s, o, lo, hi) PROVE PagesInv(z)'
  <2> DEFINE y == o.result
  <2>1. /\ y = server[s][lo] /\ y \in ItemIds /\ lo \in 1 .. Len(server[s]) /\ lo - 1 \in Nat
        /\ Window(z, s, o.source, lo - 1, hi) /\ Counts(z, o.source, lo - 1, hi, failed')
        /\ failed' = failed
    BY <1>16 DEF Gives
  <2>2. out' = Append(out, x) /\ heap' = (heap \ {<<x, s>>}) \cup {<<y, s>>} /\ pc' = "ready"
    BY <1>4, <2>1 DEF ItemIds
  <2> HIDE DEF y
  <2>3. (\A u : Has(out', u) <=> Has(out, u) \/ u = x) /\ (Lossless(z)' => Lossless(z))
    BY <1>1, <1>2, <1>14, <2>1 DEF Fails, Lossless
  <2>4. \A u : Holds(s, u)' <=> u = y
    <3>1. \A u : <<u, s>> \in heap => u = x
      BY <1>10, <1>11
    <3>2. \A u : <<u, s>> \in heap' <=> (<<u, s>> \in heap /\ u # x) \/ u = y
      BY <2>2
    <3>3. \A u : Holds(s, u)' <=> <<u, s>> \in heap'
      BY <1>10
    <3>4. ASSUME NEW u PROVE Holds(s, u)' <=> u = y
      <4>1. Holds(s, u)' <=> <<u, s>> \in heap'
        BY <3>3
      <4>2. <<u, s>> \in heap' <=> u = y
        BY <3>1, <3>2
      <4> QED BY <4>1, <4>2
    <3> QED BY <3>4
  <2>5. lo + 1 \in 1 .. Len(server[s])
    BY <1>3, <1>5, <1>9, <1>11
  <2>6. ASSUME NEW k \in DOMAIN server[s] PROVE (server[s][k] = x => k = lo + 1) /\ (server[s][k] = y => k = lo)
    BY <1>1, <1>3, <1>9, <1>11, <2>1, <2>5, ListOf, SMTT(120)
  <2>7. y < x
    BY <1>1, <1>3, <1>11, <2>1, <2>5, ListOf
  <2>8. Given(z, s, lo - 1, hi)'
    <3>1. ASSUME NEW k \in DOMAIN server[s], Has(out', server[s][k]) PROVE lo < k /\ k <= hi
      <4>1. CASE Has(out, server[s][k])
        BY <1>5, <4>1 DEF Given
      <4>2. CASE server[s][k] = x
        BY <1>5, <1>11, <2>6, <4>2
      <4> QED BY <2>3, <3>1, <4>1, <4>2
    <3>2. ~Has(out', y)
      <4>1. lo \in DOMAIN server[s] /\ ~(lo < lo)
        BY <1>3, <1>9, <2>1
      <4> QED BY <2>1, <3>1, <4>1
    <3>3. lo - 1 < hi /\ (lo - 1) + 1 = lo
      BY <1>5, <2>1
    <3>4. ASSUME Lossless(z), NEW k \in DOMAIN server[s], lo - 1 < k, k <= hi
          PROVE  Has(out', server[s][k]) \/ server[s][k] = y
      <4>1. CASE k = lo
        BY <2>1, <4>1
      <4>2. CASE k # lo
        <5>1. lo < k
          BY <1>3, <1>9, <2>1, <3>4, <4>2
        <5> QED BY <1>5, <1>11, <2>3, <3>4, <5>1 DEF Given
      <4> QED BY <4>1, <4>2
    <3>5. ASSUME NEW k \in DOMAIN server[s], lo < k PROVE lo - 1 < k
      BY <1>3, <1>9, <2>1, <3>5
    <3> QED BY <1>2, <2>1, <2>3, <2>4, <3>1, <3>2, <3>3, <3>4, <3>5 DEF Given
  <2>9. SourceInv(z, s)'
    BY <1>2, <1>3, <1>8, <1>9, <2>1, <2>8, ActingSource
  <2>10. {<<y, s>>} \in SUBSET (ItemIds \X {s}) /\ (\A b \in {<<y, s>>} : b[1] < x) /\ {<<y, s>>} # {}
    BY <2>1, <2>7
  <2> QED BY <1>13, <2>2, <2>9, <2>10, Zenon
<1> QED BY <1>5, <1>12, <1>15, <1>16

(* An item arrives at the list s, behind all others. *)
LEMMA OtherList ==
    ASSUME NEW z, NEW t, SourceInv(z, t), server'[t] = server[t], start' = start, source' = source,
           failed' = failed, SameOf(t)
    PROVE  SourceInv(z, t)'
<1>1. PICK lo \in 0 .. Len(server[t]), hi \in 0 .. Len(server[t]) :
        Window(z, t, source[t], lo, hi) /\ Counts(z, source[t], lo, hi, failed) /\ Given(z, t, lo, hi)
  BY DEF SourceInv
<1>2. Window(z, t, source[t], lo, hi)'
  BY <1>1 DEF Window, CursorOf, Ahead, Pages!Rest
<1>3. Counts(z, source[t], lo, hi, failed)'
  BY <1>1 DEF Counts
<1>4. Given(z, t, lo, hi)'
  BY <1>1 DEF Given, SameOf, Lossless
<1> QED BY <1>1, <1>2, <1>3, <1>4 DEF SourceInv

LEMMA ListGrows ==
    ASSUME NEW z, NEW s, NEW p, NEW id, NEW lo, NEW hi, z.kind # "paged", Window(z, s, p, lo, hi),
           server[s] \in Seq(ItemIds), Ascends(server[s]), Ascends(server'[s]), start' = start,
           Grown(server[s], id, server'[s]), source'[s] = p, NEW n, n = Len(server[s])
    PROVE  /\ p.at = 0 => Window(z, s, source[s], n + 1, n + 1)'
           /\ p.at # 0 => Window(z, s, source[s], lo, hi)'
<1>1. /\ n \in Nat /\ Len(server'[s]) = n + 1 /\ server'[s] \in Seq(ItemIds)
      /\ \A i \in 1 .. n : server'[s][i] = server[s][i]
      /\ \A y : Has(server[s], y) => Has(server'[s], y)
      /\ DOMAIN server[s] = 1 .. n
  BY DEF Grown
<1>2. /\ p \in BufferedPaginators /\ CursorOf(z, s, p)
      /\ lo \in Nat /\ hi \in Nat /\ lo <= hi /\ hi <= n /\ Len(start[s]) <= hi
      /\ p.at = 0 => p.buffer = <<>> /\ lo = n
      /\ ~p.exhausted => lo = Ahead(z, s, p) + Len(p.buffer)
      /\ \A i \in 1 .. Len(p.buffer) : i <= lo /\ p.buffer[i] = server[s][lo + 1 - i]
      /\ p.exhausted => p.buffer = <<>>
      /\ p.exhausted /\ z.limit = 0 => lo = 0 /\ (z.kind # "paged" => p.at = -1)
  BY DEF Window
<1>3. CursorOf(z, s, source[s])'
  BY <1>1, <1>2 DEF CursorOf
<1>4. ASSUME p.at = 0 PROVE Window(z, s, source[s], n + 1, n + 1)'
  <2>1. Ahead(z, s, source[s])' = n + 1
    BY <1>1, <1>4 DEF Ahead, Pages!Rest
  <2>2. Len(p.buffer) = 0 /\ \A i \in 1 .. Len(p.buffer) : FALSE
    BY <1>2, <1>4
  <2>3. n + 1 \in Nat /\ n + 1 <= n + 1 /\ Len(start[s]) <= n + 1 /\ n + 1 = n + 1 + 0
    <3>1. Len(start[s]) <= hi /\ hi <= n /\ hi \in Nat
      BY <1>2
    <3>2. Len(start[s]) <= n
      BY <1>2, <1>4
    <3> QED BY <1>1, <3>1, <3>2
  <2>4. ~(p.exhausted /\ z.limit = 0)
    BY <1>2, <1>4
  <2> QED BY <1>1, <1>2, <1>3, <1>4, <2>1, <2>2, <2>3, <2>4 DEF Window
<1>5. ASSUME p.at # 0 PROVE Window(z, s, source[s], lo, hi)'
  <2>1. Ahead(z, s, source[s])' = Ahead(z, s, p)
    <3>1. CASE p.at = -1
      BY <3>1 DEF Ahead
    <3>2. CASE p.at # -1
      <4>1. PICK k \in 1 .. n : server[s][k] = p.at
        BY <1>1, <1>2, <1>5, <3>2 DEF CursorOf, Has
      <4>2. k \in 1 .. n + 1 /\ server'[s][k] = p.at
        BY <1>1, <4>1
      <4>3. Older(server[s], p.at) = k - 1 /\ Older(server'[s], p.at) = k - 1
        BY <1>1, <4>1, <4>2, OlderIs
      <4>4. Pages(z)!Rest(s, p.at) = Older(server[s], p.at) /\ Pages(z)!Rest(s, p.at)' = Older(server'[s], p.at)
        BY <1>5, RestOfCursor
      <4> QED BY <3>2, <4>3, <4>4 DEF Ahead
    <3> QED BY <3>1, <3>2
  <2>2. ASSUME NEW i \in 1 .. Len(p.buffer) PROVE i <= lo /\ p.buffer[i] = server'[s][lo + 1 - i]
    <3>1. i <= lo /\ i \in Nat /\ i >= 1
      BY <1>2, <2>2 DEF BufferedPaginators
    <3>2. lo + 1 - i \in 1 .. n
      BY <1>1, <1>2, <3>1
    <3> QED BY <1>1, <1>2, <2>2, <3>1, <3>2
  <2>3. hi <= n + 1
    BY <1>1, <1>2
  <2> QED BY <1>1, <1>2, <1>3, <1>5, <2>1, <2>2, <2>3 DEF Window
<1> QED BY <1>4, <1>5

LEMMA ItemArrives ==
    ASSUME NEW z, PagesSetting(z), PagesInv(z), NEW s \in DOMAIN start, Pages(z)!Arrive(s)
    PROVE  PagesInv(z)'
<1>1. /\ ServerInv(z) /\ OutInv(z) /\ MergeInv(z) /\ start \in z.starts /\ failed \in Nat
      /\ arrived \in Nat /\ z.latest \in Nat /\ z.arrivals \in Nat
  BY DEF PagesInv, ServerInv, PagesSetting
<1> DEFINE id == z.latest + arrived + 1
<1>2. /\ arrived < z.arrivals /\ arrived' = arrived + 1 /\ start' = start /\ prepared' = prepared
      /\ source' = source /\ heap' = heap /\ first' = first /\ out' = out /\ pc' = pc /\ failed' = failed
      /\ server' = [server EXCEPT ![s] = Append(server[s], id)]
  BY DEF Pages!Arrive
<1>3. z.kind # "paged"
  BY <1>1, <1>2 DEF PagesSetting
<1>4. /\ server \in [DOMAIN start -> Seq(ItemIds)]
      /\ \A t \in DOMAIN start : /\ server[t] \in Seq(ItemIds) /\ Ascends(server[t])
                                 /\ Len(server[t]) \in Nat /\ DOMAIN server[t] = 1 .. Len(server[t])
                                 /\ \A k \in DOMAIN server[t] : server[t][k] \in Nat /\ server[t][k] < id
  <2>1. \A t \in DOMAIN start : \A k \in DOMAIN server[t] :
           server[t][k] \in Nat /\ server[t][k] <= z.latest + arrived
    <3>1. ASSUME NEW t \in DOMAIN start, NEW k \in DOMAIN server[t]
          PROVE  server[t][k] \in Nat /\ server[t][k] <= z.latest + arrived
      <4>1. server[t][k] <= z.latest + arrived
        BY <1>1 DEF ServerInv
      <4>2. server[t][k] \in Nat
        BY <1>1, ListOf
      <4> QED BY <4>1, <4>2
    <3> QED BY <3>1
  <2> QED BY <1>1, <2>1, ListOf DEF ServerInv
<1>5. PICK x : x = id
  OBVIOUS
<1>6. x \in ItemIds /\ x \in Nat /\ x <= z.latest + (arrived + 1)
  BY <1>1, <1>5 DEF ItemIds
<1>7. \A t \in DOMAIN start : \A k \in DOMAIN server[t] : server[t][k] \in Nat /\ server[t][k] < x
  BY <1>4, <1>5
<1>8. /\ server'[s] = Append(server[s], x) /\ DOMAIN server' = DOMAIN start
      /\ \A t \in DOMAIN start : t # s => server'[t] = server[t]
  BY <1>2, <1>4, <1>5
<1> HIDE DEF id
<1>9. Grown(server[s], x, server'[s])
  BY <1>4, <1>6, <1>8, HasAppend, Zenon
<1>10. PICK n : n = Len(server[s])
  OBVIOUS
<1>11. /\ n \in Nat /\ DOMAIN server[s] = 1 .. n /\ DOMAIN server'[s] = 1 .. n + 1 /\ Len(server'[s]) = n + 1
       /\ server'[s][n + 1] = x /\ server'[s] \in Seq(ItemIds)
       /\ \A i \in 1 .. n : server'[s][i] = server[s][i]
       /\ \A y : Has(server'[s], y) <=> Has(server[s], y) \/ y = x
       /\ \A i \in 1 .. n + 1 : i = n + 1 \/ i \in 1 .. n
  <2>1. n \in Nat
    BY <1>4, <1>10
  <2>2. \A i \in 1 .. n + 1 : i = n + 1 \/ i \in 1 .. n
    BY <2>1
  <2> QED BY <1>9, <1>10, <2>1, <2>2 DEF Grown
<1>12. Ascends(server'[s])
  <2>1. ASSUME NEW i \in 1 .. n + 1, NEW j \in 1 .. n + 1, i < j PROVE server'[s][i] < server'[s][j]
    <3>1. i \in 1 .. n
      BY <1>11, <2>1
    <3>2. CASE j = n + 1
      BY <1>7, <1>11, <3>1, <3>2
    <3>3. CASE j \in 1 .. n
      BY <1>4, <1>11, <2>1, <3>1, <3>3 DEF Ascends
    <3> QED BY <1>11, <3>2, <3>3
  <2> QED BY <1>11, <2>1 DEF Ascends
<1>13. \A t \in DOMAIN start : ~Has(server[t], x)
  BY <1>6, <1>7 DEF Has
<1>14. ~Has(out, x)
  <2>1. ASSUME NEW i \in DOMAIN out PROVE out[i] # x
    BY <1>1, <1>13 DEF OutInv
  <2> QED BY <2>1 DEF Has
<1>15. \A t \in DOMAIN start : \A y : Has(server'[t], y) <=> Has(server[t], y) \/ (t = s /\ y = x)
  BY <1>8, <1>11
<1>16. ServerInv(z)'
  <2>1. server' \in [DOMAIN start -> Seq(ItemIds)]
    <3>1. \A t \in DOMAIN start : server'[t] \in Seq(ItemIds)
      BY <1>4, <1>8, <1>11
    <3> QED BY <1>2, <1>4, <1>11, <3>1, <1>8
  <2>2. ASSUME NEW t \in DOMAIN start
        PROVE  /\ Ascends(server'[t])
               /\ \A k \in DOMAIN server'[t] : server'[t][k] <= z.latest + (arrived + 1)
               /\ \A k \in DOMAIN start[t] : k \in DOMAIN server'[t] /\ server'[t][k] = start[t][k]
    <3>1. /\ \A k \in DOMAIN server[t] : server[t][k] \in Nat /\ server[t][k] <= z.latest + (arrived + 1)
          /\ \A k \in DOMAIN start[t] : k \in DOMAIN server[t] /\ server[t][k] = start[t][k]
      BY <1>1, <1>4, ListOf, SMTT(40) DEF ServerInv
    <3>2. CASE t # s
      BY <1>4, <1>8, <3>1, <3>2
    <3>3. CASE t = s
      <4>1. \A k \in 1 .. n + 1 : server'[s][k] <= z.latest + (arrived + 1)
        <5>1. \A k \in 1 .. n : server'[s][k] <= z.latest + (arrived + 1)
          BY <1>11, <3>1, <3>3
        <5> QED BY <1>6, <1>11, <5>1
      <4>2. \A k \in DOMAIN start[s] : k \in 1 .. n + 1 /\ server'[s][k] = start[s][k]
        BY <1>11, <3>1, <3>3
      <4> QED BY <1>11, <1>12, <3>3, <4>1, <4>2
    <3> QED BY <3>2, <3>3
  <2>3. ASSUME NEW t \in DOMAIN start, NEW u \in DOMAIN start, NEW y, Has(server'[t], y), Has(server'[u], y)
        PROVE  t = u
    <3>1. /\ Has(server[t], y) \/ (t = s /\ y = x)
          /\ Has(server[u], y) \/ (u = s /\ y = x)
      BY <1>15, <2>3
    <3>2. CASE y = x
      BY <1>13, <3>1, <3>2
    <3>3. CASE y # x
      BY <1>1, <3>1, <3>3 DEF ServerInv
    <3> QED BY <3>2, <3>3
  <2>4. arrived' \in Nat /\ arrived' # 0
    BY <1>1, <1>2
  <2> QED BY <1>1, <1>2, <2>1, <2>2, <2>3, <2>4, ZenonT(90) DEF ServerInv
<1>17. \A t \in DOMAIN start : \A y : Has(out, y) => (Has(server'[t], y) <=> Has(server[t], y))
  BY <1>14, <1>15
<1>18. OutInv(z)'
  <2>1. ASSUME NEW t \in DOMAIN start PROVE Pages(z)!From(t)' = Pages(z)!From(t)
    <3>1. \A i \in DOMAIN out : Has(out, out[i])
      BY DEF Has
    <3>2. \A i \in DOMAIN out : (\E k \in DOMAIN server'[t] : out[i] = server'[t][k])
                                 <=> \E k \in DOMAIN server[t] : out[i] = server[t][k]
      BY <1>17, <3>1 DEF Has
    <3> QED BY <1>2, <3>2 DEF Pages!From
  <2>2. Pages(z)!SourcesInOrder'
    BY <1>1, <1>2, <2>1 DEF OutInv, Pages!SourcesInOrder, Pages!Sources
  <2>3. \A i \in DOMAIN out : \E t \in DOMAIN start : Has(server'[t], out[i])
    BY <1>1, <1>15 DEF OutInv
  <2> QED BY <1>1, <1>2, <2>2, <2>3 DEF OutInv, Pages!NewestFirst
<1>19. MergeInv(z)' /\ \A t \in DOMAIN start : \A y : Holds(t, y)' <=> Holds(t, y)
  BY <1>1, <1>2 DEF MergeInv, Holds, Lossless
<1>20. ASSUME NEW t \in DOMAIN start, t # s PROVE SourceInv(z, t)'
  BY <1>2, <1>8, <1>19, <1>20, OtherList DEF PagesInv, SameOf
<1>21. SourceInv(z, s)'
  <2>1. PICK lo \in 0 .. Len(server[s]), hi \in 0 .. Len(server[s]) :
          Window(z, s, source[s], lo, hi) /\ Counts(z, source[s], lo, hi, failed) /\ Given(z, s, lo, hi)
    BY DEF PagesInv, SourceInv
  <2> DEFINE p == source[s]
  <2>2. /\ p.at = 0 => Window(z, s, source[s], n + 1, n + 1)'
        /\ p.at # 0 => Window(z, s, source[s], lo, hi)'
    <3>1. PICK q : q = p
      OBVIOUS
    <3> QED BY <1>2, <1>3, <1>4, <1>9, <1>12, <1>10, <2>1, <3>1, ListGrows
  <2>3. /\ lo \in Nat /\ hi \in Nat /\ lo <= hi /\ hi <= n
        /\ p.at = 0 => lo = n
        /\ p.exhausted /\ z.limit = 0 => p.at # 0
    BY <1>3, <1>10, <2>1 DEF Window
  <2>4. Lossless(z)' <=> Lossless(z)
    BY <1>2 DEF Lossless
  <2>5. CASE p.at = 0
    <3>1. lo = n /\ hi = n /\ hi - lo = 0
      BY <1>11, <2>3, <2>5
    <3>2. Counts(z, source[s], n + 1, n + 1, failed)'
      <4>1. z.limit > 0 => 0 <= p.counter /\ 0 <= z.limit /\ (failed = 0 => ~p.exhausted /\ p.counter = 0)
        BY <2>1, <2>5, <3>1 DEF Counts
      <4>2. (n + 1) - (n + 1) = 0
        BY <1>11
      <4> QED BY <1>2, <4>1, <4>2 DEF Counts
    <3>3. ASSUME NEW k \in 1 .. n + 1 PROVE ~Has(out, server'[s][k])
      <4>1. CASE k = n + 1
        BY <1>11, <1>14, <4>1
      <4>2. CASE k \in 1 .. n
        BY <1>11, <2>1, <3>1, <4>2 DEF Given
      <4> QED BY <1>11, <4>1, <4>2
    <3>4. \A y : ~Holds(s, y)'
      <4>1. ~(lo < hi)
        BY <1>11, <3>1
      <4> QED BY <1>19, <2>1, <4>1 DEF Given
    <3>5. \A k \in 1 .. n + 1 : ~(n + 1 < k /\ k <= n + 1)
      BY <1>11
    <3>6. Given(z, s, n + 1, n + 1)'
      BY <1>2, <1>11, <3>3, <3>4, <3>5 DEF Given
    <3>7. n + 1 \in 0 .. n + 1
      BY <1>11
    <3> QED BY <1>11, <2>2, <2>5, <3>2, <3>6, <3>7 DEF SourceInv
  <2>6. CASE p.at # 0
    <3>1. Counts(z, source[s], lo, hi, failed)'
      BY <1>2, <2>1 DEF Counts
    <3>2. ASSUME NEW k \in 1 .. n + 1, Has(out, server'[s][k]) PROVE lo < k /\ k <= hi
      <4>1. k \in 1 .. n
        BY <1>11, <1>14, <3>2
      <4> QED BY <1>11, <2>1, <3>2, <4>1 DEF Given
    <3>3. ASSUME NEW y, Holds(s, y)' PROVE lo < hi /\ y = server'[s][lo + 1] /\ ~Has(out, y)
      <4>1. lo < hi /\ y = server[s][lo + 1] /\ ~Has(out, y)
        BY <1>19, <2>1, <3>3 DEF Given
      <4>2. lo + 1 \in 1 .. n
        BY <1>11, <2>3, <4>1
      <4> QED BY <1>11, <4>1, <4>2
    <3>4. ASSUME Lossless(z), NEW k \in 1 .. n + 1, lo < k, k <= hi
          PROVE  Has(out, server'[s][k]) \/ Holds(s, server'[s][k])
      <4>1. k \in 1 .. n
        BY <1>11, <2>3, <3>4
      <4> QED BY <1>11, <2>1, <3>4, <4>1 DEF Given
    <3>5. \A y : Holds(s, y) => Holds(s, y)'
      BY <1>19
    <3>6. Given(z, s, lo, hi)'
      <4>1. ASSUME Lossless(z), NEW k \in 1 .. n + 1, lo < k, k <= hi
            PROVE  Has(out, server'[s][k]) \/ Holds(s, server[s][k])'
        BY <1>2, <1>11, <3>4, <3>5, <4>1 DEF Holds
      <4> QED BY <1>2, <1>11, <2>4, <3>2, <3>3, <4>1 DEF Given
    <3>7. lo \in 0 .. n + 1 /\ hi \in 0 .. n + 1
      BY <1>11, <2>3
    <3> QED BY <1>11, <2>2, <2>6, <3>1, <3>6, <3>7 DEF SourceInv
  <2> QED BY <2>5, <2>6
<1> QED BY <1>2, <1>16, <1>18, <1>19, <1>20, <1>21 DEF PagesInv

LEMMA PagesSteps ==
    ASSUME NEW z, PagesSetting(z), PagesInv(z), Pages(z)!Next \/ UNCHANGED pages
    PROVE  PagesInv(z)'
<1>1. CASE UNCHANGED pages
  <2>1. /\ start' = start /\ prepared' = prepared /\ server' = server /\ heap' = heap /\ source' = source
        /\ first' = first /\ out' = out /\ pc' = pc /\ arrived' = arrived /\ failed' = failed
    BY <1>1 DEF pages
  <2>2. MergeInv(z)
    BY DEF PagesInv
  <2>3. MergeInv(z)' /\ \A s \in DOMAIN start : \A x : Holds(s, x)' <=> Holds(s, x)
    BY <2>1, <2>2 DEF MergeInv, Holds, Lossless
  <2> QED BY <2>1, <2>3, SourcesStay
<1>2. ASSUME NEW s \in DOMAIN start, Pages(z)!First(s) PROVE PagesInv(z)'
  BY <1>2, FirstKeeps
<1>3. ASSUME NEW s \in DOMAIN start, Pages(z)!Arrive(s) PROVE PagesInv(z)'
  BY <1>3, ItemArrives
<1> QED BY <1>1, <1>2, <1>3, DirectKeeps, PrepareKeeps, PreparedKeeps, MergeKeeps, ExhaustedKeeps, AskAgainKeeps
     DEF Pages!Next, Pages!Take_next, Pages!Sources

LEMMA PagesStart ==
    ASSUME NEW z, PagesSetting(z), Pages(z)!Init
    PROVE  PagesInv(z)
<1>1. /\ start \in z.starts /\ server = start /\ prepared = FALSE /\ heap = {} /\ out = <<>> /\ pc = "ready"
      /\ arrived = 0 /\ failed = 0 /\ first = [s \in DOMAIN start |-> -2]
      /\ source = [s \in DOMAIN start |->
            [at |-> IF z.kind = "paged" THEN 1 ELSE 0, buffer |-> <<>>, size |-> z.known, counter |-> 0, exhausted |-> FALSE]]
  BY DEF Pages!Init, Pages!Sources, Pages!FirstCursor, Pages!Pending
<1>2. /\ Len(start) \in Nat \ {0} /\ start \in [DOMAIN start -> Seq(ItemIds)]
      /\ \A s \in DOMAIN start : Ascends(start[s]) /\ \A k \in DOMAIN start[s] : start[s][k] <= z.latest
      /\ \A s, t \in DOMAIN start : \A x : Has(start[s], x) /\ Has(start[t], x) => s = t
      /\ z.latest \in Nat /\ z.limit \in Nat /\ z.known \in {PageSize, -1}
      /\ Len(start) > 1 => z.known = PageSize
  BY <1>1 DEF PagesSetting
<1>3. PageSize \in Nat /\ PageSize # 0
  BY PagesAssumption
<1>4. \A s \in DOMAIN start : start[s] \in Seq(ItemIds) /\ Len(start[s]) \in Nat
  BY <1>2
<1>5. ServerInv(z)
  BY <1>1, <1>2, <1>4 DEF ServerInv
<1>6. DOMAIN out = {}
  BY <1>1
<1>7. OutInv(z)
  BY <1>1, <1>6 DEF OutInv, Pages!SourcesInOrder, Pages!NewestFirst, Pages!Sources, Pages!From
<1>8. ASSUME NEW s \in DOMAIN start
      PROVE  /\ source[s] \in BufferedPaginators /\ source[s].at = (IF z.kind = "paged" THEN 1 ELSE 0)
             /\ source[s].buffer = <<>> /\ source[s].size = z.known /\ source[s].counter = 0
             /\ ~source[s].exhausted
  <2>1. <<>> \in Seq(ItemIds)
    OBVIOUS
  <2> QED BY <1>1, <1>2, <1>3, <2>1 DEF BufferedPaginators
<1>9. MergeInv(z)
  <2>1. source \in [DOMAIN start -> BufferedPaginators] /\ first \in [DOMAIN start -> Firsts]
    BY <1>1, <1>8 DEF Firsts
  <2>2. \A s \in DOMAIN start : first[s] = -2
    BY <1>1
  <2>3. pc = "ready" /\ heap = {} /\ out = <<>> /\ heap \in SUBSET (ItemIds \X DOMAIN start)
    <3>1. pc = "ready" /\ heap = {} /\ out = <<>>
      BY <1>1
    <3> QED BY <3>1
  <2>4. Len(start) > 1 => z.known = PageSize
    BY <1>2
  <2>5. ~prepared /\ prepared \in BOOLEAN
    BY <1>1
  <2>6. \A s \in DOMAIN start : first[s] # -3 /\ first[s] # -4
    BY <2>2
  <2> QED BY <2>1, <2>2, <2>3, <2>4, <2>5, <2>6 DEF MergeInv
<1>10. ASSUME NEW s \in DOMAIN start PROVE SourceInv(z, s)
  <2> DEFINE n == Len(server[s])
             p == source[s]
  <2>1. n \in Nat /\ n = Len(start[s])
    BY <1>1, <1>4
  <2>2. CursorOf(z, s, p)
    BY <1>2, <1>3, <1>8 DEF CursorOf
  <2>3. Ahead(z, s, p) = n
    <3>1. (1 - 1) * PageSize = 0
      BY <1>3
    <3>2. CASE z.kind = "paged"
      <4>1. Pages(z)!Rest(s, 1) = IF n - (1 - 1) * PageSize > 0 THEN n - (1 - 1) * PageSize ELSE 0
        BY <3>2 DEF Pages!Rest
      <4>2. Pages(z)!Rest(s, 1) = n
        BY <2>1, <3>1, <4>1
      <4> QED BY <1>8, <3>2, <4>2 DEF Ahead
    <3>3. CASE z.kind # "paged"
      BY <1>8, <3>3 DEF Ahead, Pages!Rest
    <3> QED BY <3>2, <3>3
  <2>4. Len(p.buffer) = 0 /\ (\A i \in 1 .. Len(p.buffer) : FALSE) /\ n = n + 0 /\ n - n = 0 /\ n \in 0 .. n
    BY <1>8, <2>1
  <2> HIDE DEF n
  <2>5. Window(z, s, p, n, n)
    BY <1>8, <2>1, <2>2, <2>3, <2>4 DEF Window, n
  <2>6. Counts(z, p, n, n, failed)
    BY <1>2, <1>8, <2>4 DEF Counts
  <2>7. \A x : ~Holds(s, x) /\ ~Has(out, x)
    BY <1>1, <1>6 DEF Holds, Has
  <2>8. Given(z, s, n, n)
    <3>1. ASSUME NEW k \in DOMAIN server[s] PROVE ~(n < k /\ k <= n)
      BY <1>5, <2>1, ListOf
    <3> QED BY <2>7, <3>1 DEF Given
  <2> QED BY <2>4, <2>5, <2>6, <2>8 DEF SourceInv, n
<1> QED BY <1>5, <1>7, <1>9, <1>10 DEF PagesInv

(* What the invariant says of the items that the caller got. *)
LEMMA OnlyOnce ==
    ASSUME NEW z, OutInv(z), NEW i \in DOMAIN out, NEW j \in DOMAIN out, out[i] = out[j]
    PROVE  i = j
<1>1. PICK s \in DOMAIN start : Has(server[s], out[i])
  BY DEF OutInv
<1>2. i \in Pages(z)!From(s) /\ j \in Pages(z)!From(s)
  BY <1>1 DEF Pages!From, Has
<1>3. \A k, l \in Pages(z)!From(s) : k < l => out[k] > out[l]
  BY DEF OutInv, Pages!SourcesInOrder, Pages!Sources
<1>4. out[i] \in Nat /\ out[j] \in Nat /\ i \in Nat /\ j \in Nat
  BY DEF OutInv, ItemIds
<1>5. ~(i < j) /\ ~(j < i)
  BY <1>2, <1>3, <1>4
<1> QED BY <1>4, <1>5

LEMMA AllGiven ==
    ASSUME NEW z, PagesSetting(z), PagesInv(z), pc = "complete", NEW s \in DOMAIN start
    PROVE  \E lo, hi \in 0 .. Len(server[s]) :
              /\ lo <= hi /\ Len(start[s]) <= hi /\ source[s].exhausted
              /\ z.limit = 0 => lo = 0
              /\ Counts(z, source[s], lo, hi, failed)
              /\ \A k \in DOMAIN server[s] : Has(out, server[s][k]) => lo < k /\ k <= hi
              /\ Lossless(z) => \A k \in DOMAIN server[s] : lo < k /\ k <= hi => Has(out, server[s][k])
<1>1. SourceInv(z, s) /\ MergeInv(z)
  BY DEF PagesInv
<1>2. PICK lo \in 0 .. Len(server[s]), hi \in 0 .. Len(server[s]) :
        Window(z, s, source[s], lo, hi) /\ Counts(z, source[s], lo, hi, failed) /\ Given(z, s, lo, hi)
  BY <1>1 DEF SourceInv
<1>3. source[s].exhausted /\ \A x : ~Holds(s, x)
  <2>1. source[s].exhausted /\ heap = {}
    BY <1>1 DEF MergeInv
  <2>2. CASE prepared
    BY <2>1, <2>2 DEF Holds
  <2>3. CASE ~prepared
    <3>1. ~(Len(start) > 1) /\ (Len(start) <= 1 => first[s] = -2)
      BY <1>1, <2>3 DEF MergeInv
    <3>2. Len(start) \in Nat
      BY DEF PagesInv, ServerInv, PagesSetting
    <3> QED BY <2>1, <2>3, <3>1, <3>2 DEF Holds
  <2> QED BY <2>1, <2>2, <2>3
<1>4. lo <= hi /\ Len(start[s]) <= hi /\ (z.limit = 0 => lo = 0)
  BY <1>2, <1>3 DEF Window
<1> QED BY <1>2, <1>3, <1>4 DEF Given

LEMMA CompleteAtEnd ==
    ASSUME NEW z, PagesSetting(z), PagesInv(z), pc = "complete", z.limit = 0, Lossless(z),
           NEW s \in DOMAIN start, NEW k \in DOMAIN start[s]
    PROVE  Pages(z)!Gave(start[s][k])
<1>1. /\ k \in DOMAIN server[s] /\ server[s][k] = start[s][k]
      /\ DOMAIN start[s] = 1 .. Len(start[s]) /\ Len(start[s]) \in Nat
  BY ListOf DEF PagesInv, ServerInv
<1>2. PICK hi \in 0 .. Len(server[s]) :
          /\ Len(start[s]) <= hi
          /\ \A l \in DOMAIN server[s] : 0 < l /\ l <= hi => Has(out, server[s][l])
  BY AllGiven
<1>3. 0 < k /\ k <= hi
  BY <1>1, <1>2
<1>4. Has(out, start[s][k])
  BY <1>1, <1>2, <1>3
<1> QED BY <1>4 DEF Has, Pages!Gave

(* What is given of a source lies in its window, which the limit bounds. *)
LEMMA AtMostLimit ==
    ASSUME NEW z, PagesSetting(z), PagesInv(z), z.limit > 0, NEW s \in DOMAIN start
    PROVE  Cardinality(Pages(z)!From(s)) <= z.limit
<1>1. ServerInv(z) /\ OutInv(z) /\ SourceInv(z, s) /\ z.limit \in Nat
  BY DEF PagesInv, PagesSetting
<1>2. PICK lo \in 0 .. Len(server[s]), hi \in 0 .. Len(server[s]) :
        Window(z, s, source[s], lo, hi) /\ Counts(z, source[s], lo, hi, failed) /\ Given(z, s, lo, hi)
  BY <1>1 DEF SourceInv
<1>3. lo \in Nat /\ hi \in Nat /\ lo <= hi /\ hi - lo <= z.limit
  BY <1>2 DEF Window, Counts
<1> DEFINE F == Pages(z)!From(s)
           At(i) == CHOOSE k \in DOMAIN server[s] : out[i] = server[s][k]
           f == [i \in F |-> At(i)]
<1>4. ASSUME NEW i \in F PROVE At(i) \in DOMAIN server[s] /\ out[i] = server[s][At(i)] /\ i \in DOMAIN out
  <2>1. i \in DOMAIN out /\ \E k \in DOMAIN server[s] : out[i] = server[s][k]
    BY <1>4 DEF Pages!From
  <2> QED BY <2>1
<1> HIDE DEF At, F
<1>5. ASSUME NEW i \in F PROVE At(i) \in (lo + 1) .. hi
  <2>1. Has(out, server[s][At(i)])
    BY <1>4 DEF Has
  <2>2. lo < At(i) /\ At(i) <= hi /\ At(i) \in Nat
    BY <1>1, <1>2, <1>4, <2>1, ListOf DEF Given
  <2> QED BY <1>3, <2>2
<1>6. ASSUME NEW i \in F, NEW j \in F, At(i) = At(j) PROVE i = j
  BY <1>1, <1>4, <1>6, OnlyOnce
<1>7. f \in Injection(F, (lo + 1) .. hi)
  BY <1>5, <1>6 DEF Injection, IsInjective
<1>8. IsFiniteSet((lo + 1) .. hi) /\ Cardinality((lo + 1) .. hi) = IF lo + 1 > hi THEN 0 ELSE hi - (lo + 1) + 1
  BY <1>3, FS_Interval, SMTT(60)
<1>9. Cardinality(F) <= Cardinality((lo + 1) .. hi)
  BY <1>7, <1>8, FS_Injection
<1>10. Cardinality((lo + 1) .. hi) = hi - lo
  BY <1>3, <1>8
<1>11. IsFiniteSet(F) /\ Cardinality(F) \in Nat
  BY <1>7, <1>8, FS_Injection, FS_CardinalityType
<1>12. Cardinality(F) <= z.limit
  BY <1>1, <1>3, <1>9, <1>10, <1>11
<1> QED BY <1>12 DEF F

LEMMA NewestAtEnd ==
    ASSUME NEW z, PagesSetting(z), PagesInv(z), z.limit > 0, pc = "complete", failed = 0, arrived = 0,
           NEW s \in DOMAIN start, NEW k \in DOMAIN server[s]
    PROVE  Pages(z)!Gave(server[s][k]) <=> k > Len(server[s]) - z.limit
<1> DEFINE n == Len(server[s])
<1>1. /\ n \in Nat /\ DOMAIN server[s] = 1 .. n /\ n = Len(start[s]) /\ z.limit \in Nat /\ Lossless(z)
  BY ListOf DEF PagesInv, ServerInv, PagesSetting, Lossless
<1>2. PICK lo \in 0 .. n, hi \in 0 .. n :
          /\ lo <= hi /\ Len(start[s]) <= hi /\ source[s].exhausted /\ Counts(z, source[s], lo, hi, failed)
          /\ \A l \in DOMAIN server[s] : Has(out, server[s][l]) => lo < l /\ l <= hi
          /\ \A l \in DOMAIN server[s] : lo < l /\ l <= hi => Has(out, server[s][l])
  BY <1>1, AllGiven
<1>3. hi = n /\ hi - lo <= z.limit /\ (lo = 0 \/ hi - lo = z.limit)
  BY <1>1, <1>2 DEF Counts
<1>4. Has(out, server[s][k]) <=> lo < k
  BY <1>1, <1>2, <1>3
<1>5. lo < k <=> k > n - z.limit
  BY <1>1, <1>2, <1>3
<1> QED BY <1>4, <1>5 DEF Has, Pages!Gave

LEMMA CardinalityIs == ASSUME NEW z, NEW S PROVE Pages(z)!Cardinality(S) = Cardinality(S)
BY DEF Pages!Cardinality, Cardinality

LEMMA PagesHold ==
    ASSUME NEW z, PagesSetting(z), PagesInv(z)
    PROVE  /\ (z.limit = 0 => Lossless(z)) => Pages(z)!EachOnce
           /\ Pages(z)!SourcesInOrder /\ Pages(z)!WithinLimit
           /\ z.newest => Pages(z)!NewestFirst
<1>1. OutInv(z) /\ z.limit \in Nat
  BY DEF PagesInv, PagesSetting
<1>2. ASSUME z.limit = 0 => Lossless(z) PROVE Pages(z)!EachOnce
  BY <1>1, <1>2, OnlyOnce, CompleteAtEnd DEF Pages!EachOnce, Pages!Sources
<1>3. Pages(z)!WithinLimit
  BY <1>1, AtMostLimit, NewestAtEnd, CardinalityIs DEF Pages!WithinLimit, Pages!Sources
<1> QED BY <1>1, <1>2, <1>3 DEF OutInv

(* The settings.                                                            *)
LEMMA ListsAre ==
    ASSUME NEW l \in Lists
    PROVE  l \in Seq(ItemIds) /\ Ascends(l) /\ (\A k \in DOMAIN l : l[k] <= 4) /\ \A x : Has(l, x) => x \in 1 .. 4
<1>1. PICK n \in 0 .. 4 : l \in [1 .. n -> 1 .. 4]
  BY DEF Lists
<1>2. Ascends(l) /\ \A k \in 1 .. n : l[k] \in 1 .. 4
  BY <1>1 DEF Lists
<1>3. l \in Seq(ItemIds) /\ DOMAIN l = 1 .. n
  BY <1>1 DEF ItemIds
<1> QED BY <1>2, <1>3 DEF Has

LEMMA TwoIs ==
    ASSUME NEW w \in Two
    PROVE  /\ Len(w) = 2 /\ DOMAIN w = 1 .. 2 /\ w \in [1 .. 2 -> Seq(ItemIds)]
           /\ \A s \in 1 .. 2 : Ascends(w[s]) /\ \A k \in DOMAIN w[s] : w[s][k] <= 4
           /\ \A s, t \in 1 .. 2 : \A x : Has(w[s], x) /\ Has(w[t], x) => s = t
<1>1. PICK d \in Lists \X Lists : w = <<d[1], d[2]>> /\ \A id \in 1 .. 4 : Has(d[1], id) <=> ~Has(d[2], id)
  BY DEF Two
<1>2. d[1] \in Lists /\ d[2] \in Lists
  BY <1>1
<1>3. Len(w) = 2 /\ DOMAIN w = 1 .. 2 /\ w[1] = d[1] /\ w[2] = d[2] /\ \A s \in 1 .. 2 : s = 1 \/ s = 2
  BY <1>1
<1>4. \A s \in 1 .. 2 : w[s] \in Lists
  BY <1>2, <1>3
<1>5. w \in [1 .. 2 -> Seq(ItemIds)]
  <2>1. w = [s \in 1 .. 2 |-> w[s]]
    BY <1>1
  <2> QED BY <1>4, <2>1, ListsAre
<1>6. ASSUME NEW s \in 1 .. 2, NEW t \in 1 .. 2, NEW x, Has(w[s], x), Has(w[t], x) PROVE s = t
  <2>1. x \in 1 .. 4
    BY <1>4, <1>6, ListsAre
  <2> QED BY <1>1, <1>3, <1>6, <2>1
<1> QED BY <1>3, <1>4, <1>5, <1>6, ListsAre

LEMMA OneIs ==
    ASSUME NEW w \in One
    PROVE  /\ Len(w) = 1 /\ DOMAIN w = 1 .. 1 /\ w \in [1 .. 1 -> Seq(ItemIds)]
           /\ Ascends(w[1]) /\ \A k \in DOMAIN w[1] : w[1][k] <= 5
           /\ w[1] = <<>> => w = << <<>> >>
<1>1. PICK n \in 0 .. 5 : w = <<[i \in 1 .. n |-> i]>>
  BY DEF One
<1> DEFINE l == [i \in 1 .. n |-> i]
<1>2. l \in Seq(ItemIds) /\ DOMAIN l = 1 .. n
  BY DEF ItemIds
<1>3. Ascends(l) /\ \A k \in DOMAIN l : l[k] <= 5
  BY DEF Ascends
<1> HIDE DEF l
<1>4. w = <<l>>
  BY <1>1 DEF l
<1>5. w[1] = l /\ Len(w) = 1 /\ DOMAIN w = 1 .. 1
  BY <1>4
<1>6. w \in [1 .. 1 -> Seq(ItemIds)]
  <2>1. w = [s \in 1 .. 1 |-> w[s]] /\ \A s \in 1 .. 1 : s = 1
    BY <1>4
  <2>2. \A s \in 1 .. 1 : w[s] \in Seq(ItemIds)
    BY <1>2, <1>5, <2>1
  <2> QED BY <2>1, <2>2
<1> QED BY <1>3, <1>4, <1>5, <1>6

LEMMA PagesSettings ==
    /\ PagesSetting(Wishes) /\ PagesSetting(Aligned) /\ PagesSetting(Guessed)
    /\ PagesSetting(Paged) /\ PagesSetting(Limited)
<1>1. PageSize \in Nat /\ Limit \in Nat /\ Arrivals \in Nat
  BY PagesAssumption
<1>2. ASSUME NEW z, z.starts = Two, z.known = PageSize, z.latest = 4, z.arrivals = Arrivals,
             z.kind \in {"cursor", "token"}, z.newest \in BOOLEAN, z.failsEarly \in BOOLEAN, z.limit \in Nat
      PROVE  PagesSetting(z)
  <2>1. ASSUME NEW w \in z.starts
        PROVE  /\ Len(w) = 2 /\ DOMAIN w = 1 .. 2 /\ w \in [1 .. 2 -> Seq(ItemIds)]
               /\ \A s \in 1 .. 2 : Ascends(w[s]) /\ \A k \in DOMAIN w[s] : w[s][k] <= 4
               /\ \A s, t \in 1 .. 2 : \A x : Has(w[s], x) /\ Has(w[t], x) => s = t
    BY <1>2, <2>1, TwoIs
  <2>2. PageSize # -1
    BY <1>1
  <2>3. ASSUME NEW w \in z.starts
        PROVE  /\ Len(w) \in Nat \ {0} /\ DOMAIN w = 1 .. Len(w) /\ w \in [1 .. Len(w) -> Seq(ItemIds)]
               /\ \A s \in DOMAIN w : Ascends(w[s]) /\ \A k \in DOMAIN w[s] : w[s][k] <= z.latest
               /\ \A s, t \in DOMAIN w : \A x : Has(w[s], x) /\ Has(w[t], x) => s = t
    <3>1. /\ Len(w) = 2 /\ DOMAIN w = 1 .. 2 /\ w \in [1 .. 2 -> Seq(ItemIds)]
          /\ \A s \in 1 .. 2 : Ascends(w[s]) /\ \A k \in DOMAIN w[s] : w[s][k] <= 4
          /\ \A s, t \in 1 .. 2 : \A x : Has(w[s], x) /\ Has(w[t], x) => s = t
      BY <2>1, <2>3
    <3>2. Len(w) \in Nat \ {0}
      BY <3>1
    <3>6. DOMAIN w = 1 .. Len(w) /\ w \in [1 .. Len(w) -> Seq(ItemIds)]
      BY <3>1, Zenon
    <3>3. z.latest = 4
      BY <1>2
    <3>4. \A s \in DOMAIN w : Ascends(w[s]) /\ \A k \in DOMAIN w[s] : w[s][k] <= z.latest
      BY <3>1, <3>3, Zenon
    <3>5. \A s, t \in DOMAIN w : \A x : Has(w[s], x) /\ Has(w[t], x) => s = t
      BY <3>1, Zenon
    <3> QED BY <3>2, <3>4, <3>5, <3>6
  <2> QED BY <1>1, <1>2, <2>2, <2>3 DEF PagesSetting
<1>3. ASSUME NEW z, z.starts \in SUBSET One, z.known = -1, z.latest = 5, z.limit = 0,
             \/ z.kind = "cursor" /\ << <<>> >> \notin z.starts /\ z.arrivals = Arrivals
             \/ z.kind = "paged" /\ z.arrivals = 0,
             z.newest \in BOOLEAN, z.failsEarly \in BOOLEAN
      PROVE  PagesSetting(z)
  <2>1. ASSUME NEW w \in z.starts
        PROVE  /\ Len(w) = 1 /\ DOMAIN w = 1 .. 1 /\ w \in [1 .. 1 -> Seq(ItemIds)]
               /\ \A s \in DOMAIN w : s = 1
               /\ Ascends(w[1]) /\ (\A k \in DOMAIN w[1] : w[1][k] <= 5)
               /\ z.kind = "cursor" => w[1] # <<>>
    BY <1>3, <2>1, OneIs
  <2>2. ASSUME NEW w \in z.starts
        PROVE  /\ Len(w) \in Nat \ {0} /\ DOMAIN w = 1 .. Len(w) /\ w \in [1 .. Len(w) -> Seq(ItemIds)]
               /\ ~(Len(w) > 1)
               /\ \A s \in DOMAIN w : Ascends(w[s]) /\ \A k \in DOMAIN w[s] : w[s][k] <= z.latest
               /\ z.kind = "cursor" => \A s \in DOMAIN w : w[s] # <<>>
               /\ \A s, t \in DOMAIN w : s = t
    <3>1. /\ Len(w) = 1 /\ DOMAIN w = 1 .. 1 /\ w \in [1 .. 1 -> Seq(ItemIds)]
          /\ \A s \in DOMAIN w : s = 1
          /\ Ascends(w[1]) /\ (\A k \in DOMAIN w[1] : w[1][k] <= 5)
          /\ z.kind = "cursor" => w[1] # <<>>
      BY <2>1, <2>2
    <3>2. Len(w) \in Nat \ {0} /\ ~(Len(w) > 1)
      BY <3>1
    <3>3. DOMAIN w = 1 .. Len(w) /\ w \in [1 .. Len(w) -> Seq(ItemIds)]
      BY <3>1, Zenon
    <3>4. z.latest = 5
      BY <1>3
    <3>5. \A s \in DOMAIN w : Ascends(w[s]) /\ \A k \in DOMAIN w[s] : w[s][k] <= z.latest
      BY <3>1, <3>4, Zenon
    <3>6. /\ z.kind = "cursor" => \A s \in DOMAIN w : w[s] # <<>>
          /\ \A s, t \in DOMAIN w : s = t
      BY <3>1, Zenon
    <3> QED BY <3>2, <3>3, <3>5, <3>6
  <2> QED BY <1>1, <1>3, <2>2 DEF PagesSetting
<1>4. PagesSetting(Wishes)
  BY <1>1, <1>2 DEF Wishes
<1>5. PagesSetting(Aligned)
  BY <1>1, <1>2 DEF Aligned
<1>6. PagesSetting(Limited)
  BY <1>1, <1>2 DEF Limited
<1>7. PagesSetting(Guessed)
  BY <1>1, <1>3 DEF Guessed
<1>8. PagesSetting(Paged)
  BY <1>1, <1>3 DEF Paged
<1> QED BY <1>4, <1>5, <1>6, <1>7, <1>8

(* The suite's invariant for each kind of paginator. *)
PagesPart ==
    /\ part = "wishes" => PagesInv(Wishes)
    /\ part = "aligned" => PagesInv(Aligned)
    /\ part = "guessed" => PagesInv(Guessed)
    /\ part = "paged" => PagesInv(Paged)
    /\ part = "limited" => PagesInv(Limited)

(* The window of each list that its source has asked for, what the heap and  *)
(* gather() hold of it, the counters and what the caller got, however lists  *)
(* grow and requests fail: an inductive invariant.                           *)
THEOREM PagesInductive == GenshinSpec => []PagesPart
<1>1. GenshinInit => PagesPart
  <2>1. SUFFICES ASSUME GenshinInit PROVE PagesPart
    OBVIOUS
  <2>2. /\ part = "wishes" => Pages(Wishes)!Init
        /\ part = "aligned" => Pages(Aligned)!Init
        /\ part = "guessed" => Pages(Guessed)!Init
        /\ part = "paged" => Pages(Paged)!Init
        /\ part = "limited" => Pages(Limited)!Init
    BY <2>1 DEF GenshinInit
  <2> QED BY <2>2, PagesSettings, PagesStart DEF PagesPart
<1>2. PagesPart /\ [GenshinNext]_state => PagesPart'
  <2>1. SUFFICES ASSUME PagesPart, [GenshinNext]_state PROVE PagesPart'
    OBVIOUS
  <2>2. part' = part
    BY <2>1 DEF GenshinNext, state
  <2>3. /\ part = "wishes" => Pages(Wishes)!Next \/ UNCHANGED pages
        /\ part = "aligned" => Pages(Aligned)!Next \/ UNCHANGED pages
        /\ part = "guessed" => Pages(Guessed)!Next \/ UNCHANGED pages
        /\ part = "paged" => Pages(Paged)!Next \/ UNCHANGED pages
        /\ part = "limited" => Pages(Limited)!Next \/ UNCHANGED pages
    BY <2>1 DEF GenshinNext, state
  <2>4. /\ part = "wishes" => PagesInv(Wishes)'
        /\ part = "aligned" => PagesInv(Aligned)'
        /\ part = "guessed" => PagesInv(Guessed)'
        /\ part = "paged" => PagesInv(Paged)'
        /\ part = "limited" => PagesInv(Limited)'
    BY <2>1, <2>3, PagesSettings, PagesSteps DEF PagesPart
  <2> QED BY <2>2, <2>4 DEF PagesPart
<1> QED BY <1>1, <1>2, PTL DEF GenshinSpec

(* No item is given twice, what there was at first is given completely or up *)
(* to the limit, and the newest items of each source come first, and of a    *)
(* merge when the sources have its order.                                    *)
THEOREM ItemsEachOnce == GenshinSpec => []EachOnce
<1>1. PagesPart => EachOnce
  <2>1. SUFFICES ASSUME PagesPart PROVE EachOnce
    OBVIOUS
  <2>2. PagesInv(Wishes) => Pages(Wishes)!EachOnce /\ Pages(Wishes)!SourcesInOrder
    <3>1. Lossless(Wishes)
      BY DEF Lossless, Wishes
    <3> QED BY <3>1, PagesSettings, PagesHold
  <2>3. PagesInv(Aligned) => Pages(Aligned)!EachOnce /\ Pages(Aligned)!NewestFirst
    <3>1. Lossless(Aligned) /\ Aligned.newest
      BY DEF Lossless, Aligned
    <3> QED BY <3>1, PagesSettings, PagesHold
  <2>4. ASSUME NEW z, z.starts \in SUBSET One, PagesInv(z) PROVE Lossless(z)
    <3>1. start \in One
      BY <2>4 DEF PagesInv, ServerInv
    <3>2. Len(start) = 1
      BY <3>1, OneIs
    <3> QED BY <3>2 DEF Lossless
  <2>5. PagesInv(Guessed) => Pages(Guessed)!EachOnce /\ Pages(Guessed)!NewestFirst
    <3>1. Guessed.starts \in SUBSET One /\ Guessed.newest
      BY DEF Guessed
    <3> QED BY <2>4, <3>1, PagesSettings, PagesHold
  <2>6. PagesInv(Paged) => Pages(Paged)!EachOnce
    <3>1. Paged.starts \in SUBSET One
      BY DEF Paged
    <3> QED BY <2>4, <3>1, PagesSettings, PagesHold
  <2>7. PagesInv(Limited) => Pages(Limited)!WithinLimit /\ Pages(Limited)!SourcesInOrder
    BY PagesSettings, PagesHold
  <2> QED BY <2>1, <2>2, <2>3, <2>5, <2>6, <2>7 DEF PagesPart, EachOnce
<1> QED BY <1>1, PagesInductive, PTL
=============================================================================

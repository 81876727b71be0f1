------------------------------ MODULE Paginators ------------------------------
(***************************************************************************)
(* genshin.py's paginators: a BufferedPaginator that gets its pages by       *)
(* cursor, page number or token, and the MergedPaginator over several of     *)
(* them that wish_history() returns.  A page has the newest items of a list  *)
(* first.  The lists at the server may grow between two requests, and a      *)
(* request may fail, after which the caller may ask again.                   *)
(***************************************************************************)
EXTENDS Integers, Sequences, FiniteSets

CONSTANTS
    Kind,         \* "cursor", "paged" or "token"
    Newest,       \* does the key of the merge put the newest first
    PageSize,     \* of the requests
    KnownSize,    \* page_size as the paginator is given it: a number or None
    Limit,        \* limit of each source, 0 for None
    Starts,       \* bound: what may be at the server at first, a list of ids
                  \* for each source, with the oldest first
    Latest,       \* bound: the ids at first go up to this
    Arrivals,     \* bound: items that arrive meanwhile
    Failures,     \* bound: requests that fail
    FailsEarly    \* may the first request of a source fail

VARIABLES
    start,        \* the lists at the server at first
    server,       \* the lists at the server
    source,       \* the BufferedPaginators
    prepared,     \* _prepared
    heap,         \* the first item of each source that has not ended
    first,        \* what gather() in _prepare has got of each source
    out,          \* what the caller got
    pc,           \* "ready", "preparing", "raised" or "complete"
    arrived, failed

None == -1
Pending == -2
Sources == DOMAIN start
FirstCursor == IF Kind = "paged" THEN 1 ELSE 0

Init ==
    /\ start \in Starts /\ server = start
    /\ source = [s \in Sources |->
          [at |-> FirstCursor, buffer |-> <<>>, size |-> KnownSize, counter |-> 0, exhausted |-> FALSE]]
    /\ prepared = FALSE /\ heap = {} /\ first = [s \in Sources |-> Pending]
    /\ out = <<>> /\ pc = "ready" /\ arrived = 0 /\ failed = 0

-----------------------------------------------------------------------------
(* The getter: what the server answers.                                     *)

\* how many items are older than end_id, all for 0; or are on the page with
\* that number and behind it
Rest(s, at) ==
    LET behind == Len(server[s]) - (at - 1) * PageSize
    IN IF Kind = "paged" THEN (IF behind > 0 THEN behind ELSE 0)
       ELSE IF at = 0 THEN Len(server[s])
       ELSE CHOOSE r \in 0 .. Len(server[s]) : \A k \in DOMAIN server[s] : server[s][k] < at <=> k <= r

Page(s, at) ==
    [i \in 1 .. (IF Rest(s, at) < PageSize THEN Rest(s, at) ELSE PageSize) |-> server[s][Rest(s, at) + 1 - i]]

\* next_page(), after the getter: a page that is not full was the last one.
\* The server's token is taken to stand for the last item it gave.
Following(p, size, data) ==
    IF Len(data) < size THEN None
    ELSE IF Kind = "paged" THEN p.at + 1 ELSE IF data = <<>> THEN p.at ELSE data[Len(data)]

Outcome(p, result) == [source |-> p, result |-> result]
Stop == -3
Raise == -4
IndexError == -5

Exceptions == {Raise, IndexError}

LimitReached(p) == Limit > 0 /\ p.counter >= Limit
Counted(p) == [p EXCEPT !.counter = IF Limit > 0 THEN p.counter + 1 ELSE p.counter]
Complete(p) == Outcome([p EXCEPT !.exhausted = TRUE, !.buffer = <<>>], Stop)

\* What the page that the source p gets makes of it.  A page that is empty and
\* counts as full has no last item for the cursor.
Answered(s, p) ==
    LET data == Page(s, p.at)
        size == IF p.size = None THEN Len(data) ELSE p.size
        asked == [p EXCEPT !.at = Following(p, size, data), !.size = size]
    IN IF data # <<>> THEN Outcome([asked EXCEPT !.buffer = Tail(data)], Head(data))
       ELSE IF Kind = "cursor" /\ size = 0 THEN Outcome([p EXCEPT !.size = size], IndexError)
       ELSE Complete(asked)

\* What __anext__ of a source may come to: an item, Stop, or an exception.
Anext(s, mayFail) ==
    LET p == source[s]
    IN IF p.exhausted \/ LimitReached(p) THEN {Complete(p)}
       ELSE IF p.buffer # <<>> THEN {Outcome([Counted(p) EXCEPT !.buffer = Tail(p.buffer)], Head(p.buffer))}
       ELSE IF p.at = None THEN {Complete(Counted(p))}
       ELSE {Answered(s, Counted(p))} \cup IF mayFail THEN {Outcome(Counted(p), Raise)} ELSE {}

-----------------------------------------------------------------------------
(* The caller takes one item after another.                                 *)

Merged == Len(start) > 1     \* wish_history: one source is returned as it is

Advance(s, mayFail, o) ==
    /\ o \in Anext(s, mayFail /\ failed < Failures)
    /\ source' = [source EXCEPT ![s] = o.source]
    /\ failed' = failed + IF o.result = Raise THEN 1 ELSE 0

Direct ==
    /\ ~Merged /\ pc = "ready"
    /\ \E o \in Anext(1, failed < Failures) :
         /\ Advance(1, TRUE, o)
         /\ pc' = IF o.result \in Exceptions THEN "raised" ELSE IF o.result = Stop THEN "complete" ELSE "ready"
         /\ out' = IF o.result >= 0 THEN Append(out, o.result) ELSE out
    /\ UNCHANGED <<start, prepared, server, heap, first, arrived>>

Prepare ==
    /\ Merged /\ pc = "ready" /\ ~prepared
    /\ pc' = "preparing" /\ first' = [s \in Sources |-> Pending]
    /\ UNCHANGED <<start, prepared, server, source, heap, out, arrived, failed>>

\* gather(): each source on its own; exceptions are results
First(s) ==
    /\ pc = "preparing" /\ first[s] = Pending
    /\ \E o \in Anext(s, FailsEarly /\ failed < Failures) :
         Advance(s, FailsEarly, o) /\ first' = [first EXCEPT ![s] = o.result]
    /\ UNCHANGED <<start, prepared, server, heap, out, pc, arrived>>

Prepared ==
    /\ pc = "preparing" /\ \A s \in Sources : first[s] # Pending
    /\ IF \E s \in Sources : first[s] \in Exceptions
       THEN pc' = "raised" /\ UNCHANGED <<heap, prepared>>
       ELSE pc' = "ready" /\ prepared' = TRUE /\ heap' = {<<first[s], s>> : s \in {z \in Sources : first[z] # Stop}}
    /\ UNCHANGED <<start, server, source, first, out, arrived, failed>>

\* the order of the heap: by key, then by the order of the sources
Less(a, b) == \/ IF Newest THEN a[1] > b[1] ELSE a[1] < b[1]
              \/ a[1] = b[1] /\ a[2] < b[2]
Top == CHOOSE a \in heap : \A b \in heap \ {a} : Less(a, b)

\* Seeded error: a source that has ended takes its last item with it.
Merge_LosesLast ==
    /\ Merged /\ pc = "ready" /\ prepared /\ heap # {}
    /\ \E o \in Anext(Top[2], failed < Failures) :
         /\ Advance(Top[2], TRUE, o)
         /\ pc' = IF o.result \in Exceptions THEN "raised" ELSE "ready"
         /\ out' = IF o.result < 0 THEN out ELSE Append(out, Top[1])
         /\ heap' = IF o.result \in Exceptions THEN heap
                    ELSE (heap \ {Top}) \cup IF o.result = Stop THEN {} ELSE {<<o.result, Top[2]>>}
    /\ UNCHANGED <<start, prepared, server, first, arrived>>

Merge ==
    /\ Merged /\ pc = "ready" /\ prepared /\ heap # {}
    /\ \E o \in Anext(Top[2], failed < Failures) :
         /\ Advance(Top[2], TRUE, o)
         /\ pc' = IF o.result \in Exceptions THEN "raised" ELSE "ready"
         /\ out' = IF o.result \in Exceptions THEN out ELSE Append(out, Top[1])
         /\ heap' = IF o.result \in Exceptions THEN heap
                    ELSE (heap \ {Top}) \cup IF o.result = Stop THEN {} ELSE {<<o.result, Top[2]>>}
    /\ UNCHANGED <<start, prepared, server, first, arrived>>

Exhausted ==
    /\ Merged /\ pc = "ready" /\ prepared /\ heap = {}
    /\ pc' = "complete"
    /\ UNCHANGED <<start, prepared, server, source, heap, first, out, arrived, failed>>

AskAgain ==
    /\ pc = "raised" /\ pc' = "ready"
    /\ UNCHANGED <<start, prepared, server, source, heap, first, out, arrived, failed>>

\* ids ascend: what arrives has the greatest so far
Arrive(s) ==
    /\ arrived < Arrivals /\ arrived' = arrived + 1
    /\ server' = [server EXCEPT ![s] = Append(server[s], Latest + arrived + 1)]
    /\ UNCHANGED <<start, prepared, source, heap, first, out, pc, failed>>

Take_next == Direct \/ Prepare \/ (\E s \in Sources : First(s)) \/ Prepared \/ Merge \/ Exhausted \/ AskAgain
Next == Take_next \/ (\E s \in Sources : Arrive(s))

-----------------------------------------------------------------------------
Gave(id) == \E i \in DOMAIN out : out[i] = id
From(s) == {i \in DOMAIN out : \E k \in DOMAIN server[s] : out[i] = server[s][k]}

\* However the lists grow and whichever requests fail on the way, no item is
\* given twice, and what there was at first is given completely, unless a
\* source has a limit.  (BufferedPaginator, CursorPaginator, MergedPaginator)
EachOnce ==
    /\ \A i, j \in DOMAIN out : out[i] = out[j] => i = j
    /\ pc = "complete" /\ Limit = 0 => \A s \in Sources : \A k \in DOMAIN start[s] : Gave(start[s][k])

\* A source gives no more than its limit, and with a limit it gives the newest
\* items: those that a list which does not grow has at its end.
WithinLimit ==
    Limit > 0 => \A s \in Sources :
        /\ Cardinality(From(s)) <= Limit
        /\ pc = "complete" /\ failed = 0 /\ arrived = 0 =>
              \A k \in DOMAIN server[s] : Gave(server[s][k]) <=> k > Len(server[s]) - Limit

\* The items come newest first from one source, and from a merge whose key has
\* the order of its sources.  (__anext__, heapreplace)
NewestFirst == \A i, j \in DOMAIN out : i < j => out[i] > out[j]

\* Of each source the newest items come first.
SourcesInOrder == \A s \in Sources : \A i, j \in From(s) : i < j => out[i] > out[j]
=============================================================================

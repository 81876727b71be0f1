------------------------------ MODULE JsonPatch ------------------------------
(***************************************************************************)
(* What dpp/nlohmann/json.hpp does to whole documents: access by JSON       *)
(* pointer, JSON patch and the diff that makes patches, merge patch,       *)
(* flatten and unflatten.  A document is a record, a pointer the sequence  *)
(* of its reference tokens; how a pointer is written is in JsonPointer.    *)
(***************************************************************************)
EXTENDS Integers, Sequences, FiniteSets, TLC, SequencesExt

CONSTANTS
    Docs,        \* the documents a patch is applied to or made for
    Order,       \* every reference token in use, in the order of std::string
    Names        \* the keys of the documents that are tried

VARIABLES
    source,      \* the document patch() is called on
    target,      \* the document diff() was given as well
    patch,       \* the operations not yet applied
    result       \* the copy they are applied to, or what was thrown

vars == <<source, target, patch, result>>

Null == [type |-> "null"]
Number(n) == [type |-> "number", n |-> n]
ArrayOf(s) == [type |-> "array", items |-> s]
ObjectOf(f) == [type |-> "object", items |-> f]
Thrown(e) == [type |-> "thrown", error |-> e]

\* What is thrown, beside the numbers of the library's own exceptions: what
\* array_index throws for a token that is no number, and JSON_ASSERT, at which
\* a program ends that is built without NDEBUG.
BadIndex == 109
AssertionFails == 0

Failed(v) == v.type = "thrown"
IsPrimitive(v) == v.type \notin {"array", "object"}

\* array_index: a reference token as a position, -1 where it throws
Digits == <<"0", "1", "2">>
IndexOf(token) == IF \E i \in DOMAIN Digits : Digits[i] = token
                  THEN (CHOOSE i \in DOMAIN Digits : Digits[i] = token) - 1 ELSE -1

-----------------------------------------------------------------------------
(* Access.                                                                  *)

\* get_checked, behind at()
RECURSIVE At(_, _)
At(v, ptr) ==
    IF ptr = <<>> THEN v
    ELSE LET token == Head(ptr) index == IndexOf(token)
         IN IF v.type = "object"
            THEN IF token \in DOMAIN v.items THEN At(v.items[token], Tail(ptr)) ELSE Thrown(403)
            ELSE IF v.type # "array" THEN Thrown(404)
            ELSE IF token = "-" THEN Thrown(402)
            ELSE IF index < 0 THEN Thrown(BadIndex)
            ELSE IF index >= Len(v.items) THEN Thrown(401)
            ELSE At(v.items[index + 1], Tail(ptr))

\* get_unchecked turns a null on its way into the container the token asks for
Container(v, token) ==
    IF v.type # "null" THEN v
    ELSE IF token = "-" \/ IndexOf(token) >= 0 THEN ArrayOf(<<>>) ELSE ObjectOf(<<>>)

\* the position a token has in an array operator[] may grow
Place(v, token) == IF token = "-" THEN Len(v.items) ELSE IndexOf(token)

\* get_unchecked, behind operator[]: what the reference it returns refers to
RECURSIVE Reach(_, _)
Reach(v, ptr) ==
    IF ptr = <<>> THEN v
    ELSE LET c == Container(v, Head(ptr))
         IN IF c.type = "object"
            THEN Reach(IF Head(ptr) \in DOMAIN c.items THEN c.items[Head(ptr)] ELSE Null, Tail(ptr))
            ELSE IF c.type # "array" THEN Thrown(404)
            ELSE IF Place(c, Head(ptr)) < 0 THEN Thrown(BadIndex)
            ELSE Reach(IF Place(c, Head(ptr)) < Len(c.items)
                       THEN c.items[Place(c, Head(ptr)) + 1] ELSE Null, Tail(ptr))

\* The document with w assigned to that reference, which Reach found.
RECURSIVE Assign(_, _, _)
Assign(v, ptr, w) ==
    IF ptr = <<>> THEN w
    ELSE LET c == Container(v, Head(ptr))
         IN IF c.type = "object"
            THEN ObjectOf((Head(ptr) :> Assign(IF Head(ptr) \in DOMAIN c.items
                                               THEN c.items[Head(ptr)] ELSE Null, Tail(ptr), w)) @@ c.items)
            ELSE LET place == Place(c, Head(ptr)) + 1
                     filled == [i \in 1 .. IF place > Len(c.items) THEN place ELSE Len(c.items) |->
                                  IF i <= Len(c.items) THEN c.items[i] ELSE Null]
                 IN ArrayOf([filled EXCEPT ![place] = Assign(@, Tail(ptr), w)])

-----------------------------------------------------------------------------
(* patch().                                                                 *)

\* parent[last_path] = val, or the insertion into an array.  A primitive is left
\* as it is by a build with NDEBUG, in which JSON_ASSERT does nothing.
AddTo(parent, last, w) ==
    IF parent.type \in {"null", "object"}
    THEN ObjectOf((last :> w) @@ IF parent.type = "null" THEN <<>> ELSE parent.items)
    ELSE IF parent.type # "array" THEN parent
    ELSE IF last = "-" THEN ArrayOf(Append(parent.items, w))
    ELSE IF IndexOf(last) < 0 THEN Thrown(BadIndex)
    ELSE IF IndexOf(last) > Len(parent.items) THEN Thrown(401)
    ELSE ArrayOf(InsertAt(parent.items, IndexOf(last) + 1, w))

\* operation_add: only the first token of the pointer has to exist
Add(v, ptr, w) ==
    IF ptr = <<>> THEN w
    ELSE LET top == At(v, <<Head(ptr)>>)
             parent == Reach(v, Front(ptr))
             added == AddTo(parent, Last(ptr), w)
         IN IF Len(ptr) > 1 /\ Failed(top) THEN top
            ELSE IF Failed(parent) THEN parent
            ELSE IF Failed(added) THEN added
            ELSE Assign(v, Front(ptr), added)

\* operation_remove: a primitive parent is left as it is
RemoveFrom(v, ptr) ==
    IF ptr = <<>> THEN Thrown(405)
    ELSE LET parent == At(v, Front(ptr))
         IN IF Failed(parent) THEN parent
            ELSE IF parent.type = "object"
            THEN IF Last(ptr) \in DOMAIN parent.items
                 THEN Assign(v, Front(ptr),
                        ObjectOf([k \in DOMAIN parent.items \ {Last(ptr)} |-> parent.items[k]]))
                 ELSE Thrown(403)
            ELSE IF parent.type = "array"
            THEN IF IndexOf(Last(ptr)) < 0 THEN Thrown(BadIndex)
                 ELSE IF IndexOf(Last(ptr)) >= Len(parent.items) THEN Thrown(401)
                 ELSE Assign(v, Front(ptr), ArrayOf(RemoveAt(parent.items, IndexOf(Last(ptr)) + 1)))
            ELSE v

Operation(op, path, from, value) == [op |-> op, path |-> path, from |-> from, value |-> value]

\* What an operation adds, and to what: a move has removed it before.
Added(v, o) == IF o.op = "add" THEN o.value ELSE At(v, o.from)
Base(v, o) == IF o.op = "move" THEN RemoveFrom(v, o.from) ELSE v

Apply(v, o) ==
    CASE o.op \in {"add", "copy", "move"} ->
           IF Failed(Added(v, o)) THEN Added(v, o)
           ELSE IF Failed(Base(v, o)) THEN Base(v, o) ELSE Add(Base(v, o), o.path, Added(v, o))
      [] o.op = "remove"  -> RemoveFrom(v, o.path)
      [] o.op = "replace" -> IF Failed(At(v, o.path)) THEN At(v, o.path)
                             ELSE Assign(v, o.path, o.value)
      [] o.op = "test"    -> IF At(v, o.path) \in {Thrown(BadIndex), o.value}
                             THEN IF At(v, o.path) = o.value THEN v ELSE Thrown(BadIndex)
                             ELSE Thrown(501)

\* The assertion in operation_add is reached, and is false.
UnderPrimitive(v, o) ==
    /\ o.op \in {"add", "copy", "move"} /\ ~Failed(Added(v, o)) /\ ~Failed(Base(v, o))
    /\ o.path # <<>> /\ (Len(o.path) > 1 => ~Failed(At(Base(v, o), <<Head(o.path)>>)))
    /\ Reach(Base(v, o), Front(o.path)).type \notin {"null", "object", "array", "thrown"}

-----------------------------------------------------------------------------
(* diff().                                                                  *)

Keys(v) == SelectSeq(Order, LAMBDA k : k \in DOMAIN v.items)

\* Seeded error: what an array has too much is removed from the front.
Superfluous_Forwards(path, from, to) ==
    [i \in 1 .. to - from |-> Operation("remove", Append(path, Digits[from + i]), <<>>, Null)]

\* the elements after position from, the last one first
Superfluous(path, from, to) ==
    Reverse([i \in 1 .. to - from |-> Operation("remove", Append(path, Digits[from + i]), <<>>, Null)])

RECURSIVE Diff(_, _, _)
Diff(s, t, path) ==
    IF s = t THEN <<>>
    ELSE IF s.type # t.type \/ IsPrimitive(s) THEN <<Operation("replace", path, <<>>, t)>>
    ELSE IF s.type = "array"
    THEN LET common == IF Len(s.items) < Len(t.items) THEN Len(s.items) ELSE Len(t.items)
             changes == FlattenSeq([i \in 1 .. common |->
                            Diff(s.items[i], t.items[i], Append(path, Digits[i]))])
             added == [i \in 1 .. Len(t.items) - common |->
                            Operation("add", Append(path, "-"), <<>>, t.items[common + i])]
         IN changes \o Superfluous(path, common, Len(s.items)) \o added
    ELSE LET mine == [i \in DOMAIN Keys(s) |->
                        LET k == Keys(s)[i] at == Append(path, k)
                        IN IF k \in DOMAIN t.items THEN Diff(s.items[k], t.items[k], at)
                           ELSE <<Operation("remove", at, <<>>, Null)>>]
             new == SelectSeq(Keys(t), LAMBDA k : k \notin DOMAIN s.items)
         IN FlattenSeq(mine) \o
            [i \in DOMAIN new |-> Operation("add", Append(path, new[i]), <<>>, t.items[new[i]])]

-----------------------------------------------------------------------------
(* merge_patch(), flatten() and unflatten().                                *)

RECURSIVE Merge(_, _)
Merge(v, p) ==
    IF p.type # "object" THEN p
    ELSE LET old == IF v.type = "object" THEN v.items ELSE <<>>
             gone == {k \in DOMAIN p.items : p.items[k] = Null}
         IN ObjectOf([k \in (DOMAIN old \cup DOMAIN p.items) \ gone |->
              IF k \in DOMAIN p.items
              THEN Merge(IF k \in DOMAIN old THEN old[k] ELSE Null, p.items[k])
              ELSE old[k]])

\* flatten: from the pointers of the leaves to their values; an empty
\* container is a leaf, and null
RECURSIVE Leaves(_)
Leaves(v) ==
    IF IsPrimitive(v) THEN {<<<<>>, v>>}
    ELSE IF DOMAIN v.items = {} THEN {<<<<>>, Null>>}
    ELSE UNION {{<<<<IF v.type = "array" THEN Digits[k] ELSE k>> \o leaf[1], leaf[2]>> :
                    leaf \in Leaves(v.items[k])} : k \in DOMAIN v.items}

\* get_and_create: a null becomes an array for the token "0", else an object
Grown(v, token) ==
    IF v.type # "null" THEN v ELSE IF token = "0" THEN ArrayOf(<<>>) ELSE ObjectOf(<<>>)

RECURSIVE Create(_, _, _)
Create(v, ptr, w) ==
    IF Failed(v) THEN v
    ELSE IF ptr = <<>> THEN w
    ELSE LET c == Grown(v, Head(ptr)) old == Reach(c, <<Head(ptr)>>)
         IN IF Failed(old) THEN Thrown(313)
            ELSE LET new == Create(old, Tail(ptr), w)
                 IN IF Failed(new) THEN new ELSE Assign(c, <<Head(ptr)>>, new)

\* std::map holds the pointers in the order of their text
Rank(token) == CHOOSE i \in DOMAIN Order : Order[i] = token
Before(p, q) ==
    \/ IsStrictPrefix(p, q)
    \/ \E i \in 1 .. Len(p) : /\ i <= Len(q) /\ Rank(p[i]) < Rank(q[i])
                              /\ \A j \in 1 .. i - 1 : p[j] = q[j]

Unflatten(leaves) ==
    FoldLeft(LAMBDA v, leaf : Create(v, leaf[1], leaf[2]), Null,
             SetToSortSeq(leaves, LAMBDA a, b : Before(a[1], b[1])))

-----------------------------------------------------------------------------
Init ==
    /\ source \in Docs /\ target \in Docs
    /\ patch = Diff(source, target, <<>>)
    /\ result = source

ApplyNext ==
    /\ patch # <<>> /\ ~Failed(result)
    /\ result' = Apply(result, Head(patch))
    /\ patch' = Tail(patch)
    /\ UNCHANGED <<source, target>>

\* A build without NDEBUG
Abort ==
    /\ patch # <<>> /\ ~Failed(result)
    /\ UnderPrimitive(result, Head(patch))
    /\ result' = Thrown(AssertionFails)
    /\ patch' = Tail(patch)
    /\ UNCHANGED <<source, target>>

Next == ApplyNext \/ Abort

Spec == Init /\ [][Next]_vars

Finished == patch = <<>> \/ Failed(result)

-----------------------------------------------------------------------------
\* A patch made by diff() turns the one document into the other, whatever
\* shifts while its operations are applied one after the other.  (diff, patch)
PatchOfDiff == Finished => result = target

\* Merging a patch once more changes nothing, and a null in a patch is never
\* what the merged document gets.  (merge_patch)
RECURSIVE Nulls(_)
Nulls(v) ==
    IF v.type # "object" THEN 0
    ELSE Cardinality({k \in DOMAIN v.items : v.items[k] = Null \/ Nulls(v.items[k]) > 0})

MergeSettles ==
    LET merged == Merge(source, target)
    IN result = source =>
        /\ Merge(merged, target) = merged
        /\ target.type = "object" /\ Nulls(source) = 0 => Nulls(merged) = 0

\* unflatten() gives back what flatten() took apart except exactly where the
\* flat form cannot tell: an empty container became null, or the first member
\* of an object is called "0" and reads as an array's first element.
RECURSIVE Recoverable(_)
Recoverable(v) ==
    \/ IsPrimitive(v)
    \/ /\ DOMAIN v.items # {}
       /\ v.type = "object" => Keys(v)[1] # "0"
       /\ \A k \in DOMAIN v.items : Recoverable(v.items[k])

FlatRoundTrip ==
    result = source /\ target = source => (Unflatten(Leaves(source)) = source <=> Recoverable(source))

-----------------------------------------------------------------------------
\* Documents two containers deep, and patches of one operation.

Leaf == {Null, Number(1)}
Seqs(S) == {<<>>} \cup {<<a>> : a \in S} \cup {<<a, b>> : a, b \in S}
Functions(S) == UNION {[D -> S] : D \in SUBSET Names}
Shallow == {ArrayOf(s) : s \in Seqs(Leaf)} \cup {ObjectOf(f) : f \in Functions(Leaf)}
Inner == Leaf \cup {ArrayOf(<<>>), ArrayOf(<<Null>>), ArrayOf(<<Number(1), Null>>), ObjectOf(<<>>), ObjectOf("0" :> Number(1)),
                    ObjectOf("a" :> Number(1)), ObjectOf("a" :> Null)}
MCDocs == Leaf \cup Shallow \cup {ArrayOf(s) : s \in Seqs(Inner)} \cup {ObjectOf(f) : f \in Functions(Inner)}

MCOrder == <<"-", "0", "1", "2", "a", "b">>

Paths == {<<>>} \cup {<<a>> : a \in {"-", "0", "1", "a"}} \cup {<<a, b>> : a, b \in {"-", "0", "1", "a"}}
Operations ==
    {Operation(op, p, <<>>, Number(2)) : op \in {"add", "remove", "replace", "test"}, p \in Paths}
    \cup {Operation(op, p, q, Null) : op \in {"move", "copy"}, p \in Paths, q \in Paths}

EditInit ==
    /\ source \in Docs /\ target = Null
    /\ patch \in {<<o>> : o \in Operations}
    /\ result = source

-----------------------------------------------------------------------------
\* Where an addition went: "-" is the last place of the grown array.
Landed(doc, ptr) ==
    LET parent == At(doc, Front(ptr))
    IN IF ptr # <<>> /\ Last(ptr) = "-" /\ parent.type = "array"
       THEN Append(Front(ptr), Digits[Len(parent.items)]) ELSE ptr

\* What a successful add, copy, move or replace puts down is found again by
\* pointer at the place it was put; an addition at a new place is undone by
\* removing it, a removal by adding what was removed.  Only what is added below
\* a primitive is lost without an error.  (operation_add, operation_remove)
Existing(doc, ptr) == ~Failed(At(doc, ptr))
Fresh(doc, ptr) ==
    /\ ptr # <<>> /\ Existing(doc, Front(ptr)) /\ At(doc, Front(ptr)) # Null
    /\ At(doc, Front(ptr)).type = "array" \/ ~Existing(doc, ptr)

AddLands(doc, o, after) ==
    LET place == Landed(after, o.path)
    IN /\ At(after, place) = Added(doc, o)
       /\ Fresh(Base(doc, o), o.path) => RemoveFrom(after, place) = Base(doc, o)

EditsLand ==
    patch # <<>> /\ ~Failed(result) =>
        LET o == Head(patch) doc == result after == Apply(doc, o)
        IN ~Failed(after) /\ (Len(o.path) > 1 => Existing(Base(doc, o), Front(o.path))) =>
            /\ o.op \in {"add", "copy", "move"} =>
                 IF UnderPrimitive(doc, o) THEN after = Base(doc, o) ELSE AddLands(doc, o, after)
            /\ o.op = "replace" => At(after, o.path) = o.value
            /\ o.op = "remove" /\ Existing(doc, o.path) => Add(after, o.path, At(doc, o.path)) = doc
=============================================================================

---------------------------- MODULE MCJsonParser ----------------------------
(***************************************************************************)
(* The JSON grammar and the meaning of a text, written as recursive         *)
(* definitions over the tokens, to hold JsonParser against.                *)
(***************************************************************************)
EXTENDS JsonParser

\* Each definition gives the positions after what it recognises at i, Cut where
\* the tokens end in it; the set is empty where there is none.
RECURSIVE ValueEnds(_, _), ElementsEnd(_, _), MembersEnd(_, _)

Cut == 0
Is(s, i, type) == i \in DOMAIN s /\ s[i].type = type
Over(s, i) == i \notin DOMAIN s

ValueEnds(s, i) ==
    IF Over(s, i) THEN {Cut}
    ELSE IF s[i].type \in {"literal", "huge", "string"} THEN {i + 1}
    ELSE IF Is(s, i, "[") THEN IF Is(s, i + 1, "]") THEN {i + 2} ELSE ElementsEnd(s, i + 1)
    ELSE IF Is(s, i, "{") THEN IF Is(s, i + 1, "}") THEN {i + 2} ELSE MembersEnd(s, i + 1)
    ELSE {}

ElementsEnd(s, i) ==
    UNION {IF Over(s, j) THEN {Cut}
           ELSE IF Is(s, j, ",") THEN ElementsEnd(s, j + 1)
           ELSE IF Is(s, j, "]") THEN {j + 1} ELSE {} : j \in ValueEnds(s, i)}

MembersEnd(s, i) ==
    IF Over(s, i) \/ (Is(s, i, "string") /\ Over(s, i + 1)) THEN {Cut}
    ELSE IF Is(s, i, "string") /\ Is(s, i + 1, ":")
    THEN UNION {IF Over(s, j) THEN {Cut}
                ELSE IF Is(s, j, ",") THEN MembersEnd(s, j + 1)
                ELSE IF Is(s, j, "}") THEN {j + 1} ELSE {} : j \in ValueEnds(s, i + 2)}
    ELSE {}

InGrammar(s) == \E j \in ValueEnds(s, 1) : Is(s, j, "eof") /\ j = Len(s)

\* s is in the grammar or begins a text that is
Begins(s) == InGrammar(s) \/ \E j \in ValueEnds(s, 1) : Over(s, j)
Huge(s) == \E i \in DOMAIN s : s[i].type = "huge"

\* What a text means, with the callback's answers: Nothing where a value is
\* not kept, a scalar by its place in the text, an array by the values of the
\* elements that are kept, an object by a function from keys, where the last
\* kept member with a key decides.
Nothing == [kind |-> "nothing"]
ArrayOf(kids) == [kind |-> "array", kids |-> kids]
ObjectOf(kids) == [kind |-> "object", kids |-> kids]
EndOf(s, i) == CHOOSE j \in ValueEnds(s, i) : TRUE

RECURSIVE Meaning(_, _), Elements(_, _), Members(_, _, _)

Meaning(s, i) ==
    LET end  == EndOf(s, i)
        kept == s[i].keep /\ (end > i + 1 => s[end - 1].keep)
    IN IF ~kept THEN Nothing
       ELSE IF s[i].type = "[" THEN ArrayOf(Elements(s, i + 1))
       ELSE IF s[i].type = "{" THEN ObjectOf(Members(s, i + 1, <<>>))
       ELSE [kind |-> "scalar", at |-> i]

Elements(s, i) ==
    IF s[i].type = "]" THEN <<>>
    ELSE LET end == EndOf(s, i)
             one == Meaning(s, i)
             rest == IF s[end].type = "," THEN Elements(s, end + 1) ELSE <<>>
         IN IF one = Nothing THEN rest ELSE <<one>> \o rest

Members(s, i, before) ==
    IF s[i].type = "}" THEN before
    ELSE LET end == EndOf(s, i + 2)
             without == [k \in DOMAIN before \ {s[i].text} |-> before[k]]
             value == Meaning(s, i + 2)
             after == IF ~s[i].keep THEN before
                      ELSE IF value = Nothing THEN without
                      ELSE (s[i].text :> value) @@ without
         IN IF s[end].type = "," THEN Members(s, end + 1, after) ELSE after

\* The tree under a node, without what is marked discarded.
RECURSIVE Tree(_, _)
Tree(d, i) ==
    LET n == d.nodes[i]
        live == {k \in DOMAIN n.kids : Kind(d, n.kids[k]) # "discarded"}
    IN IF n.kind = "array" THEN ArrayOf([k \in live |-> Tree(d, n.kids[k])])
       ELSE IF n.kind = "object" THEN ObjectOf([k \in live |-> Tree(d, n.kids[k])])
       ELSE IF n.kind = "scalar" THEN [kind |-> "scalar", at |-> n.at]
       ELSE Nothing

\* The parser accepts the texts of the grammar that have no number too large,
\* and refuses a text at the first token no text of the grammar could have
\* there: a trailing comma, a key without a value, a bracket that closes the
\* wrong container, text after the value.  (sax_parse_internal, parse)
AcceptsTheGrammar ==
    /\ pc = "done" => InGrammar(read) /\ ~Huge(read)
    /\ pc = "error" => \/ Begins(Front(read)) /\ ~Begins(read)
                       \/ Begins(read) /\ Token.type = "huge"
    /\ pc # "error" => ~Huge(Front(read))

\* The value built is the one the text means, and with a callback the one that
\* is left of it: a value is there exactly when the callback kept it, its key
\* and every container around it.  Members marked discarded do not count.
\* (json_sax_dom_parser, json_sax_dom_callback_parser)
RightValue ==
    pc = "done" => Tree(dom, dom.root) = Meaning(read, 1)
=============================================================================

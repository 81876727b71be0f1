----------------------------- MODULE JsonParser -----------------------------
(***************************************************************************)
(* The parser of dpp/nlohmann/json.hpp, which reads every event the        *)
(* gateway sends.  sax_parse_internal is one loop over a stack of open     *)
(* containers instead of a recursive descent; it reports what it reads to  *)
(* a SAX handler, and the two handlers that build a value keep a stack of  *)
(* pointers into that value.  The second one asks a callback at each event *)
(* whether to keep what was just read.                                     *)
(*                                                                         *)
(* A token is what the lexer hands over: its type, the text of a string    *)
(* (a small number), and the answer the callback gives at that token.  A    *)
(* number of type "huge" is one that no double can hold.                   *)
(***************************************************************************)
EXTENDS Integers, Sequences, TLC, SequencesExt

CONSTANTS
    Keys,        \* texts of strings, numbers so that std::map can order them
    MaxTokens,   \* bound: tokens before the end of the input
    Callback     \* is a callback given to parse()

VARIABLES
    read,        \* every token get_token() returned so far
    states,      \* the stack of open containers: TRUE an array, FALSE an object
    pc,          \* the place in sax_parse_internal
    dom          \* the handler: the value built so far and its stacks

vars == <<read, states, pc, dom>>

Answers == IF Callback THEN BOOLEAN ELSE {TRUE}
Tokens == [type : {":", ",", "huge", "bad", "eof"}, text : {0}, keep : {TRUE}]
          \cup [type : {"{", "}", "[", "]", "literal"}, text : {0}, keep : Answers]
          \cup [type : {"string"}, text : Keys, keep : Answers]

Token == Last(read)
At == Len(read)

-----------------------------------------------------------------------------
(* A node is a JSON value; kids maps positions or keys to nodes.  Node 0 is *)
(* the null pointer, node 1 the caller's result, null before the parse.     *)

NoNode == 0
NewNode(kind, at) == [kind |-> kind, at |-> at, kids |-> <<>>]
InitDom == [nodes |-> <<NewNode("null", 0)>>, root |-> 1, refs |-> <<>>,
            keeps |-> <<TRUE>>, keyKeeps |-> <<>>, element |-> [owner |-> NoNode, key |-> 0]]

Kind(d, i) == d.nodes[i].kind

\* Writes a new node into the place a container has for it.
PutAt(d, owner, slot, kind, at) ==
    [d EXCEPT !.nodes = Append([@ EXCEPT ![owner].kids = (slot :> (Len(d.nodes) + 1)) @@ @],
                               NewNode(kind, at))]

\* handle_value of the plain handler: the new node is the root, the next
\* element of the array on top, or the member object_element points to.
Store(d, kind, at) ==
    IF d.refs = <<>>
    THEN [d EXCEPT !.nodes = Append(@, NewNode(kind, at)), !.root = Len(d.nodes) + 1]
    ELSE IF Kind(d, Last(d.refs)) = "array"
         THEN PutAt(d, Last(d.refs), Len(d.nodes[Last(d.refs)].kids) + 1, kind, at)
         ELSE PutAt(d, d.element.owner, d.element.key, kind, at)

\* handle_value of the callback handler: does the value enter the tree?
Enters(d, keep, skip) ==
    /\ Last(d.keeps)
    /\ skip \/ keep
    /\ \/ d.refs = <<>>
       \/ /\ Last(d.refs) # NoNode
          /\ Kind(d, Last(d.refs)) = "array" \/ Last(d.keyKeeps)

\* The answer for the key is popped only when the value got as far as that.
AsksKey(d, keep, skip) ==
    /\ Last(d.keeps)
    /\ skip \/ keep
    /\ d.refs # <<>>
    /\ Last(d.refs) # NoNode
    /\ Kind(d, Last(d.refs)) = "object"

Handle(d, kind, token, at, skip) ==
    LET popped == IF AsksKey(d, token.keep, skip) THEN [d EXCEPT !.keyKeeps = Front(@)] ELSE d
    IN IF Enters(d, token.keep, skip) THEN Store(popped, kind, at) ELSE popped

-----------------------------------------------------------------------------
(* The SAX events.                                                          *)

\* null, boolean, number_*, string
ScalarEvent(d, token, at) ==
    IF Callback THEN Handle(d, "scalar", token, at, FALSE) ELSE Store(d, "scalar", at)

\* start_object and start_array; a container that is not kept has no node
StartEvent(d, kind, token, at) ==
    IF Callback
    THEN LET asked == [d EXCEPT !.keeps = Append(@, token.keep)]
             after == Handle(asked, kind, token, at, TRUE)
         IN [after EXCEPT !.refs = Append(@, IF Enters(asked, token.keep, TRUE)
                                             THEN Len(after.nodes) ELSE NoNode)]
    ELSE LET after == Store(d, kind, at)
         IN [after EXCEPT !.refs = Append(@, Len(after.nodes))]

\* key: the plain handler makes the member null unless it exists, the other
\* one makes it discarded when the key is kept
KeyEvent(d, token, at) ==
    LET owner   == Last(d.refs)
        pointed == [d EXCEPT !.element = [owner |-> owner, key |-> token.text]]
        asked   == [d EXCEPT !.keyKeeps = Append(@, token.keep)]
    IN IF Callback
       THEN IF token.keep /\ owner # NoNode
            THEN PutAt([asked EXCEPT !.element = pointed.element], owner, token.text, "discarded", at)
            ELSE asked
       ELSE IF token.text \in DOMAIN d.nodes[owner].kids
            THEN pointed
            ELSE PutAt(pointed, owner, token.text, "null", at)

\* erase: the first discarded child of a container, and only that one
EraseFirst(d, i) ==
    LET kids == d.nodes[i].kids
        dead == {k \in DOMAIN kids : Kind(d, kids[k]) = "discarded"}
        first == CHOOSE k \in dead : \A j \in dead : k <= j
    IN IF dead = {} THEN d
       ELSE [d EXCEPT !.nodes[i].kids =
               IF d.nodes[i].kind = "array" THEN RemoveAt(@, first)
               ELSE [k \in DOMAIN @ \ {first} |-> @[k]]]

Discard(d, i) == [d EXCEPT !.nodes[i].kind = "discarded", !.nodes[i].kids = <<>>]

\* end_object, end_array: the callback is asked again, about a container it kept
Closed(d, token) ==
    IF Last(d.refs) # NoNode /\ ~token.keep THEN Discard(d, Last(d.refs)) ELSE d

\* Seeded error: a container its closing callback refuses is not taken out of
\* the array it is in.
EndEvent_NoErase(d, kind, token) ==
    [(IF Callback THEN Closed(d, [token EXCEPT !.keep = TRUE]) ELSE d)
        EXCEPT !.refs = Front(@), !.keeps = Front(@)]

EndEvent(d, kind, token) ==
    IF ~Callback THEN [d EXCEPT !.refs = Front(@)]
    ELSE LET popped == [Closed(d, token) EXCEPT !.refs = Front(@), !.keeps = Front(@)]
             outer  == IF popped.refs = <<>> THEN NoNode ELSE Last(popped.refs)
         IN IF outer = NoNode THEN popped
            ELSE IF kind = "object"
                 THEN EraseFirst(popped, outer)
                 ELSE IF Last(d.refs) # NoNode /\ ~token.keep /\ Kind(popped, outer) = "array"
                      THEN [popped EXCEPT !.nodes[outer].kids = Front(@)]
                      ELSE popped

-----------------------------------------------------------------------------
(* sax_parse_internal.  get_token() takes any token while the input lasts.  *)

GetToken ==
    \E t \in Tokens :
        /\ Len(read) >= MaxTokens => t.type = "eof"
        /\ read' = Append(read, t)

Go(place) == pc' = place

Init ==
    /\ \E t \in Tokens : (MaxTokens = 0 => t.type = "eof") /\ read = <<t>>
    /\ states = <<>> /\ pc = "value" /\ dom = InitDom

\* sax->parse_error: the result is discarded, or an exception is thrown.
Fail(wanted) ==
    /\ Token.type \notin wanted
    /\ Go("error") /\ UNCHANGED <<read, states, dom>>

BeginObject ==
    /\ pc = "value" /\ Token.type = "{"
    /\ dom' = StartEvent(dom, "object", Token, At)
    /\ GetToken /\ Go("firstKey") /\ UNCHANGED states

FirstKey ==
    /\ pc = "firstKey"
    /\ \/ /\ Token.type = "}"
          /\ dom' = EndEvent(dom, "object", Token)
          /\ Go("evaluate") /\ UNCHANGED <<read, states>>
       \/ /\ Token.type = "string"
          /\ dom' = KeyEvent(dom, Token, At)
          /\ GetToken /\ Go("firstColon") /\ UNCHANGED states
       \/ Fail({"}", "string"})

Colon ==
    /\ pc \in {"firstColon", "colon"}
    /\ \/ /\ Token.type = ":"
          /\ states' = IF pc = "firstColon" THEN Append(states, FALSE) ELSE states
          /\ GetToken /\ Go("value") /\ UNCHANGED dom
       \/ Fail({":"})

BeginArray ==
    /\ pc = "value" /\ Token.type = "["
    /\ dom' = StartEvent(dom, "array", Token, At)
    /\ GetToken /\ Go("firstElement") /\ UNCHANGED states

FirstElement ==
    /\ pc = "firstElement"
    /\ IF Token.type = "]"
       THEN dom' = EndEvent(dom, "array", Token) /\ Go("evaluate") /\ UNCHANGED states
       ELSE states' = Append(states, TRUE) /\ Go("value") /\ UNCHANGED dom
    /\ UNCHANGED read

\* A float that is not finite is refused here, not by the lexer.
Scalar ==
    /\ pc = "value"
    /\ \/ /\ Token.type \in {"literal", "string"}
          /\ dom' = ScalarEvent(dom, Token, At)
          /\ Go("evaluate") /\ UNCHANGED <<read, states>>
       \/ Fail({"literal", "string", "{", "["})

\* A value is complete: the top of the stack says what may follow it.  With
\* no container open the value was the whole text, and parse() reads on to
\* see that nothing follows.
Evaluate ==
    /\ pc = "evaluate"
    /\ GetToken
    /\ Go(IF states = <<>> THEN "last" ELSE IF Last(states) THEN "nextElement" ELSE "nextMember")
    /\ UNCHANGED <<states, dom>>

NextElement ==
    /\ pc = "nextElement"
    /\ \/ Token.type = "," /\ GetToken /\ Go("value") /\ UNCHANGED <<states, dom>>
       \/ /\ Token.type = "]"
          /\ dom' = EndEvent(dom, "array", Token)
          /\ states' = Front(states)
          /\ Go("evaluate") /\ UNCHANGED read
       \/ Fail({",", "]"})

NextMember ==
    /\ pc = "nextMember"
    /\ \/ Token.type = "," /\ GetToken /\ Go("key") /\ UNCHANGED <<states, dom>>
       \/ /\ Token.type = "}"
          /\ dom' = EndEvent(dom, "object", Token)
          /\ states' = Front(states)
          /\ Go("evaluate") /\ UNCHANGED read
       \/ Fail({",", "}"})

Key ==
    /\ pc = "key"
    /\ \/ /\ Token.type = "string"
          /\ dom' = KeyEvent(dom, Token, At)
          /\ GetToken /\ Go("colon") /\ UNCHANGED states
       \/ Fail({"string"})

\* The end of parse(): the result of a callback parse that was discarded as a
\* whole is null.
Strict ==
    /\ pc = "last"
    /\ \/ /\ Token.type = "eof"
          /\ dom' = IF Kind(dom, dom.root) = "discarded"
                    THEN [dom EXCEPT !.nodes[dom.root].kind = "null"] ELSE dom
          /\ Go("done") /\ UNCHANGED <<read, states>>
       \/ Fail({"eof"})

Next ==
    \/ BeginObject \/ FirstKey \/ Colon \/ BeginArray \/ FirstElement \/ Scalar
    \/ Evaluate \/ NextElement \/ NextMember \/ Key \/ Strict

Spec == Init /\ [][Next]_vars

-----------------------------------------------------------------------------

\* The parser's stack of states and the handler's stack of references are two
\* records of the same nesting, kept in different places: between values they
\* are equally deep, and where the parser looks for an element the handler
\* holds an array, else an object.  (sax_parse_internal, handle_value)
StacksAgree ==
    /\ pc \in {"value", "evaluate", "nextElement", "nextMember", "key", "colon", "last"} =>
        /\ Len(states) = Len(dom.refs)
        /\ \A i \in 1 .. Len(states) :
             dom.refs[i] # NoNode => Kind(dom, dom.refs[i]) = IF states[i] THEN "array" ELSE "object"
    /\ Len(dom.keeps) = Len(dom.refs) + 1 \/ ~Callback

\* The pointers the handlers keep into the tree they are changing stay good:
\* every reference on the stack is the newest child of the one under it, so
\* that no later push_back moves it.  (json_sax_dom_parser::ref_stack)
RefsAreAPath ==
    pc # "error" =>
      \A i \in 1 .. Len(dom.refs) :
        dom.refs[i] # NoNode =>
            IF i = 1 THEN dom.refs[i] = dom.root
            ELSE /\ dom.refs[i - 1] # NoNode
                 /\ LET kids == dom.nodes[dom.refs[i - 1]].kids
                    IN IF Kind(dom, dom.refs[i - 1]) = "array"
                       THEN kids # <<>> /\ Last(kids) = dom.refs[i]
                       ELSE \E k \in DOMAIN kids : kids[k] = dom.refs[i]
=============================================================================

------------------------------- MODULE Dotenv -------------------------------
(***************************************************************************)
(* src/cores/client_dotenv.h: load() reads a file line by line, skips the  *)
(* comments, expands the variables in place and stores KEY=VALUE.          *)
(*                                                                         *)
(* A line is a sequence of characters; a variable's name and its value are *)
(* such sequences too.  Positions start at 1, and 0 is npos.               *)
(***************************************************************************)
EXTENDS Naturals, Sequences, SequencesExt, FiniteSetsExt

CONSTANT Files        \* the files that load() may be given

VARIABLES
    file,             \* the lines that std::getline has not read yet
    line, pos,        \* expandVariables: the line and where find('$') goes on
    pc,               \* "read", "expand", "parse" or "done"
    variables_,       \* name -> value
    (* History *)
    original          \* the line as it was read

vars == <<file, line, pos, pc, variables_, original>>

Empty == [name \in {} |-> <<>>]

Init ==
    /\ file \in Files
    /\ line = <<>> /\ original = <<>>
    /\ pos = 1
    /\ pc = "read"
    /\ variables_ = Empty

-----------------------------------------------------------------------------
has(vs, name) == name \in DOMAIN vs
ValueOf(vs, name) == IF has(vs, name) THEN vs[name] ELSE <<>>

(* std::string::find *)
Find(text, c, from) ==
    LET at == {i \in from..Len(text) : text[i] = c}
    IN  IF at = {} THEN 0 ELSE Min(at)

From(text, i) == SubSeq(text, i, Len(text))

isComment(text) == Find(text, "#", 1) = 1

(* iss >> std::ws, then std::getline up to '='; the same to the end of the  *)
(* line.  A getline at the end of the stream fails and nothing is stored.   *)
SkipWs(text) ==
    LET at == {i \in 1..Len(text) : text[i] # " "}
    IN  IF at = {} THEN <<>> ELSE From(text, Min(at))

parseLine(text, vs) ==
    LET t  == SkipWs(text)
        eq == Find(t, "=", 1)
        v  == SkipWs(From(t, eq + 1))
        key == SubSeq(t, 1, eq - 1)
    IN  IF eq = 0 \/ v = <<>> THEN vs
        ELSE [name \in DOMAIN vs \union {key} |-> IF name = key THEN v ELSE vs[name]]

(* line.replace(first, last - first + 1, value), and pos goes behind it. *)
Splice(text, first, last, value) ==
    [line |-> SubSeq(text, 1, first - 1) \o value \o From(text, last + 1),
     pos  |-> first + Len(value)]

(* Seeded error: find() starts again at the text just put in. *)
Turn_Rescans(text, p, vs) ==
    LET end  == IF text[p + 1] = "{" THEN Find(text, "}", p + 2) ELSE Len(text)
        name == IF text[p + 1] = "{" THEN SubSeq(text, p + 2, end - 1) ELSE From(text, p + 1)
    IN  IF text[p + 1] = "\\"
        THEN [line |-> RemoveAt(text, p), pos |-> p + 1]
        ELSE IF end = 0 THEN [line |-> text, pos |-> p + 1]
        ELSE [Splice(text, p, end, ValueOf(vs, name)) EXCEPT !.pos = p]

(* One turn of the loop, at a '$' that is not the last character: $\ loses   *)
(* the '$' and skips the backslash, ${NAME} and $NAME, which goes on to the  *)
(* end of the line, are replaced, and an unclosed ${ is stepped over.       *)
Turn(text, p, vs) ==
    LET end  == IF text[p + 1] = "{" THEN Find(text, "}", p + 2) ELSE Len(text)
        name == IF text[p + 1] = "{" THEN SubSeq(text, p + 2, end - 1) ELSE From(text, p + 1)
    IN  IF text[p + 1] = "\\"
        THEN [line |-> RemoveAt(text, p), pos |-> p + 1]
        ELSE IF end = 0 THEN [line |-> text, pos |-> p + 1]
        ELSE Splice(text, p, end, ValueOf(vs, name))

-----------------------------------------------------------------------------
(* load() *)

ReadLine ==
    /\ pc = "read"
    /\ IF file = <<>>
       THEN pc' = "done" /\ UNCHANGED <<file, line, original>>
       ELSE /\ file' = Tail(file)
            /\ line' = Head(file) /\ original' = Head(file)
            /\ pc' = IF isComment(Head(file)) THEN "read" ELSE "expand"
    /\ pos' = 1
    /\ UNCHANGED variables_

Expand ==
    /\ pc = "expand"
    /\ LET p == Find(line, "$", pos)
       IN  IF p = 0 \/ p = Len(line)
           THEN pc' = "parse" /\ UNCHANGED <<line, pos>>
           ELSE LET turn == Turn(line, p, variables_)
                IN  line' = turn.line /\ pos' = turn.pos /\ UNCHANGED pc
    /\ UNCHANGED <<file, variables_, original>>

Parse ==
    /\ pc = "parse"
    /\ variables_' = parseLine(line, variables_)
    /\ pc' = "read"
    /\ UNCHANGED <<file, line, pos, original>>

Next == ReadLine \/ Expand \/ Parse

(* load() is called once, on a thread that nothing stops. *)
Spec == Init /\ [][Next]_vars

-----------------------------------------------------------------------------
(* Properties *)

(* What expansion means, read off the original line from left to right:     *)
(* text[i] on, with every reference replaced by a value that is itself left *)
(* alone.                                                                   *)
Expansion(text, vs) ==
    LET n == Len(text)
        e[i \in 1..(n + 3)] ==
            IF i > n THEN <<>>
            ELSE IF text[i] # "$" \/ i = n THEN <<text[i]>> \o e[i + 1]
            ELSE IF text[i + 1] = "\\" THEN <<"\\">> \o e[i + 2]
            ELSE IF text[i + 1] # "{" THEN ValueOf(vs, From(text, i + 1))
            ELSE LET close == Find(text, "}", i + 2)
                 IN  IF close = 0 THEN <<"$">> \o e[i + 1]
                     ELSE ValueOf(vs, SubSeq(text, i + 2, close - 1)) \o e[close + 1]
    IN  e[1]

(* The loop, which edits the line under its own feet, gives exactly that:   *)
(* no character is skipped, none is expanded twice.                         *)
ExpandsOnce == pc = "parse" => line = Expansion(original, variables_)
=============================================================================

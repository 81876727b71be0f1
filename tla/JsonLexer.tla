------------------------------ MODULE JsonLexer ------------------------------
(***************************************************************************)
(* The lexer of dpp/nlohmann/json.hpp but for strings (see JsonStrings): a  *)
(* byte order mark, white space, comments, literals and numbers.  It reads  *)
(* one character ahead and gives it back by a flag, next_unget, beside     *)
(* which it keeps the position it reports errors at.                       *)
(***************************************************************************)
EXTENDS Integers, Sequences, SequencesExt

CONSTANTS
    Alphabet,        \* characters, of those named below
    MaxLength,       \* bound: characters in the input
    UnsignedMax,     \* largest number_unsigned_t
    IntegerMin,      \* the smallest number_integer_t is - IntegerMin
    IgnoreComments   \* ignore_comments

Digits == <<"0", "1", "2", "3", "4", "5", "6", "7", "8", "9">>
Space == {"SP", "TAB", "LF", "CR"}
Structural == {"[", "]", "{", "}", ":", ","}
EOF == "eof"
NUL == "nul"
Literals == {<<"t", "r", "u", "e">>, <<"f", "a", "l", "s", "e">>, <<"n", "u", "l", "l">>}

VARIABLES
    input,       \* what the input adapter has given so far
    ended,       \* it has reported the end of the input
    current, next_unget,
    position,    \* chars_read_total, chars_read_current_line, lines_read
    pc,          \* the label in scan() and the functions it calls
    token,       \* token_buffer, or what of a literal was read
    tokens       \* what scan() returned, with the text

vars == <<input, ended, current, next_unget, position, pc, token, tokens>>

IsDigit(c) == \E d \in DOMAIN Digits : Digits[d] = c
DigitOf(c) == (CHOOSE d \in DOMAIN Digits : Digits[d] = c) - 1

-----------------------------------------------------------------------------
(* get() and unget().                                                       *)

Got(p, c) ==
    [total |-> p.total + 1,
     column |-> IF c = "LF" THEN 0 ELSE p.column + 1,
     lines |-> IF c = "LF" THEN p.lines + 1 ELSE p.lines]

\* giving back a newline, the column of the line before is not known any more
Ungot(p) ==
    [total |-> p.total - 1,
     column |-> IF p.column > 0 THEN p.column - 1 ELSE 0,
     lines |-> IF p.column = 0 /\ p.lines > 0 THEN p.lines - 1 ELSE p.lines]

\* the character get() returns
Taken(c) ==
    IF next_unget THEN c = current /\ UNCHANGED <<input, ended>>
    ELSE \/ /\ c \in Alphabet /\ ~ended /\ Len(input) < MaxLength
            /\ input' = Append(input, c) /\ UNCHANGED ended
         \/ c = EOF /\ ended' = TRUE /\ UNCHANGED input

Chars == Alphabet \cup {EOF}

\* get(), and unget() where the label gives the character back
Step(c, label, back) ==
    /\ Taken(c)
    /\ current' = c /\ next_unget' = back
    /\ position' = IF back THEN Ungot(Got(position, c)) ELSE Got(position, c)
    /\ pc' = label

Keep(c, label, back) == Step(c, label, back) /\ UNCHANGED <<token, tokens>>
Grow(c, label) == Step(c, label, FALSE) /\ token' = Append(token, c) /\ UNCHANGED tokens
Return(c, label, back, type, text) ==
    /\ Step(c, label, back)
    /\ token' = <<>> /\ tokens' = Append(tokens, [type |-> type, text |-> text])

-----------------------------------------------------------------------------
(* skip_bom and scan.                                                       *)

Init ==
    /\ input = <<>> /\ ended = FALSE /\ current = EOF /\ next_unget = FALSE
    /\ position = [total |-> 0, column |-> 0, lines |-> 0]
    /\ pc = "bom" /\ token = <<>> /\ tokens = <<>>

Bom == pc = "bom" /\ \E c \in Chars : Keep(c, IF c = "EF" THEN "bom2" ELSE "space", c # "EF")
BomSecond == pc = "bom2" /\ \E c \in Chars : Keep(c, IF c = "BB" THEN "bom3" ELSE "error", FALSE)
BomThird == pc = "bom3" /\ \E c \in Chars : Keep(c, IF c = "BF" THEN "space" ELSE "error", FALSE)

NumberStart(c) == IF c = "-" THEN "minus" ELSE IF c = "0" THEN "zero" ELSE "any1"

Scan ==
    /\ pc = "space"
    /\ \E c \in Chars :
        \/ c \in Space /\ Keep(c, "space", FALSE)
        \/ c \in Structural /\ Return(c, "space", FALSE, "punctuation", <<c>>)
        \/ (\E l \in Literals : l[1] = c) /\ Grow(c, "literal")
        \/ (c = "-" \/ IsDigit(c)) /\ Grow(c, NumberStart(c))
        \/ c \in {EOF, NUL} /\ Keep(c, "end", FALSE)
        \/ c = "/" /\ Keep(c, IF IgnoreComments THEN "comment" ELSE "error", FALSE)
        \/ /\ c \notin Space \cup Structural \cup {"-", "/", EOF, NUL}
           /\ ~IsDigit(c) /\ ~\E l \in Literals : l[1] = c
           /\ Keep(c, "error", FALSE)

\* scan_literal: TRUE as long as what was read starts a literal
Literal ==
    /\ pc = "literal"
    /\ \E c \in Chars :
        LET text == Append(token, c)
        IN IF text \in Literals THEN Return(c, "space", FALSE, "literal", text)
           ELSE IF \E l \in Literals : IsPrefix(text, l) THEN Grow(c, "literal")
           ELSE Keep(c, "error", FALSE)

-----------------------------------------------------------------------------
(* scan_comment.  The end of the input, a null and a line break all end a    *)
(* comment of one line.                                                     *)

Comment ==
    /\ pc = "comment"
    /\ \E c \in Chars :
        Keep(c, IF c = "/" THEN "line" ELSE IF c = "*" THEN "block" ELSE "error", FALSE)

LineComment ==
    /\ pc = "line"
    /\ \E c \in Chars : Keep(c, IF c \in {"LF", "CR", EOF, NUL} THEN "space" ELSE "line", FALSE)

BlockComment ==
    /\ pc = "block"
    /\ \E c \in Chars :
        Keep(c, IF c \in {EOF, NUL} THEN "error" ELSE IF c = "*" THEN "star" ELSE "block", FALSE)

Star ==
    /\ pc = "star"
    /\ \E c \in Chars : IF c = "/" THEN Keep(c, "space", FALSE) ELSE Keep(c, "block", TRUE)

-----------------------------------------------------------------------------
(* scan_number.                                                             *)

Labels == {"minus", "zero", "any1", "decimal1", "decimal2", "exponent", "sign", "any2"}

Continue(label, c) ==
    CASE IsDigit(c) /\ label = "minus" -> IF c = "0" THEN "zero" ELSE "any1"
      [] IsDigit(c) /\ label = "any1" -> "any1"
      [] IsDigit(c) /\ label \in {"decimal1", "decimal2"} -> "decimal2"
      [] IsDigit(c) /\ label \in {"exponent", "sign", "any2"} -> "any2"
      [] c = "." /\ label \in {"zero", "any1"} -> "decimal1"
      [] c \in {"e", "E"} /\ label \in {"zero", "any1", "decimal2"} -> "exponent"
      [] c \in {"+", "-"} /\ label = "exponent" -> "sign"
      [] OTHER -> IF label \in {"zero", "any1", "decimal2", "any2"} THEN "done" ELSE "error"

ValueOf(text) == FoldLeft(LAMBDA n, c : IF IsDigit(c) THEN 10 * n + DigitOf(c) ELSE n, 0, text)

\* what strtoull and strtoll cannot hold falls through to strtod
TypeOf(text) ==
    IF \E i \in DOMAIN text : text[i] \in {".", "e", "E"} THEN "float"
    ELSE IF text[1] = "-" THEN IF ValueOf(text) <= IntegerMin THEN "integer" ELSE "float"
    ELSE IF ValueOf(text) <= UnsignedMax THEN "unsigned" ELSE "float"

Number ==
    /\ pc \in Labels
    /\ \E c \in Chars :
        LET next == Continue(pc, c)
        IN IF next = "done" THEN Return(c, "space", TRUE, TypeOf(token), token)
           ELSE IF next = "error" THEN Keep(c, "error", FALSE)
           ELSE Grow(c, next)

Next ==
    \/ Bom \/ BomSecond \/ BomThird \/ Scan \/ Literal
    \/ Comment \/ LineComment \/ BlockComment \/ Star \/ Number

Spec == Init /\ [][Next]_vars

-----------------------------------------------------------------------------
\* The position an error is reported at is the one of the last character read,
\* however many characters were given back on the way: it counts what has been
\* taken and not given back, and the line breaks among that.  (get, unget)
PositionIsTrue ==
    pc # "end" /\ ~ended =>
        LET back == IF next_unget THEN 1 ELSE 0
            seen == SubSeq(input, 1, Len(input) - back)
            breaks == {i \in DOMAIN seen : seen[i] = "LF"}
        IN /\ position.total = Len(seen)
           /\ position.lines = Len(SelectSeq(seen, LAMBDA c : c = "LF"))
           /\ (next_unget => current # "LF") =>
                position.column = Len(seen) - (IF breaks = {} THEN 0 ELSE CHOOSE i \in breaks : \A j \in breaks : j <= i)
=============================================================================

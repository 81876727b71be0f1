----------------------------- MODULE JsonPointer -----------------------------
(***************************************************************************)
(* The text of a JSON pointer in dpp/nlohmann/json.hpp: its tokens are      *)
(* joined with slashes, in which "~" and "/" are escaped by two passes of   *)
(* replace_substring over the token, and split() takes a text apart again.  *)
(* A text is a sequence of characters; one is typed here, one by one.      *)
(***************************************************************************)
EXTENDS Integers, Sequences, SequencesExt

CONSTANTS
    Alphabet,     \* characters, "/", "~", "0" and "1" among them
    MaxLength     \* bound: characters of a text

VARIABLES text    \* what is taken for a pointer, and for one token

-----------------------------------------------------------------------------
(* escape and unescape.                                                     *)

\* s.find(f, pos): the first place from pos on, 0 for npos
Find(s, f, pos) ==
    LET at == {p \in pos .. Len(s) - Len(f) + 1 : SubSeq(s, p, p + Len(f) - 1) = f}
    IN IF at = {} THEN 0 ELSE CHOOSE p \in at : \A q \in at : p <= q

\* The search goes on behind what was put in, so that it is not found again.
RECURSIVE ReplaceFrom(_, _, _, _)
ReplaceFrom(s, f, t, pos) ==
    LET p == Find(s, f, pos)
    IN IF p = 0 THEN s
       ELSE ReplaceFrom(SubSeq(s, 1, p - 1) \o t \o SubSeq(s, p + Len(f), Len(s)), f, t, p + Len(t))
replace_substring(s, f, t) == ReplaceFrom(s, f, t, 1)

escape(s) == replace_substring(replace_substring(s, <<"~">>, <<"~", "0">>), <<"/">>, <<"~", "1">>)

unescape(s) == replace_substring(replace_substring(s, <<"~", "1">>, <<"/">>), <<"~", "0">>, <<"~">>)

-----------------------------------------------------------------------------
(* to_string and split.                                                     *)

to_string(tokens) == FoldLeft(LAMBDA a, b : a \o <<"/">> \o escape(b), <<>>, tokens)

Thrown(e) == [error |-> e]
Tokens(ts) == [tokens |-> ts]
Failed(r) == "error" \in DOMAIN r

\* a tilde that is followed by neither 0 nor 1
BadTilde(token) ==
    \E p \in DOMAIN token : token[p] = "~" /\ (p = Len(token) \/ token[p + 1] \notin {"0", "1"})

\* the loop of split: start is behind the last slash that was read
RECURSIVE SplitFrom(_, _, _)
SplitFrom(s, start, tokens) ==
    LET slash == Find(s, <<"/">>, start)
        token == SubSeq(s, start, IF slash = 0 THEN Len(s) ELSE slash - 1)
        grown == Append(tokens, unescape(token))
    IN IF BadTilde(token) THEN Thrown(108)
       ELSE IF slash = 0 THEN Tokens(grown) ELSE SplitFrom(s, slash + 1, grown)

split(s) ==
    IF s = <<>> THEN Tokens(<<>>)
    ELSE IF s[1] # "/" THEN Thrown(107)
    ELSE SplitFrom(s, 2, <<>>)

-----------------------------------------------------------------------------
(* array_index, where std::stoull throws as well.                           *)

-----------------------------------------------------------------------------
Init == text = <<>>

Type == /\ Len(text) < MaxLength
        /\ \E c \in Alphabet : text' = Append(text, c)

Spec == Init /\ [][Type]_text

-----------------------------------------------------------------------------
\* Two texts never mean the same pointer, and a text that is accepted is what
\* the pointer is written as.  (json_pointer::split, to_string)
TextIsCanonical ==
    ~Failed(split(text)) => to_string(split(text).tokens) = text

\* Whatever a key looks like, with slashes and what looks like escapes in it,
\* a pointer made of it is written and read back, alone and behind another
\* one: a key never becomes two tokens or another key.  (escape, unescape)
AnyKeyIsAToken ==
    /\ unescape(escape(text)) = text
    /\ split(to_string(<<text>>)) = Tokens(<<text>>)
    /\ split(to_string(<<text, text>>)) = Tokens(<<text, text>>)
=============================================================================

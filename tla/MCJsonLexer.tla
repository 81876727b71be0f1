----------------------------- MODULE MCJsonLexer -----------------------------
(***************************************************************************)
(* The tokens of a text by the grammar, to hold the lexer against.         *)
(***************************************************************************)
EXTENDS JsonLexer

AllDigits(s) == s # <<>> /\ \A i \in DOMAIN s : IsDigit(s[i])
Part(s, i, j) == SubSeq(s, i, j)

\* number = [ minus ] int [ frac ] [ exp ]
IsInt(s) == AllDigits(s) /\ (s[1] = "0" => Len(s) = 1)
IsFrac(s) == s = <<>> \/ (s[1] = "." /\ AllDigits(Tail(s)))
IsExp(s) ==
    \/ s = <<>>
    \/ s[1] \in {"e", "E"} /\ (AllDigits(Tail(s)) \/
          (Len(s) > 2 /\ s[2] \in {"+", "-"} /\ AllDigits(Part(s, 3, Len(s)))))
IsNumber(s) ==
    \E i \in {0, 1}, j, k \in 0 .. Len(s) :
        /\ i = 1 => s # <<>> /\ s[1] = "-"
        /\ i <= j /\ j <= k
        /\ IsInt(Part(s, i + 1, j)) /\ IsFrac(Part(s, j + 1, k)) /\ IsExp(Part(s, k + 1, Len(s)))

\* The type that can hold a number: a whole one is compared with the limits
\* digit by digit, as it has no zeros in front.
RECURSIVE Decimal(_)
Decimal(n) == IF n < 10 THEN <<Digits[n + 1]>> ELSE Append(Decimal(n \div 10), Digits[(n % 10) + 1])
WithinDigits(s, limit) ==
    \/ Len(s) < Len(limit)
    \/ Len(s) = Len(limit) /\ \/ s = limit
                              \/ \E i \in DOMAIN s : /\ Part(s, 1, i - 1) = Part(limit, 1, i - 1)
                                                     /\ DigitOf(s[i]) < DigitOf(limit[i])
NumberType(s) ==
    IF IsInt(s) /\ WithinDigits(s, Decimal(UnsignedMax)) THEN "unsigned"
    ELSE IF s[1] = "-" /\ IsInt(Tail(s)) /\ WithinDigits(Tail(s), Decimal(IntegerMin)) THEN "integer"
    ELSE "float"

\* the beginning of a number, or of a literal
StartsToken(s) ==
    IsNumber(s) \/ IsNumber(Append(s, "0")) \/ \E l \in Literals : IsPrefix(s, l)

\* Where a comment that begins at i ends; 0 when it does not.
At(s, i) == IF i <= Len(s) THEN s[i] ELSE EOF
First(S) == CHOOSE j \in S : \A k \in S : j <= k
CommentEnd(s, i) ==
    IF At(s, i + 1) = "/"
    THEN 1 + First({j \in i + 2 .. Len(s) + 1 : At(s, j) \in {"LF", "CR", NUL, EOF}})
    ELSE LET ends == {j \in i + 3 .. Len(s) : /\ At(s, j - 1) = "*" /\ At(s, j) = "/"
                                             /\ \A k \in i + 2 .. j : At(s, k) # NUL}
         IN IF At(s, i + 1) # "*" \/ ends = {} THEN 0 ELSE 1 + First(ends)

\* The tokens from position i on; the last one is "end" or "error".
Token(type, text) == <<[type |-> type, text |-> text]>>
RECURSIVE Tokens(_, _)
Tokens(s, i) ==
    LET c == At(s, i)
        ends == {j \in i .. Len(s) : \A k \in i .. j : StartsToken(Part(s, i, k))}
        last == CHOOSE j \in ends : \A k \in ends : k <= j
        text == Part(s, i, last)
    IN IF c \in {EOF, NUL} THEN Token("end", <<>>)
       ELSE IF c \in Space THEN Tokens(s, i + 1)
       ELSE IF c \in Structural THEN Token("punctuation", <<c>>) \o Tokens(s, i + 1)
       ELSE IF c = "/" /\ IgnoreComments /\ CommentEnd(s, i) # 0 THEN Tokens(s, CommentEnd(s, i))
       ELSE IF ends = {} THEN Token("error", <<>>)
       ELSE IF text \in Literals THEN Token("literal", text) \o Tokens(s, last + 1)
       ELSE IF IsNumber(text) THEN Token(NumberType(text), text) \o Tokens(s, last + 1)
       ELSE Token("error", <<>>)

Marked(s) == Len(s) >= 3 /\ SubSeq(s, 1, 3) = <<"EF", "BB", "BF">>

\* The lexer finds exactly the tokens of the text: each number is the longest
\* the grammar has there and of the type that can hold it, comments end where
\* they should, and the first thing that is no token is an error.  (scan)
RightTokens ==
    /\ pc = "end" => tokens \o Token("end", <<>>) = Tokens(input, IF Marked(input) THEN 4 ELSE 1)
    /\ pc = "error" => LET start == IF Marked(input) THEN 4 ELSE 1
                       IN tokens \o Token("error", <<>>) = Tokens(input, start)
=============================================================================

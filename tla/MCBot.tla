------------------------------- MODULE MCBot -------------------------------
(* Bot for TLC: files of up to three token lines; files that try the     *)
(* expansion, a plain value or one that could be taken for a reference and   *)
(* then every short line of the characters the code looks at; and files      *)
(* whose token is any group, a pair of groups or the encoding of a message. *)
EXTENDS Bot, TLC

CONSTANT MaxLen

MCKey == <<"T">>
TokenLines ==
    { <<"T", "=", "A", "B", "=", "=">>, <<" ", "T", "=", " ", "B", "A">>, <<"T", "=">>,
      <<"T", "=", " ", " ">>, <<"#", "T", "=", "A">>, <<"T", "=", "$", "{", "u", "}", "A", "A">>,
      <<"u", "=", "B", "$">>, <<"$", "T", "=", "B">>, <<>> }
TokenFiles == UNION {[1..n -> TokenLines] : n \in 0..3}

Chars    == {"$", "{", "}", "\\", "=", "#", " ", "a"}
Texts    == UNION {[1..n -> Chars] : n \in 0..MaxLen}
Firsts   == { <<"a", "=", "a">>, <<"a", "=", "$">>, <<"a", "=", "$", "{">> }
Heads    == { <<>>, <<"a", "=">>, <<"$", "{", "a", "}">>, <<"a", "=", "$", "{", "a", "}">> }
ExpansionFiles == {<<first, prefix \o text>> : first \in Firsts, prefix \in Heads, text \in Texts}

MCSextets == [A |-> 0, B |-> 1, D |-> 3, P |-> 15, w |-> 48] @@ ("8" :> 60) @@ ("/" :> 63)
Letters    == DOMAIN MCSextets \union {"=", "!"}
Letter(x)  == CHOOSE c \in Letters : Symbol(c) = x
MCMessages == UNION {[1..n -> {0, 255}] : n \in 0..6}
Groups     == [1..4 -> {"A", "B", "/", "!", "="}]
Pairs      == { <<"A", "/", "B", "/">>, <<"/", "!", "A", "B">>, <<"!", "B", "B", "A">>,
                <<"B", "A", "=", "=">>, <<"/", "B", "A", "=">> }
DecodeFiles ==
    { <<MCKey \o <<"=">> \o value>> :
        value \in Groups \union {g \o h : g \in Pairs, h \in Pairs}
                  \union {[k \in DOMAIN e |-> Letter(e[k])] : e \in {Dec!Encode(m) : m \in MCMessages}} }

MCFiles == TokenFiles \union ExpansionFiles \union DecodeFiles
MCLoginFiles == { <<MCKey \o <<"=">> \o <<"A", "A", "A", "A">>>> }
=============================================================================

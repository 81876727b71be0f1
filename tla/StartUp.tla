------------------------------ MODULE StartUp ------------------------------
(***************************************************************************)
(* main() of src/src/main.cpp up to client.start: the environment file is  *)
(* loaded (Dotenv), the encoded token is looked up and decoded             *)
(* (TokenDecoder), and the cluster is created with what came out.  Nothing *)
(* is caught: an exception ends the process.                               *)
(***************************************************************************)
EXTENDS Integers, Sequences

CONSTANTS
    Files,        \* environment files, as in Dotenv
    Key,          \* ENCODE_CLIENT_TOKEN
    Sextets,      \* character -> its place in the Base64 alphabet
    Messages      \* byte strings tried for RoundTrip, as in TokenDecoder

ASSUME FilesAssumption    == Files \subseteq Seq(Seq(STRING))
ASSUME SextetsAssumption  == Sextets \in [DOMAIN Sextets -> 0..63]
ASSUME MessagesAssumption == Messages \subseteq Seq(0..255)

VARIABLES
    main,                                          \* where main() stands
    present,                                       \* .env can be opened
    file, line, pos, loading, variables_, original,   \* Dotenv
    input, i, j, out_len, out, decoding,              \* Decoder::Decode
    content       \* history: the file at the start

dotenv  == <<file, line, pos, loading, variables_, original>>
decoder == <<input, i, j, out_len, out, decoding>>
vars    == <<main, present, dotenv, decoder, content>>

Env == INSTANCE Dotenv WITH pc <- loading
Dec == INSTANCE TokenDecoder WITH pc <- decoding, Inputs <- {<<>>}

(* What kDecodingTable makes of a character. *)
Symbol(c) == IF c \in DOMAIN Sextets THEN Sextets[c] ELSE IF c = "=" THEN Dec!Pad ELSE Dec!Bad

Init ==
    /\ main = "load"
    /\ present \in BOOLEAN
    /\ Env!Init /\ Dec!Init
    /\ content = file

Load ==
    /\ main = "load" /\ present
    /\ Env!Next
    /\ main' = IF loading' = "done" THEN "get" ELSE "load"
    /\ UNCHANGED <<present, decoder, content>>

Get ==
    /\ main = "get" /\ Env!has(variables_, Key)
    /\ main' = "decode"
    /\ input' = [k \in DOMAIN variables_[Key] |-> Symbol(variables_[Key][k])]
    /\ UNCHANGED <<present, dotenv, i, j, out_len, out, decoding, content>>

(* load() and get() throw std::runtime_error, Decode std::length_error. *)
Throw ==
    /\ \/ main = "load" /\ ~present
       \/ main = "get" /\ ~Env!has(variables_, Key)
       \/ main = "decode" /\ decoding = "throws"
    /\ main' = "dead"
    /\ UNCHANGED <<present, dotenv, decoder, content>>

Decode ==
    /\ main = "decode"
    /\ Dec!Next
    /\ UNCHANGED <<main, present, dotenv, content>>

(* dpp::cluster client(token), and start.  The token of a string that Decode *)
(* refused is the text of its error message.                                *)
Start ==
    /\ main = "decode" /\ decoding \in {"returned", "refused"}
    /\ main' = "running"
    /\ UNCHANGED <<present, dotenv, decoder, content>>

Next == Load \/ Get \/ Throw \/ Decode \/ Start
Spec == Init /\ [][Next]_vars

-----------------------------------------------------------------------------
(* Properties *)

(* Decode never gets the empty string, on which it reads input[-1]: a key    *)
(* without a value is no key, and get() throws first.                       *)
NeverDecodesEmpty == main = "decode" => input # <<>> /\ decoding # "throws"

(* The value that the last line to assign the key gives it, comments and     *)
(* lines without a value aside.                                             *)
LastValue ==
    LET vs[n \in 0..Len(content)] ==
            IF n = 0 THEN Env!Empty
            ELSE IF Head(content[n] \o <<"">>) = "#" THEN vs[n - 1]
            ELSE Env!parseLine(Env!Expansion(content[n], vs[n - 1]), vs[n - 1])
    IN  Env!ValueOf(vs[Len(content)], Key)

(* The bot runs with that value decoded, and does not start without one.     *)
(* What the loop of expandVariables makes of a line, editing it under its    *)
(* own feet, is what its references mean: nothing is skipped or expanded     *)
(* twice.                                                                    *)
RunsWithLastToken ==
    /\ Env!ExpandsOnce
    /\ main = "running" =>
        /\ LastValue # <<>>
        /\ input = [k \in DOMAIN LastValue |-> Symbol(LastValue[k])]
        /\ decoding = "returned" <=> Len(LastValue) % 4 = 0

(* Decode is inverse to Base64 with any padding, and a character outside the *)
(* alphabet, which it does not notice, spoils its own group of four only.    *)
(* Every byte of the buffer is written, and none behind it; the empty        *)
(* string, on which Decode reads input[-1], does not reach it.              *)
TokenDecoded == NeverDecodesEmpty /\ Dec!RoundTrip /\ Dec!SpoilsOneGroup /\ Dec!FillsBuffer
=============================================================================

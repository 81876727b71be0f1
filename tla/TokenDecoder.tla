---------------------------- MODULE TokenDecoder ----------------------------
(***************************************************************************)
(* Decoder::Decode of src/cores/client_decoder.h, which main applies to    *)
(* the ENCODE_CLIENT_TOKEN of the environment file: Base64 to bytes.       *)
(*                                                                         *)
(* A character is what kDecodingTable makes of it: 0..63, Bad for one that *)
(* is not in the Base64 alphabet, and Pad for '='.                         *)
(***************************************************************************)
EXTENDS Integers, Sequences

CONSTANTS
    Inputs,           \* the strings that Decode may be given
    Messages          \* the byte strings that are tried for RoundTrip

Bad == 64
Pad == 65

VARIABLES
    input,
    i, j,             \* the loop's counters: characters read, bytes written
    out_len, out,
    pc                \* "check", "loop", or how Decode ended

vars == <<input, i, j, out_len, out, pc>>

Init ==
    /\ input \in Inputs
    /\ i = 0 /\ j = 0
    /\ out_len = 0
    /\ out = <<>>
    /\ pc = "check"

-----------------------------------------------------------------------------
(* Seeded error: an else before the second if. *)
Padding_One == IF input[Len(input)] = Pad THEN 1 ELSE IF input[Len(input) - 1] = Pad THEN 1 ELSE 0

(* What the two ifs subtract from out_len.  On an empty string they read     *)
(* input[-1] and input[-2], which may hold anything.                        *)
IsPad(k) == IF input[k] = Pad THEN 1 ELSE 0
Padding  == IsPad(Len(input)) + IsPad(Len(input) - 1)

(* The length is checked and out is resized; below zero out_len is a huge    *)
(* size_t and resize throws std::length_error.                              *)
Check ==
    /\ pc = "check"
    /\ IF Len(input) % 4 # 0
       THEN pc' = "refused" /\ UNCHANGED <<out_len, out>>
       ELSE \E padding \in IF input = <<>> THEN 0..2 ELSE {Padding} :
               /\ out_len' = 3 * (Len(input) \div 4) - padding
               /\ IF out_len' < 0
                  THEN pc' = "throws" /\ UNCHANGED out
                  ELSE pc' = "loop" /\ out' = [k \in 1..out_len' |-> 0]
    /\ UNCHANGED <<input, i, j>>

(* Added, not or-ed: a Bad character carries into the one before it. *)
triple(s) == ((s[1] * 64 + s[2]) * 64 + s[3]) * 64 + s[4]

Sextet(c) == IF c = Pad THEN 0 ELSE c

Bytes(t) == <<(t \div 65536) % 256, (t \div 256) % 256, t % 256>>

Turn ==
    LET bytes == Bytes(triple([k \in 1..4 |-> Sextet(input[i + k])]))
    IN  /\ pc = "loop" /\ i < Len(input)
        /\ i' = i + 4
        /\ j' = IF j + 3 < out_len THEN j + 3 ELSE out_len
        /\ out' = [k \in 1..out_len |-> IF k \in (j + 1)..j' THEN bytes[k - j] ELSE out[k]]
        /\ UNCHANGED <<input, out_len, pc>>

Finish ==
    /\ pc = "loop" /\ i >= Len(input)
    /\ pc' = "returned"
    /\ UNCHANGED <<input, i, j, out_len, out>>

Next == Check \/ Turn \/ Finish
Spec == Init /\ [][Next]_vars

-----------------------------------------------------------------------------
(* Properties *)

(* Base64 as RFC 4648 has it. *)
Encode(bytes) ==
    LET n == Len(bytes)
        byte(k) == IF k <= n THEN bytes[k] ELSE 0
        group(g) == LET a == byte(3*g + 1)  b == byte(3*g + 2)  c == byte(3*g + 3)
                    IN  <<a \div 4, (a % 4) * 16 + b \div 16, (b % 16) * 4 + c \div 64, c % 64>>
    IN  [k \in 1..(4 * ((n + 2) \div 3)) |->
            IF k <= (4 * n + 2) \div 3
            THEN group((k - 1) \div 4)[((k - 1) % 4) + 1] ELSE Pad]

(* Decode is inverse to Encode, with one, two and no padding characters. *)
RoundTrip == pc = "returned" => \A bytes \in Messages : input = Encode(bytes) => out = bytes

(* A character outside the alphabet is not noticed, but it spoils its own    *)
(* group of four only: the other groups give their bytes, in their place.   *)
SpoilsOneGroup ==
    pc = "returned" =>
        \A g \in 0..(Len(input) \div 4 - 1) :
            LET s == [k \in 1..4 |-> Sextet(input[4*g + k])]
                b == <<s[1] * 4 + s[2] \div 16, (s[2] % 16) * 16 + s[3] \div 4, (s[3] % 4) * 64 + s[4]>>
            IN  Bad \notin {s[k] : k \in 1..4} =>
                    \A k \in 1..3 : 3*g + k <= Len(out) => out[3*g + k] = b[k]

(* Every byte of out has been written when Decode returns, none behind it,   *)
(* and it throws for the empty string only.                                 *)
FillsBuffer == /\ pc = "returned" => j = Len(out)
               /\ pc = "throws" => input = <<>>
=============================================================================

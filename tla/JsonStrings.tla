----------------------------- MODULE JsonStrings -----------------------------
(***************************************************************************)
(* Strings in dpp/nlohmann/json.hpp: dump_escaped writes one through a     *)
(* fixed buffer, with the decoder's table to tell whole characters from     *)
(* broken ones, and scan_string reads it back.                             *)
(*                                                                         *)
(* Text is a sequence of items: [raw |-> b] one byte as it is, [esc |-> b] *)
(* a backslash and a letter that stand for byte b, [u |-> n] a \uXXXX.      *)
(***************************************************************************)
EXTENDS Integers, Sequences, SequencesExt

CONSTANTS
    Bytes,        \* bound: the bytes strings are made of
    MaxLength,    \* bound: the longest string
    BufferSize    \* string_buffer: 512 in the code

VARIABLES
    ensure_ascii, error_handler,    \* the arguments of dump()
    s,                              \* the string, as far as it was looked at
    i,                              \* bytes of it the loop is past
    state, codepoint,               \* the decoder
    buffer,                         \* string_buffer up to bytes, as items
    accepted,                       \* items in it after the last whole character
    undumped,                       \* undumped_chars
    out,                            \* what went to the output adapter
    touched,                        \* the highest byte of the buffer written to
    pc

decoder == <<state, codepoint>>
vars == <<ensure_ascii, error_handler, s, i, state, codepoint, buffer, accepted, undumped,
          out, touched, pc>>

Raw(b) == [raw |-> b]
Esc(b) == [esc |-> b]
U(n) == [u |-> n]
Width(item) == IF "raw" \in DOMAIN item THEN 1 ELSE IF "esc" \in DOMAIN item THEN 2 ELSE 6
WidthOf(items) == FoldLeft(LAMBDA n, item : n + Width(item), 0, items)
FFFD == 65533

-----------------------------------------------------------------------------
(* decode: the classes of bytes and the transitions between the states.     *)

ACCEPT == 0
REJECT == 1

Classes == << <<0, 127, 0>>, <<128, 143, 1>>, <<144, 159, 9>>, <<160, 191, 7>>, <<192, 193, 8>>,
              <<194, 223, 2>>, <<224, 224, 10>>, <<225, 236, 3>>, <<237, 237, 4>>, <<238, 239, 3>>,
              <<240, 240, 11>>, <<241, 243, 6>>, <<244, 244, 5>>, <<245, 255, 8>> >>
ClassOf(b) == LET c == CHOOSE j \in DOMAIN Classes : Classes[j][1] <= b /\ b <= Classes[j][2]
              IN Classes[c][3]

\* by state, from class 0 to class 11
Table == << <<0, 1, 2, 3, 5, 8, 7, 1, 1, 1, 4, 6>>,
            <<1, 1, 1, 1, 1, 1, 1, 1, 1, 1, 1, 1>>,
            <<1, 0, 1, 1, 1, 1, 1, 0, 1, 0, 1, 1>>,
            <<1, 2, 1, 1, 1, 1, 1, 2, 1, 2, 1, 1>>,
            <<1, 1, 1, 1, 1, 1, 1, 2, 1, 1, 1, 1>>,
            <<1, 2, 1, 1, 1, 1, 1, 1, 1, 2, 1, 1>>,
            <<1, 1, 1, 1, 1, 1, 1, 3, 1, 3, 1, 1>>,
            <<1, 3, 1, 1, 1, 1, 1, 3, 1, 3, 1, 1>>,
            <<1, 3, 1, 1, 1, 1, 1, 1, 1, 1, 1, 1>> >>

Transition(q, b) == Table[q + 1][ClassOf(b) + 1]

\* (byte & 0x3f) | (codep << 6), or the bits the class leaves of a first byte
Shifted(q, c, b) == IF q # ACCEPT THEN (b % 64) + c * 64
                    ELSE IF ClassOf(b) > 7 THEN 0 ELSE b % (2 ^ (8 - ClassOf(b)))

-----------------------------------------------------------------------------
(* dump_escaped.                                                            *)

Letters == {8, 9, 10, 12, 13, 34, 92}     \* \b \t \n \f \r \" \\

\* what the buffer gets for a whole character whose last byte is b
Written(c, b) ==
    IF c \in Letters THEN <<Esc(c)>>
    ELSE IF c <= 31 \/ (ensure_ascii /\ c >= 127)
    THEN IF c <= 65535 THEN <<U(c)>> ELSE <<U(55232 + c \div 1024), U(56320 + (c % 1024))>>
    ELSE <<Raw(b)>>

\* what snprintf puts behind an escape, the terminating null, counts as touched
Touch(items) == WidthOf(items) + IF items # <<>> /\ "u" \in DOMAIN Last(items) THEN 1 ELSE 0

\* the largest escape of one character is written with 13 bytes
MarginNeeded == 13

\* write_characters when less than the margin is left
Flush(items) ==
    IF BufferSize - WidthOf(items) < MarginNeeded
    THEN out' = out \o items /\ buffer' = <<>> /\ accepted' = 0
    ELSE out' = out /\ buffer' = items /\ accepted' = Len(items)

\* UTF8_ACCEPT
Accept(b, c) ==
    LET items == buffer \o Written(c, b)
    IN /\ Flush(items)
       /\ touched' = Touch(items)
       /\ undumped' = 0 /\ i' = i + 1
       /\ state' = ACCEPT /\ codepoint' = c
       /\ UNCHANGED pc

\* the replacement character
Replacement == IF ensure_ascii THEN <<U(FFFD)>> ELSE <<Raw(239), Raw(191), Raw(189)>>

\* UTF8_REJECT: the byte is read again when it broke off an earlier sequence
Reject(c) ==
    IF error_handler = "strict"
    THEN pc' = "thrown" /\ UNCHANGED <<i, decoder, buffer, accepted, undumped, out, touched>>
    ELSE LET kept == SubSeq(buffer, 1, accepted)
             items == IF error_handler = "replace" THEN kept \o Replacement ELSE kept
         IN /\ i' = IF undumped > 0 THEN i ELSE i + 1
            /\ IF error_handler = "replace" THEN Flush(items)
               ELSE buffer' = items /\ UNCHANGED <<accepted, out>>
            /\ touched' = WidthOf(items)
            /\ undumped' = 0 /\ state' = ACCEPT /\ codepoint' = c
            /\ UNCHANGED pc

\* yet incomplete: the byte is in the buffer already unless it will be escaped
Incomplete(b, q, c) ==
    /\ buffer' = IF ensure_ascii THEN buffer ELSE Append(buffer, Raw(b))
    /\ touched' = WidthOf(buffer')
    /\ undumped' = undumped + 1 /\ i' = i + 1
    /\ state' = q /\ codepoint' = c
    /\ UNCHANGED <<accepted, out, pc>>

Byte ==
    /\ pc = "loop"
    /\ \E b \in IF i < Len(s) THEN {s[i + 1]} ELSE IF Len(s) < MaxLength THEN Bytes ELSE {} :
         LET q == Transition(state, b) c == Shifted(state, codepoint, b)
         IN /\ s' = IF i < Len(s) THEN s ELSE Append(s, b)
            /\ IF q = ACCEPT THEN Accept(b, c)
               ELSE IF q = REJECT THEN Reject(c) ELSE Incomplete(b, q, c)
    /\ UNCHANGED <<ensure_ascii, error_handler>>

End ==
    /\ pc = "loop" /\ i = Len(s)
    /\ IF state = ACCEPT THEN out' = out \o buffer /\ pc' = "done"
       ELSE IF error_handler = "strict" THEN pc' = "thrown" /\ UNCHANGED out
       ELSE /\ out' = out \o SubSeq(buffer, 1, accepted)
                          \o IF error_handler = "replace" THEN Replacement ELSE <<>>
            /\ pc' = "done"
    /\ UNCHANGED <<ensure_ascii, error_handler, s, i, decoder, buffer, accepted, undumped, touched>>

Init ==
    /\ ensure_ascii \in BOOLEAN /\ error_handler \in {"strict", "ignore", "replace"}
    /\ s = <<>> /\ i = 0 /\ state = ACCEPT /\ codepoint = 0
    /\ buffer = <<>> /\ accepted = 0 /\ undumped = 0 /\ out = <<>> /\ touched = 0
    /\ pc = "loop"

Next == Byte \/ End

Spec == Init /\ [][Next]_vars

-----------------------------------------------------------------------------
(* scan_string, of the items between the quotes: the bytes of the string,    *)
(* or <<-1>> where it reports an error.                                     *)

Failed == <<-1>>

\* the bytes of a code point
Encoded(c) ==
    IF c < 128 THEN <<c>>
    ELSE IF c <= 2047 THEN <<192 + c \div 64, 128 + (c % 64)>>
    ELSE IF c <= 65535 THEN <<224 + c \div 4096, 128 + ((c \div 64) % 64), 128 + (c % 64)>>
    ELSE <<240 + c \div 262144, 128 + ((c \div 4096) % 64), 128 + ((c \div 64) % 64), 128 + (c % 64)>>

\* next_byte_in_range: the ranges of the bytes that may follow a first byte
Follow == 128 .. 191

Following(b) ==
    CASE b \in 194 .. 223 -> <<Follow>>
      [] b = 224 -> <<160 .. 191, Follow>>
      [] b \in 225 .. 239 \ {237} -> <<Follow, Follow>>
      [] b = 237 -> <<128 .. 159, Follow>>
      [] b = 240 -> <<144 .. 191, Follow, Follow>>
      [] b \in 241 .. 243 -> <<Follow, Follow, Follow>>
      [] b = 244 -> <<128 .. 143, Follow, Follow>>
      [] b \in 32 .. 127 \ {34, 92} -> <<>>

Starts == (32 .. 127 \cup 194 .. 244) \ {34, 92}

\* one character from position j on: its items and its bytes
IsRaw(items, j) == j <= Len(items) /\ "raw" \in DOMAIN items[j]
IsU(items, j, range) == j <= Len(items) /\ "u" \in DOMAIN items[j] /\ items[j].u \in range
High == 55296 .. 56319
Low == 56320 .. 57343
ScanOne(items, j) ==
    LET one == items[j]
    IN IF "esc" \in DOMAIN one THEN [length |-> 1, bytes |-> <<one.esc>>]
       ELSE IF "u" \in DOMAIN one
       THEN IF one.u \in Low \/ (one.u \in High /\ ~IsU(items, j + 1, Low))
            THEN [length |-> 0, bytes |-> Failed]
            ELSE IF one.u \in High
            THEN [length |-> 2, bytes |-> Encoded(one.u * 1024 + items[j + 1].u - 56613888)]
            ELSE [length |-> 1, bytes |-> Encoded(one.u)]
       ELSE IF one.raw \in Starts /\ \A k \in DOMAIN Following(one.raw) :
                  IsRaw(items, j + k) /\ items[j + k].raw \in Following(one.raw)[k]
            THEN LET n == Len(Following(one.raw)) + 1
                 IN [length |-> n, bytes |-> [k \in 1 .. n |-> items[j + k - 1].raw]]
            ELSE [length |-> 0, bytes |-> Failed]

RECURSIVE ScanFrom(_, _, _)
ScanFrom(items, j, bytes) ==
    IF j > Len(items) THEN bytes
    ELSE LET one == ScanOne(items, j)
         IN IF one.bytes = Failed THEN Failed ELSE ScanFrom(items, j + one.length, bytes \o one.bytes)
scan_string(items) == ScanFrom(items, 1, <<>>)

-----------------------------------------------------------------------------
\* The buffer is never written behind its end: the margin that is checked after
\* each character covers the longest escape with its terminating null, and the
\* bytes of a character that is not complete yet.  (dump_escaped)
BufferFits == touched <= BufferSize

-----------------------------------------------------------------------------
\* Well-formed UTF-8 by its definition, a string as the encoding of code
\* points, to hold the writer's table and the scanner's ranges against.

\* the code points the bytes can be the encoding of, one by one: a sequence
\* is a character when its bits, put together, encode to it again
Payload(b) == IF b < 128 THEN b ELSE IF b < 224 THEN b % 32 ELSE IF b < 240 THEN b % 16 ELSE b % 8
RECURSIVE Assembled(_)
Assembled(bs) == IF Len(bs) = 1 THEN Payload(bs[1])
                 ELSE Assembled(Front(bs)) * 64 + (Last(bs) % 64)
IsCharacter(bs) ==
    /\ Len(bs) \in 1 .. 4
    /\ Assembled(bs) <= 1114111 /\ Assembled(bs) \notin 55296 .. 57343
    /\ Encoded(Assembled(bs)) = bs

\* bs can be continued to a character
IsPart(bs) ==
    /\ bs[1] > 127 \/ Len(bs) = 1
    /\ \A k \in 2 .. Len(bs) : bs[k] \in 128 .. 191
    /\ \/ IsCharacter(bs)
       \/ Len(bs) = 3 /\ IsCharacter(Append(bs, 128))
       \/ Len(bs) = 2 /\ (IsCharacter(Append(bs, 128)) \/ IsCharacter(bs \o <<128, 128>>))
       \/ Len(bs) = 1 /\ \E b \in {128, 144, 160} : \/ IsCharacter(Append(bs, b))
                                                   \/ IsCharacter(bs \o <<b, 128>>)
                                                   \/ IsCharacter(bs \o <<b, 128, 128>>)

\* A string with what is broken taken out, or replaced, each time as much as
\* could have been the start of a character.
RECURSIVE Clean(_, _)
Clean(bs, insert) ==
    IF bs = <<>> THEN <<>>
    ELSE LET lengths == {n \in 1 .. Len(bs) : IsPart(SubSeq(bs, 1, n))}
             n == IF lengths = {} THEN 1 ELSE CHOOSE m \in lengths : \A k \in lengths : k <= m
             first == SubSeq(bs, 1, n)
         IN (IF IsCharacter(first) THEN first ELSE insert) \o Clean(SubSeq(bs, n + 1, Len(bs)), insert)

Replaced == Clean(s, <<239, 191, 189>>)
Ignored == Clean(s, <<>>)

\* What dump() writes is read back as the same string when it was UTF-8.
\* Otherwise the strict handler throws, and the other two lose no whole
\* character: a sequence that breaks off takes nothing of the next one along.
\* (dump_escaped, decode, scan_string)
RoundTrip ==
    /\ pc = "thrown" => Ignored # s
    /\ pc = "done" => scan_string(out) = IF error_handler = "replace" THEN Replaced ELSE Ignored
    /\ pc = "done" /\ error_handler = "strict" => Ignored = s

\* The scanner, which has ranges of its own, accepts exactly the strings the
\* writer's table calls whole.  One setting of the writer is enough for it:
\* neither side depends on that.  (scan_string, decode)
SameAlphabet ==
    pc = "loop" /\ i = Len(s) /\ error_handler = "ignore" /\ ~ensure_ascii =>
        LET plain == \A k \in DOMAIN s : s[k] \notin Letters /\ s[k] > 31
        IN plain => (scan_string([k \in DOMAIN s |-> Raw(s[k])]) # Failed <=> Ignored = s)
=============================================================================

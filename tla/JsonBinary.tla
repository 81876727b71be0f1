------------------------------ MODULE JsonBinary ------------------------------
(***************************************************************************)
(* CBOR and MessagePack in dpp/nlohmann/json.hpp: binary_writer puts a      *)
(* value into bytes, each number and length in as few as hold it, and      *)
(* binary_reader takes them apart again, whatever it is given.             *)
(*                                                                         *)
(* A number of 64 bits is the sequence of its eight bytes, the highest      *)
(* first.  The content of a string, of a byte array or of a float is one    *)
(* item of the text, its negated index in Contents, so that contents can   *)
(* be as long as 2^32 bytes; the item Cut is a content that breaks off.    *)
(***************************************************************************)
EXTENDS Integers, Sequences, SequencesExt

CONSTANTS
    Values,       \* the values that are written
    Foreign,      \* texts from elsewhere, besides
    Lengths       \* lengths of contents, from the third content on

VARIABLES
    format,       \* "cbor" or "msgpack"
    tag_handler,  \* what the reader does with CBOR tags
    value,        \* what is written
    bytes,        \* what was written, or came from elsewhere
    received,     \* what of it the reader gets
    result        \* what it makes of that

vars == <<format, tag_handler, value, bytes, received, result>>

None == [type |-> "none"]
Constant(c) == [type |-> c]
Number(sign, n) == [type |-> "number", sign |-> sign, n |-> n]
Float(class) == [type |-> "float", class |-> class]
Data(type, content) == [type |-> type, content |-> content]
Tagged(content, subtype) == [type |-> "tagged", content |-> content, subtype |-> subtype]
ArrayOf(s) == [type |-> "array", items |-> s]
ObjectOf(s) == [type |-> "object", items |-> s]     \* pairs, in the order of the map

Byte(b) == <<0, 0, 0, 0, 0, 0, 0, b>>
Zero == Byte(0)
Fits(n, width) == \A i \in 1 .. 8 - width : n[i] = 0
AtMost(n, m) == Fits(n, 1) /\ n[8] <= m
Low(n, width) == SubSeq(n, 9 - width, 8)
Complement(n) == [i \in 1 .. 8 |-> 255 - n[i]]
First(S) == CHOOSE w \in S : \A u \in S : w <= u

\* contents 1 and 2 are those of a float and of a double
Single == 1
Double == 2
Contents == <<Byte(4), Byte(8)>> \o Lengths
LengthOf(c) == IF c = 0 THEN Zero ELSE Contents[c]
Payload(c) == IF c = 0 THEN <<>> ELSE <<-c>>
Cut == -100

-----------------------------------------------------------------------------
(* binary_writer.  A header is a first byte and the number behind it.        *)

Width(n) == 2 ^ First({w \in 0 .. 3 : Fits(n, 2 ^ w)})
Step(width) == First({w \in 0 .. 3 : 2 ^ w = width})

CborBase == [uint |-> 0, nint |-> 32, binary |-> 64, string |-> 96, array |-> 128, object |-> 160]

\* Seeded error: one more number is put into the first byte.
CborHeader_24(kind, n) ==
    IF AtMost(n, 24) THEN <<CborBase[kind] + n[8]>>
    ELSE <<CborBase[kind] + 24 + Step(Width(n))>> \o Low(n, Width(n))

CborHeader(kind, n) ==
    IF AtMost(n, 23) THEN <<CborBase[kind] + n[8]>>
    ELSE <<CborBase[kind] + 24 + Step(Width(n))>> \o Low(n, Width(n))

\* in the first byte: base and limit; behind it: first byte and width
MsgpackSmall == [uint |-> <<0, 127>>, string |-> <<160, 31>>, array |-> <<144, 15>>, object |-> <<128, 15>>]
MsgpackWide ==
    [uint   |-> << <<204, 1>>, <<205, 2>>, <<206, 4>>, <<207, 8>> >>,
     string |-> << <<217, 1>>, <<218, 2>>, <<219, 4>> >>,
     binary |-> << <<196, 1>>, <<197, 2>>, <<198, 4>> >>,
     ext    |-> << <<199, 1>>, <<200, 2>>, <<201, 4>> >>,
     array  |-> << <<220, 2>>, <<221, 4>> >>,
     object |-> << <<222, 2>>, <<223, 4>> >>]
MsgpackHeader(kind, n) ==
    IF kind \in DOMAIN MsgpackSmall /\ AtMost(n, MsgpackSmall[kind][2])
    THEN <<MsgpackSmall[kind][1] + n[8]>>
    ELSE LET wide == MsgpackWide[kind]
             i == First({j \in DOMAIN wide : Fits(n, wide[j][2])})
         IN <<wide[i][1]>> \o Low(n, wide[i][2])

\* n is -1 - value, and the bytes are the two's complement
MsgpackNegative(n) ==
    LET width == 2 ^ First({w \in 0 .. 3 : Fits(n, 2 ^ w) /\ n[9 - 2 ^ w] < 128})
    IN IF AtMost(n, 31) THEN <<255 - n[8]>>
       ELSE <<208 + Step(width)>> \o Low(Complement(n), width)

FixExt == <<1, 2, 4, 8, 16>>
MsgpackExt(n) ==
    IF \E i \in DOMAIN FixExt : n = Byte(FixExt[i])
    THEN <<211 + (CHOOSE i \in DOMAIN FixExt : n = Byte(FixExt[i]))>>
    ELSE MsgpackHeader("ext", n)

\* write_compact_float; CBOR writes the special values as halves
HalfOf == [nan |-> <<126, 0>>, inf |-> <<124, 0>>, minusinf |-> <<252, 0>>]
WrittenFloat(f, class) ==
    LET first == IF f = "cbor" THEN 250 ELSE 202
    IN IF class \in DOMAIN HalfOf /\ f = "cbor" THEN <<249>> \o HalfOf[class]
       ELSE IF class = "single" THEN <<first>> \o Payload(Single)
       ELSE <<first + 1>> \o Payload(Double)

ConstantByte == [cbor |-> [null |-> 246, true |-> 245, false |-> 244],
                 msgpack |-> [null |-> 192, true |-> 195, false |-> 194]]

\* write_cbor and write_msgpack
RECURSIVE Written(_, _)
Written(f, v) ==
    LET Header(kind, n) == IF f = "cbor" THEN CborHeader(kind, n) ELSE MsgpackHeader(kind, n)
        Count == [Zero EXCEPT ![7] = Len(v.items) \div 256, ![8] = Len(v.items) % 256]
    IN CASE v.type \in {"null", "true", "false"} -> <<ConstantByte[f][v.type]>>
         [] v.type = "number" -> IF f = "msgpack" /\ v.sign = "nint" THEN MsgpackNegative(v.n)
                                 ELSE Header(v.sign, v.n)
         [] v.type = "float" -> WrittenFloat(f, v.class)
         [] v.type \in {"string", "binary"} -> Header(v.type, LengthOf(v.content)) \o Payload(v.content)
         [] v.type = "tagged" ->
              (IF f = "cbor"
               THEN <<216 + Step(Width(v.subtype))>> \o Low(v.subtype, Width(v.subtype))
                    \o Header("binary", LengthOf(v.content))
               ELSE MsgpackExt(LengthOf(v.content)) \o <<v.subtype[8]>>)
              \o Payload(v.content)
         [] v.type = "array" -> Header("array", Count) \o
              FlattenSeq([i \in DOMAIN v.items |-> Written(f, v.items[i])])
         [] v.type = "object" -> Header("object", Count) \o
              FlattenSeq([i \in DOMAIN v.items |-> Written(f, v.items[i][1]) \o Written(f, v.items[i][2])])

-----------------------------------------------------------------------------
(* binary_reader.                                                           *)

Error(e) == [error |-> e]
Ok(v, rest) == [value |-> v, rest |-> rest]
Failed(r) == "error" \in DOMAIN r
Lost == 0                        \* the reader is among the bytes of a content

\* r, or what Then makes of its value and the rest
Bind(r, Then(_, _)) == IF Failed(r) THEN r ELSE Then(r.value, r.rest)

\* get_number: the next bytes as a number
GetNumber(in, width) ==
    IF Len(in) < width THEN Error(110)
    ELSE IF \E i \in 1 .. width : in[i] < 0 THEN Error(Lost)
    ELSE Ok([i \in 1 .. 8 |-> IF i > 8 - width THEN in[i - 8 + width] ELSE 0],
            SubSeq(in, width + 1, Len(in)))

\* get_string, get_binary: as many bytes as n says
GetContent(n, in) ==
    IF n = Zero THEN Ok(0, in)
    ELSE IF in = <<>> \/ in[1] = Cut THEN Error(110)
    ELSE IF in[1] < 0 /\ LengthOf(-in[1]) = n THEN Ok(-in[1], Tail(in))
    ELSE Error(Lost)

GetNamed(class, content, in) ==
    Bind(GetContent(LengthOf(content), in), LAMBDA c, rest : Ok(Float(class), rest))

\* Append the contents of chunks; two that are not empty do not come here.
Joined(a, b) == IF a = 0 THEN b ELSE a

\* the number a CBOR item begins with
Major(in) == in[1] \div 32
Info(in) == in[1] % 32
Argument(in) == IF Info(in) <= 23 THEN Ok(Byte(Info(in)), Tail(in))
                ELSE GetNumber(Tail(in), 2 ^ (Info(in) - 24))

\* get_cbor_string, get_cbor_binary
RECURSIVE CborContent(_, _), CborChunks(_, _, _)
CborContent(major, in) ==
    IF in = <<>> THEN Error(110)
    ELSE IF in[1] < 0 THEN Error(Lost)
    ELSE IF Major(in) # major \/ Info(in) \in 28 .. 30 THEN Error(113)
    ELSE IF Info(in) = 31 THEN CborChunks(major, Tail(in), 0)
    ELSE Bind(Argument(in), GetContent)

CborChunks(major, in, sofar) ==
    IF in # <<>> /\ in[1] = 255 THEN Ok(sofar, Tail(in))
    ELSE Bind(CborContent(major, in), LAMBDA c, rest : CborChunks(major, rest, Joined(sofar, c)))

\* -1 - static_cast<std::int64_t>(n)
Negative(n) == IF n[1] < 128 THEN Number("nint", n) ELSE Number("uint", Complement(n))

\* the half with these two bytes, of which only infinities and NaN keep apart
Half(high, low) ==
    IF (high % 128) \div 4 # 31 THEN "half"
    ELSE IF low + 256 * (high % 4) # 0 THEN "nan"
    ELSE IF high >= 128 THEN "minusinf" ELSE "inf"

\* The largest count is the one that stands for an indefinite length, and the
\* largest ones below it are more than max_size(), taken to be 2^59 - 1, which
\* start_array and start_object refuse.
Endless(n) == \A i \in 1 .. 8 : n[i] = 255
Excessive(n) == n[1] >= 8 /\ ~Endless(n)

\* Another large count is not reached before the end of the input.
Small(n) == IF Fits(n, 2) THEN 256 * n[7] + n[8] ELSE 65536

RECURSIVE Cbor(_, _), CborItems(_, _, _, _)

\* count items, or up to the break when that is -1; keys of an object too
CborItems(handler, pairs, count, in) ==
    IF count = 0 THEN Ok(<<>>, in)
    ELSE IF count < 0 /\ in # <<>> /\ in[1] = 255 THEN Ok(<<>>, Tail(in))
    ELSE LET more(item, rest) ==
               Bind(CborItems(handler, pairs, IF count < 0 THEN count ELSE count - 1, rest),
                    LAMBDA items, after : Ok(<<item>> \o items, after))
         IN IF ~pairs THEN Bind(Cbor(handler, in), more)
            ELSE Bind(CborContent(3, in), LAMBDA key, rest :
                   Bind(Cbor(handler, rest), LAMBDA v, after :
                     more(<<Data("string", key), v>>, after)))

\* get_cbor_array, get_cbor_object
CborContainer(handler, in) ==
    LET pairs == Major(in) = 5
        read(count, rest) ==
          Bind(CborItems(handler, pairs, count, rest), LAMBDA items, after :
            Ok(IF pairs THEN ObjectOf(items) ELSE ArrayOf(items), after))
    IN IF Info(in) = 31 THEN read(-1, Tail(in))
       ELSE Bind(Argument(in), LAMBDA n, rest :
              IF Excessive(n) THEN Error(408)
              ELSE read(IF Endless(n) THEN -1 ELSE Small(n), rest))

\* 0xC6 to 0xD4 and 0xD8 to 0xDB
CborTag(handler, in) ==
    IF handler = "error" THEN Error(112)
    ELSE IF Info(in) < 24 THEN Cbor(handler, Tail(in))
    ELSE Bind(GetNumber(Tail(in), 2 ^ (Info(in) - 24)), LAMBDA n, rest :
           IF handler = "ignore" THEN Cbor(handler, rest)
           ELSE Bind(CborContent(2, rest), LAMBDA c, after : Ok(Tagged(c, n), after)))

\* parse_cbor_internal
Cbor(handler, in) ==
    IF in = <<>> THEN Error(110)
    ELSE IF in[1] < 0 THEN Error(Lost)
    ELSE CASE Major(in) < 2 /\ Info(in) <= 27 ->
                Bind(Argument(in), LAMBDA n, rest :
                  Ok(IF Major(in) = 0 THEN Number("uint", n) ELSE Negative(n), rest))
           [] Major(in) = 2 /\ Info(in) \notin 28 .. 30 ->
                Bind(CborContent(2, in), LAMBDA c, rest : Ok(Data("binary", c), rest))
           [] Major(in) = 3 /\ Info(in) \notin 28 .. 30 ->
                Bind(CborContent(3, in), LAMBDA c, rest : Ok(Data("string", c), rest))
           [] Major(in) \in {4, 5} /\ Info(in) \notin 28 .. 30 -> CborContainer(handler, in)
           [] in[1] \in 198 .. 212 \cup 216 .. 219 -> CborTag(handler, in)
           [] in[1] \in {244, 245, 246} -> Ok(Constant(<<"false", "true", "null">>[in[1] - 243]), Tail(in))
           [] in[1] = 249 -> Bind(GetNumber(Tail(in), 2), LAMBDA n, rest : Ok(Float(Half(n[7], n[8])), rest))
           [] in[1] = 250 -> GetNamed("single", Single, Tail(in))
           [] in[1] = 251 -> GetNamed("double", Double, Tail(in))
           [] OTHER -> Error(112)

\* get_msgpack_string
MsgpackString(in) ==
    IF in = <<>> THEN Error(110)
    ELSE IF in[1] < 0 THEN Error(Lost)
    ELSE IF in[1] \in 160 .. 191 THEN GetContent(Byte(in[1] % 32), Tail(in))
    ELSE IF in[1] \in 217 .. 219 THEN Bind(GetNumber(Tail(in), 2 ^ (in[1] - 217)), GetContent)
    ELSE Error(113)

\* get_msgpack_binary
MsgpackBinary(in) ==
    LET tagged(n, rest) ==
          Bind(GetNumber(rest, 1), LAMBDA subtype, after :
            Bind(GetContent(n, after), LAMBDA c, end : Ok(Tagged(c, subtype), end)))
    IN IF in[1] \in 196 .. 198
       THEN Bind(Bind(GetNumber(Tail(in), 2 ^ (in[1] - 196)), GetContent),
                 LAMBDA c, rest : Ok(Data("binary", c), rest))
       ELSE IF in[1] \in 199 .. 201 THEN Bind(GetNumber(Tail(in), 2 ^ (in[1] - 199)), tagged)
       ELSE tagged(Byte(FixExt[in[1] - 211]), Tail(in))

\* an integer of 8 to 64 bits, from its two's complement
Signed(n, width) ==
    IF n[9 - width] < 128 THEN Number("uint", n)
    ELSE Number("nint", [i \in 1 .. 8 |-> IF i > 8 - width THEN 255 - n[i] ELSE 0])

RECURSIVE Msgpack(_), MsgpackItems(_, _, _)
MsgpackItems(pairs, count, in) ==
    IF count = 0 THEN Ok(<<>>, in)
    ELSE LET more(item, rest) ==
               Bind(MsgpackItems(pairs, count - 1, rest),
                    LAMBDA items, after : Ok(<<item>> \o items, after))
         IN IF ~pairs THEN Bind(Msgpack(in), more)
            ELSE Bind(MsgpackString(in), LAMBDA key, rest :
                   Bind(Msgpack(rest), LAMBDA v, after :
                     more(<<Data("string", key), v>>, after)))

\* parse_msgpack_internal
Msgpack(in) ==
    IF in = <<>> THEN Error(110)
    ELSE IF in[1] < 0 THEN Error(Lost)
    ELSE LET b == in[1]
             items(pairs, count, rest) ==
               Bind(MsgpackItems(pairs, count, rest), LAMBDA s, after :
                 Ok(IF pairs THEN ObjectOf(s) ELSE ArrayOf(s), after))
         IN CASE b \in 0 .. 127 -> Ok(Number("uint", Byte(b)), Tail(in))
              [] b \in 128 .. 143 -> items(TRUE, b % 16, Tail(in))
              [] b \in 144 .. 159 -> items(FALSE, b % 16, Tail(in))
              [] b \in 160 .. 191 \cup 217 .. 219 ->
                   Bind(MsgpackString(in), LAMBDA c, rest : Ok(Data("string", c), rest))
              [] b \in {192, 194, 195} ->
                   Ok(Constant(IF b = 192 THEN "null" ELSE IF b = 194 THEN "false" ELSE "true"), Tail(in))
              [] b \in 196 .. 201 \cup 212 .. 216 -> MsgpackBinary(in)
              [] b = 202 -> GetNamed("single", Single, Tail(in))
              [] b = 203 -> GetNamed("double", Double, Tail(in))
              [] b \in 204 .. 207 ->
                   Bind(GetNumber(Tail(in), 2 ^ (b - 204)), LAMBDA n, rest : Ok(Number("uint", n), rest))
              [] b \in 208 .. 211 ->
                   Bind(GetNumber(Tail(in), 2 ^ (b - 208)), LAMBDA n, rest :
                     Ok(Signed(n, 2 ^ (b - 208)), rest))
              [] b \in 220 .. 223 ->
                   Bind(GetNumber(Tail(in), 2 ^ (1 + (b % 2))), LAMBDA n, rest :
                     items(b >= 222, Small(n), rest))
              [] b \in 224 .. 255 -> Ok(Signed(Byte(b), 1), Tail(in))
              [] OTHER -> Error(112)

\* sax_parse: a value, and then the end of the input
sax_parse(f, handler, in) ==
    LET parsed == IF f = "cbor" THEN Cbor(handler, in) ELSE Msgpack(in)
    IN IF Failed(parsed) THEN parsed
       ELSE IF parsed.rest # <<>> THEN Error(110) ELSE parsed.value

-----------------------------------------------------------------------------
Formats == {"cbor", "msgpack"}

Init ==
    /\ format \in Formats
    /\ tag_handler \in IF format = "cbor" THEN {"error", "ignore", "store"} ELSE {"error"}
    /\ value \in Values \cup {None}
    /\ bytes = <<>> /\ received = <<>> /\ result = None

Write ==
    /\ bytes = <<>>
    /\ IF value # None THEN bytes' = Written(format, value) ELSE bytes' \in Foreign
    /\ UNCHANGED <<format, tag_handler, value, received, result>>

\* What arrives: all, less, a content that breaks off, or one byte more.
Arrives(b) ==
    {b, Append(b, 0)} \cup {SubSeq(b, 1, n) : n \in 0 .. Len(b) - 1}
    \cup {Append(SubSeq(b, 1, n - 1), Cut) : n \in {m \in DOMAIN b : b[m] < 0}}

Read ==
    /\ bytes # <<>> /\ result = None
    /\ received' \in Arrives(bytes)
    /\ result' = sax_parse(format, tag_handler, received')
    /\ UNCHANGED <<format, tag_handler, value, bytes>>

Next == Write \/ Read

Spec == Init /\ [][Next]_vars

-----------------------------------------------------------------------------
\* A text that was cut short or runs on is never read as a value, and a reader
\* never takes the bytes of a content for an item: every length that is written
\* is the length that is read.  (get_number, get_string, sax_parse)
OnlyWholeTexts ==
    value # None /\ result # None =>
        /\ result # Error(Lost)
        /\ received # bytes => Failed(result)
=============================================================================

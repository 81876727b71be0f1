----------------------------- MODULE MCJsonBinary -----------------------------
(***************************************************************************)
(* Values at the limits of every header, in containers and as keys, and     *)
(* texts that no writer here makes.                                         *)
(***************************************************************************)
EXTENDS JsonBinary

Ends == {0, 1, 23, 24, 31, 32, 127, 128, 255}
Halves == {Zero, <<0, 0, 0, 0, 0, 0, 1, 0>>, <<0, 0, 0, 0, 0, 0, 127, 255>>, <<0, 0, 0, 0, 0, 0, 128, 0>>,
           <<0, 0, 0, 0, 0, 0, 255, 255>>, <<0, 0, 0, 0, 0, 1, 0, 0>>, <<0, 0, 0, 0, 127, 255, 255, 255>>,
           <<0, 0, 0, 0, 128, 0, 0, 0>>, <<0, 0, 0, 0, 255, 255, 255, 255>>, <<0, 0, 0, 1, 0, 0, 0, 0>>,
           <<127, 255, 255, 255, 255, 255, 255, 255>>}
Numbers == {Byte(b) : b \in Ends} \cup Halves
Unsigned == Numbers \cup {<<128, 0, 0, 0, 0, 0, 0, 0>>, <<255, 255, 255, 255, 255, 255, 255, 255>>}

MCLengths == <<Byte(1), Byte(2), Byte(15), Byte(16), Byte(23), Byte(24), Byte(31), Byte(32), Byte(255),
               <<0, 0, 0, 0, 0, 0, 1, 0>>, <<0, 0, 0, 0, 0, 0, 255, 255>>, <<0, 0, 0, 0, 0, 1, 0, 0>>,
               <<0, 0, 0, 0, 255, 255, 255, 255>>>>
AllContents == {0} \cup 3 .. (2 + Len(MCLengths))
Subtypes == {Byte(7), Byte(255), <<0, 0, 0, 0, 0, 0, 1, 7>>, <<0, 0, 0, 1, 0, 0, 0, 7>>}

Leaves == {Constant(c) : c \in {"null", "true", "false"}}
          \cup {Number("uint", n) : n \in Unsigned} \cup {Number("nint", n) : n \in Numbers}
          \cup {Float(c) : c \in {"nan", "inf", "minusinf", "single", "double"}}
          \cup {Data(t, c) : t \in {"string", "binary"}, c \in AllContents}
          \cup {Tagged(c, s) : c \in {0, 1, 2} \cup AllContents, s \in Subtypes}
Null == Constant("null")
Pair(k, v) == <<Data("string", k), v>>
Many(n, x) == [i \in 1 .. n |-> x]
MCValues ==
    Leaves \cup {ArrayOf(<<v>>) : v \in Leaves} \cup {ObjectOf(<<Pair(0, v), Pair(8, Null)>>) : v \in Leaves}
    \cup {ArrayOf(Many(n, Null)) : n \in {0, 15, 16, 23, 24, 40}}
    \cup {ObjectOf(Many(n, Pair(3, Null))) : n \in {0, 15, 16, 23, 24}}
    \cup {ArrayOf(<<ArrayOf(<<v>>), ObjectOf(<<Pair(9, ArrayOf(<<>>))>>), v>>) : v \in Leaves}

\* Short texts of bytes that begin something or end it.
Starts == {0, 24, 27, 32, 56, 59, 64, 95, 96, 127, 129, 130, 159, 161, 191, 192, 194, 199, 208, 209, 211, 212,
           216, 217, 244, 249, 255}
Bodies == {<<>>, <<255>>, <<0, 255>>, <<96, 0, 255>>, <<96, 155, 255, 255, 255, 255, 255, 255, 255, 255, 255, 255>>}
MCForeign == {<<a>> : a \in Starts} \cup {<<a, b>> : a, b \in Starts} \cup {<<a, b, c>> : a, b, c \in Starts}
             \cup {<<a, 255, 255, 255, 255, 255, 255, 255, 254>> : a \in Starts}
             \cup {<<a>> \o Many(7, 255) \o <<b>> \o r : a \in {155, 187}, b \in {254, 255}, r \in Bodies}
             \cup {<<a>> \o n \o r : a \in {155, 187}, n \in {<<0, 0, 0, 0, 0, 1, 0, 0>>, <<8, 0, 0, 0, 0, 0, 0, 0>>},
                                     r \in Bodies}
             \cup {<<159, a, b, 255>> : a, b \in Starts} \cup {<<191, 96, a, b, 255>> : a, b \in Starts}
             \cup {<<95, 64, 65, -3, 255>>, <<127, 97, -3, 96, 255>>, <<127, 127, 97, -3, 255, 255>>}

-----------------------------------------------------------------------------
\* What of a value the format keeps: MessagePack has one byte for a subtype and
\* no infinities of its own, and a CBOR reader may ignore tags or refuse them.
HasTag(v, f, handler) ==
    f = "cbor" /\ handler = "error" /\ v.type = "tagged"
RECURSIVE Kept(_, _, _)
Kept(v, f, handler) ==
    CASE v.type = "tagged" -> IF f = "cbor" THEN IF handler = "store" THEN v ELSE Data("binary", v.content)
                              ELSE Tagged(v.content, Byte(v.subtype[8]))
      [] v.type = "float" /\ f = "msgpack" -> Float(IF v.class = "single" THEN "single" ELSE "double")
      [] v.type = "array" -> ArrayOf([i \in DOMAIN v.items |-> Kept(v.items[i], f, handler)])
      [] v.type = "object" ->
           ObjectOf([i \in DOMAIN v.items |-> <<v.items[i][1], Kept(v.items[i][2], f, handler)>>])
      [] OTHER -> v
RECURSIVE Refused(_, _, _)
Refused(v, f, handler) ==
    \/ HasTag(v, f, handler)
    \/ v.type = "array" /\ \E i \in DOMAIN v.items : Refused(v.items[i], f, handler)
    \/ v.type = "object" /\ \E i \in DOMAIN v.items : Refused(v.items[i][2], f, handler)

\* What is written is read back: every number, at each width and sign, every
\* string and byte array with its subtype, every key, in every container.
\* (write_cbor and parse_cbor_internal, write_msgpack and parse_msgpack_internal)
RoundTrip ==
    value # None /\ result # None /\ received = bytes =>
        result = IF Refused(value, format, tag_handler) THEN Error(112)
                 ELSE Kept(value, format, tag_handler)

\* Whatever a reader made out of bytes from elsewhere, with chunks and headers
\* longer than they need to be, is a value that survives being written and
\* read again.  (binary_reader, binary_writer)
RECURSIVE Halved(_)
Halved(v) == \/ v = Float("half")
             \/ v.type = "array" /\ \E i \in DOMAIN v.items : Halved(v.items[i])
             \/ v.type = "object" /\ \E i \in DOMAIN v.items : Halved(v.items[i][2])
ReadsSettle ==
    value = None /\ result # None /\ ~Failed(result) =>
        Halved(result) \/ sax_parse(format, tag_handler, Written(format, result)) = result
=============================================================================

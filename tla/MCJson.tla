------------------------------- MODULE MCJson -------------------------------
(***************************************************************************)
(* The parts of nlohmann/json.hpp for TLC.  They share no state, so a       *)
(* behaviour explores one of them, and the variables of the others are not  *)
(* used in it.                                                             *)
(***************************************************************************)
EXTENDS Integers, Sequences

CONSTANTS
    Numerals, NumeralLength, Commentary, CommentaryLength,   \* JsonLexer
    UnsignedMax, IntegerMin,
    KeyTexts, MaxTokens, MaxCallbackTokens,                  \* JsonParser
    Bytes, StringLength, BufferSize,                         \* JsonStrings
    PointerAlphabet, PointerLength,                          \* JsonPointer
    Names, Docs, Order,                                      \* JsonPatch
    Values, Foreign, Lengths                                 \* JsonBinary

VARIABLES
    part,
    input, ended, current, next_unget, position, scanning, token, tokens,   \* JsonLexer
    read, states, parsing, dom,                                             \* JsonParser
    ensure_ascii, error_handler, s, i, decoder, codepoint, buffer,          \* JsonStrings
    accepted, undumped, out, touched, dumping,
    text,                                                                   \* JsonPointer
    source, target, patch, patched,                                         \* JsonPatch
    format, tag_handler, value, bytes, received, result                     \* JsonBinary

lexer   == <<input, ended, current, next_unget, position, scanning, token, tokens>>
parser  == <<read, states, parsing, dom>>
strings == <<ensure_ascii, error_handler, s, i, decoder, codepoint, buffer, accepted, undumped,
             out, touched, dumping>>
patches == <<source, target, patch, patched>>
binary  == <<format, tag_handler, value, bytes, received, result>>
all     == <<part, lexer, parser, strings, text, patches, binary>>

NumberLexer  == INSTANCE MCJsonLexer WITH Alphabet <- Numerals, MaxLength <- NumeralLength,
                                          IgnoreComments <- FALSE, pc <- scanning
CommentLexer == INSTANCE MCJsonLexer WITH Alphabet <- Commentary, MaxLength <- CommentaryLength,
                                          IgnoreComments <- TRUE, pc <- scanning
Parser   == INSTANCE MCJsonParser WITH Keys <- KeyTexts, Callback <- FALSE, pc <- parsing
Filter   == INSTANCE MCJsonParser WITH Keys <- KeyTexts, Callback <- TRUE, MaxTokens <- MaxCallbackTokens,
                                      pc <- parsing
Strings  == INSTANCE JsonStrings WITH MaxLength <- StringLength, state <- decoder, pc <- dumping
Pointer  == INSTANCE JsonPointer WITH Alphabet <- PointerAlphabet, MaxLength <- PointerLength
Patch    == INSTANCE JsonPatch WITH result <- patched
Binary   == INSTANCE MCJsonBinary

\* The values of the constants, from instances that do not depend on them.
Documents == INSTANCE JsonPatch WITH Docs <- {}, Order <- <<>>, result <- patched
Samples   == INSTANCE MCJsonBinary WITH Values <- {}, Foreign <- {}, Lengths <- <<>>
JsonDocs    == Documents!MCDocs
JsonOrder   == Documents!MCOrder
JsonValues  == Samples!MCValues
JsonForeign == Samples!MCForeign
JsonLengths == Samples!MCLengths

unused == "unused"
LexerUnused ==
    /\ input = unused /\ ended = unused /\ current = unused /\ next_unget = unused
    /\ position = unused /\ scanning = unused /\ token = unused /\ tokens = unused
ParserUnused == read = unused /\ states = unused /\ parsing = unused /\ dom = unused
StringsUnused ==
    /\ ensure_ascii = unused /\ error_handler = unused /\ s = unused /\ i = unused
    /\ decoder = unused /\ codepoint = unused /\ buffer = unused /\ accepted = unused
    /\ undumped = unused /\ out = unused /\ touched = unused /\ dumping = unused
PatchUnused == source = unused /\ target = unused /\ patch = unused /\ patched = unused
BinaryUnused ==
    /\ format = unused /\ tag_handler = unused /\ value = unused
    /\ bytes = unused /\ received = unused /\ result = unused

Lexing == {"numbers", "comments"}
Parsing == {"parse", "parse with a callback"}
Patching == {"diff", "operation"}

Init ==
    /\ part \in Lexing \union Parsing \union Patching \union {"strings", "pointers", "binary"}
    /\ CASE part = "numbers"  -> NumberLexer!Init
         [] part = "comments" -> CommentLexer!Init
         [] OTHER             -> LexerUnused
    /\ CASE part = "parse" -> Parser!Init
         [] part = "parse with a callback" -> Filter!Init
         [] OTHER -> ParserUnused
    /\ IF part = "strings" THEN Strings!Init ELSE StringsUnused
    /\ IF part = "pointers" THEN Pointer!Init ELSE text = unused
    /\ CASE part = "diff" -> Patch!Init
         [] part = "operation" -> Patch!EditInit
         [] OTHER -> PatchUnused
    /\ IF part = "binary" THEN Binary!Init ELSE BinaryUnused

Next ==
    /\ part' = part
    /\ \/ /\ \/ part = "numbers" /\ NumberLexer!Next
             \/ part = "comments" /\ CommentLexer!Next
          /\ UNCHANGED <<parser, strings, text, patches, binary>>
       \/ /\ \/ part = "parse" /\ Parser!Next
             \/ part = "parse with a callback" /\ Filter!Next
          /\ UNCHANGED <<lexer, strings, text, patches, binary>>
       \/ part = "strings" /\ Strings!Next /\ UNCHANGED <<lexer, parser, text, patches, binary>>
       \/ part = "pointers" /\ Pointer!Type /\ UNCHANGED <<lexer, parser, strings, patches, binary>>
       \/ part \in Patching /\ Patch!Next /\ UNCHANGED <<lexer, parser, strings, text, binary>>
       \/ part = "binary" /\ Binary!Next /\ UNCHANGED <<lexer, parser, strings, text, patches>>

Spec == Init /\ [][Next]_all

-----------------------------------------------------------------------------
(* Properties *)

(* The lexer finds the tokens that the grammar has in the text, and reports  *)
(* errors where they are; the parser accepts the texts of the grammar only,  *)
(* and builds what they mean: with a callback, what it leaves of that.  The  *)
(* stacks that the parser and its handler keep of the open containers agree, *)
(* and no reference in them is moved by a later push_back.                  *)
TextsRead ==
    /\ part = "numbers" => NumberLexer!RightTokens
    /\ part = "comments" => CommentLexer!RightTokens /\ CommentLexer!PositionIsTrue
    /\ part = "parse" => /\ Parser!AcceptsTheGrammar /\ Parser!RightValue
                         /\ Parser!StacksAgree /\ Parser!RefsAreAPath
    /\ part = "parse with a callback" =>
          Filter!RightValue /\ Filter!StacksAgree /\ Filter!RefsAreAPath

(* The patch that diff() makes turns the one document into the other, though *)
(* each operation shifts what the next ones refer to; what an operation puts *)
(* down is found where it was put; merging twice is merging once; and        *)
(* unflatten() undoes flatten() except where the flat form is ambiguous.    *)
DocumentsEdited ==
    /\ part = "diff" => Patch!PatchOfDiff /\ Patch!MergeSettles /\ Patch!FlatRoundTrip
    /\ part = "operation" => Patch!EditsLand

(* What is written is read back: strings through dump_escaped, whose buffer  *)
(* never overruns, keys in pointers, and values in CBOR and MessagePack,     *)
(* where a text that is cut short is never read as a value.                 *)
RoundTrips ==
    /\ part = "strings" => Strings!BufferFits /\ Strings!RoundTrip /\ Strings!SameAlphabet
    /\ part = "pointers" => Pointer!TextIsCanonical /\ Pointer!AnyKeyIsAToken
    /\ part = "binary" => Binary!RoundTrip /\ Binary!OnlyWholeTexts /\ Binary!ReadsSettle
=============================================================================

CONSTANTS
    Numerals = {"-", "0", "7", ".", "e", "+", ","}
    NumeralLength = 6
    Commentary = {"EF", "BB", "BF", "/", "*", "LF", "nul", "7", "n", "u", "l"}
    CommentaryLength = 6
    UnsignedMax = 99
    IntegerMin = 50
    KeyTexts = {1, 2}
    MaxTokens = 10
    MaxCallbackTokens = 8
    Bytes = {10, 31, 65, 128, 144, 160, 195, 224, 237, 240, 241, 244, 255}
    StringLength = 4
    BufferSize = 16
    PointerAlphabet = {"/", "~", "0", "1", "a"}
    PointerLength = 6
    Names = {"0", "a"}
    Docs <- JsonDocs
    Order <- JsonOrder
    Values <- JsonValues
    Foreign <- JsonForeign
    Lengths <- JsonLengths
SPECIFICATION Spec
\* The text has ended.
CHECK_DEADLOCK FALSE
INVARIANTS
    TextsRead
    DocumentsEdited
    RoundTrips

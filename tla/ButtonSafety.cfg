\* Three ids, so that the counter wraps past live sessions; the second id is
\* the last that parses, and from time 2 on a stamp is negative.
CONSTANTS
    Threads = {t1, t2}
    None = None
    MaxId = 3
    ULongMax = 2
    LongMax = 1
    Minute = 1
    Durations = {0, 2}
    Outcomes = {"forget", "keep", "throw"}
    MaxNow = 2
    Callbacks = {f1, f2, f3, f4}
SPECIFICATION Spec
SYMMETRY Symmetry
INVARIANTS
    TypeOK
    ClickRunsBoundFunction
    NoRunAfterForget
    SweepComplete
PROPERTIES
    SessionKept
    UsableButtonRuns

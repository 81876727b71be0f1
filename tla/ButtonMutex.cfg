\* A callback may bind a button itself, after which nothing moves: the system
\* really stops there.
CONSTANTS
    Threads = {t1, t2}
    None = None
    MaxId = 2
    ULongMax = 2
    LongMax = 2
    Minute = 1
    Durations = {0}
    Outcomes = {"forget", "keep", "throw", "rebind"}
    MaxNow = 1
    Callbacks = {f1, f2, f3}
SPECIFICATION Spec
CHECK_DEADLOCK FALSE
PROPERTIES
    MutexFreed

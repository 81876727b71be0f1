CONSTANTS
    Items = {a, b, c}
    MaxItems = 3
    Blank = Blank
    MaxOverruns = 3
    c1 = c1 c2 = c2 Main = main w1 = w1 w2 = w2
    QSize = 2
    MaxPosts = 2
    MaxSize = 3
    MaxFiles = 2
    Sizes = {1, 2, 4}
    Missing = Missing
    MaxMessages = 5
    MaxFaults = 2
    Period = 2
    Offset = 1
    Delays = {0, 1}
    Start = 1
    MaxNow = 9
    MaxRestarts = 2
SPECIFICATION LoggingSpec
\* The pool has been destroyed, the clock or the messages are at their bound.
CHECK_DEADLOCK FALSE
INVARIANTS
    MessagesAccounted
    RotationKeeps
    CalendarRetains
PROPERTIES
    ImplementsBoundedQueue
    PoolRuns

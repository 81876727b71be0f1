CONSTANTS
    MAX_USES = 2
    Tries = 2
    t1 = t1 t2 = t2
    PageSize = 2
    Limit = 2
    Arrivals = 2
    Failures = 2
    g1 = g1 g2 = g2
    NoGame = NoGame
    ttl = 1
    Transit = 1
SPECIFICATION GenshinSpec
\* The calls and the clock are at their bounds, the lists at their end.
CHECK_DEADLOCK FALSE
INVARIANTS
    AllWereTried
    EachOnce
    UidsCurrent
PROPERTIES
    AllEnd

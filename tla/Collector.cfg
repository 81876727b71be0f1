CONSTANTS
    Threads = {t1, t2, t3}
    MaxHandle = 2
    WaySets <- MCWaySets
    MaxEvents = 2
SPECIFICATION MCSpec
\* The collecting ends; the router stops when all threads wait for the lock.
CHECK_DEADLOCK FALSE
INVARIANTS
    ListenersAttached
    CompletedOnce
PROPERTIES
    InOrderUntilCancelled
    CompletedAtLast

CONSTANTS
    t1 = t1 t2 = t2 o1 = o1 o2 = o2 o3 = o3 p1 = p1 p2 = p2 a = a b = b
    Threads = {t1, t2}
    Ids = {a, b}
    Objects = {o1, o2, o3, p1, p2}
    IdOf <- MCIdOf
    None = None
    Changers <- MCChangers
    Period = 1
    Hold = 1
    MaxNow = 3
SPECIFICATION Spec
\* The clock stops at its bound.
CHECK_DEADLOCK FALSE
INVARIANTS
    LifetimeManaged

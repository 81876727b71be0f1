CONSTANTS
    Shards = {s1, s2}
    Tables <- MCTables
    MaxLives = 1
SPECIFICATION Spec
INVARIANTS
    RegisteredOnce

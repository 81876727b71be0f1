CONSTANTS
    Shards = {s1, s2}
    Tables <- MCTables
    MaxLives = 2
SPECIFICATION Spec
INVARIANTS
    OncePerShard
PROPERTIES
    IgnoredOnlyBeforeAcceptance
    EventuallyRegistered

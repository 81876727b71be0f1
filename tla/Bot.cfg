CONSTANTS
    MaxLen = 3
    Files <- MCFiles
    Key <- MCKey
    Sextets <- MCSextets
    Messages <- MCMessages
    Shards = {s1, s2}
    LoginFiles <- MCLoginFiles
SPECIFICATION BotSpec
\* Without a token main() ends.
CHECK_DEADLOCK FALSE
INVARIANTS
    RunsWithLastToken
    TokenDecoded
    CrashExplained
    ReferencesAccounted
    DownBetweenCalls

\* Three shards serve every command of one user at once: the runs in which
\* rows can pile up.
CONSTANTS
    Shards = {s1, s2, s3}
    Users = {alice}
    Choices = {"english", "japanese", "vietnamese"}
    LanguageFiles = {"en-us", "ja-jp", "vi-vn"}
SPECIFICATION Spec
SYMMETRY ShardSymmetry
INVARIANTS
    TypeOK
    AtMostOneRow
    RowsPerUserBounded
    SoloTakesEffect
    SoloPingReportsPreference

SPECIFICATION FairSpec
CONSTANTS
    MaxCalls = 4
    Chunks = 2
    MaxTimeouts = 4
    MaxWarnings = 2
    MaxWriteErrors = 1
    MayClose = TRUE
INVARIANTS
    TypeOK
    DataOnlyWhenAsked
    TrustedAnswers
    WarningFailsOnce
PROPERTY ImplementsChannel

SPECIFICATION MCSpec
CONSTANTS
    j1 = j1
    j2 = j2
    Jobs <- MCJobs
    Kinds = {"upload", "verify", "at"}
    Names = {"script", "app"}
    FileLen = 3
    ChunkLen = 2
    Hindrances = {"talks", "blocks", "stalls"}
INVARIANTS
    TypeOK
    CompletedIsOnDevice
    ReplIsLeft
PROPERTY JobsEnd
CHECK_DEADLOCK FALSE

SPECIFICATION Spec
CONSTANTS
    Jobs = {j1}
    Kinds = {"upload"}
    Names = {"script"}
    FileLen = 3
    ChunkLen = 2
    Hindrances = {}
INVARIANT UploadNeedsOnlyDevice
CHECK_DEADLOCK FALSE

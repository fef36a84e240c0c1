SPECIFICATION FairSpec
CONSTANTS
    Users = {"package", "partition", "upload-read"}
    Styles = {"data", "okay"}
    Size = 3
    FrameLen = 2
    Huge = 9
    MaxReads = 3
    MaxTimeouts = 2
    MayRefuse = TRUE
INVARIANTS
    TypeOK
    SavedIsPartition
    NoPanic
    UploadReadKeepsAll
PROPERTY ReadsEnd

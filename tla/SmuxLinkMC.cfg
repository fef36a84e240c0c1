SPECIFICATION FairSpec
CONSTANTS
    RxBufSize = 4
    Chatter <- MCChatter
    MaxChatter = 2
    MaxWire = 2
    MaxToDev = 2
    MaxLost = 1
    DirtyStart = TRUE
    PromptDevice = TRUE
INVARIANTS
    TypeOK
    NoForgedFrame
    NoLostFrame
    WireSpellsBuildFrame
PROPERTIES
    ImplementsFrameLink
    CleanLinkComesUp

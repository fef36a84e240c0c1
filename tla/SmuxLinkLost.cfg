SPECIFICATION FairSpec
CONSTANTS
    RxBufSize = 4
    Chatter <- MCFewChatter
    MaxChatter = 2
    MaxWire = 3
    MaxToDev = 2
    MaxLost = 1
    DirtyStart = FALSE
    PromptDevice = TRUE
PROPERTY RehandshakeRecovers

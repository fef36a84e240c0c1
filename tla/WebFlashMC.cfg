SPECIFICATION FairSpec
CONSTANTS
    Firmware <- MCFirmware
    AnswerFirst = TRUE
    Watchers = {w1, w2}
    MaxStalls = 1
    MaxLeft = 1
INVARIANTS
    TypeOK
    ReadIsPrefix
    CompletedMeansTaken
    ErrorHasCause
PROPERTIES
    FlashEnds
    WatcherTold

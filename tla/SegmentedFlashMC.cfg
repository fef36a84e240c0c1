SPECIFICATION Spec
CONSTANTS
    Lengths <- MCLengths
    Limits <- MCLimits
    MaxAttempts = 2
INVARIANTS
    TypeOK
    DownloadFits
    InPlace
PROPERTY ImplementsImageWrite

SPECIFICATION FairSpec
CONSTANTS
    Flashes = {f1, f2}
    Reads = {r1}
    Cancels = {c1}
    Statuses = {}
    Free = Free
INVARIANTS
    TypeOK
    DescriptorsApart
    OneFlash
    NothingLeft
PROPERTY AllServed

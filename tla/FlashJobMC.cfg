SPECIFICATION FairSpec
CONSTANTS
    Package <- MCPackage
    Options <- MCOptions
    MaxRuns = 2
    MaxFaults = 2
    MaxUnplugs = 1
INVARIANTS
    TypeOK
    CheckpointBehind
    CheckpointAccounts
PROPERTIES
    ImplementsGroupOrder
    AttemptsEnd

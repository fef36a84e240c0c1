SPECIFICATION Spec
CONSTANTS
    Package <- MCPackage
    Options <- MCRetry
    MaxRuns = 2
    MaxFaults = 0
    MaxUnplugs = 1
INVARIANT FlashInFlasher

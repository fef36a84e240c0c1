SPECIFICATION Spec
CONSTANTS
    Flashes = {f1}
    Reads = {r1, r2}
    Cancels = {c1}
    Statuses = {}
    Free = Free
INVARIANT CancelReachesFlash

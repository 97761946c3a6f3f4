\* A cycle of two steps and two products, one step a tick, two workers.
SPECIFICATION FairSpec
CONSTANTS
    N = 2
    Products = {p1, p2}
    Tasks = {t1, t2}
    Cap = 1
    MaxRetries = 1
    MaxFaults = 1
    None = None
INVARIANT GribMeansFannedOut
PROPERTY CycleCompletes

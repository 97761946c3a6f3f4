\* Liveness: one image, one worker that crashes, stops and restarts.
SPECIFICATION FairSpec
CONSTANTS
    Images = {i1}
    Workers = {w1}
    Slots = {s1}
    Msgs = {1, 2, 3}
    MaxRetries = 1
    TTL = 0
    MaxFaults = 2
    None = None
PROPERTY ProcessingEnds
PROPERTY OrphansReclaimed
PROPERTY Rediscovered
PROPERTY DueResolved

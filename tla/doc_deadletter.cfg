\* One failed attempt, no retry.
SPECIFICATION FairSpec
CONSTANTS
    Images = {i1}
    Workers = {w1}
    Slots = {s1}
    Msgs = {1, 2, 3}
    MaxRetries = 0
    TTL = 0
    MaxFaults = 1
    None = None
PROPERTY DeadLettersRediscovered

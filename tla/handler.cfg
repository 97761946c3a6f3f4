\* Two workers with one task each on one volume; two attempts.
SPECIFICATION FairSpec
CONSTANTS
    Workers = {w1, w2}
    Slots = {s1}
    MaxAttempts = 2
INVARIANT NoChildEscapes
INVARIANT ShutdownBurnsNoRetry
PROPERTY RawFileOnlyLostToBoot
PROPERTY ShutdownEnds
PROPERTY ResidueSwept

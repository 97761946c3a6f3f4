\* One image, two workers with one task each, up to two faults.
SPECIFICATION Spec
CONSTANTS
    Images = {i1}
    Workers = {w1, w2}
    Slots = {s1}
    Msgs = {1, 2, 3, 4}
    MaxRetries = 1
    TTL = 1
    MaxFaults = 2
    None = None
SYMMETRY Symmetry
INVARIANT TypeOK
INVARIANT NoUnitLost
INVARIANT DeliveryHeldOnce
PROPERTY NeverReplacesRow
PROPERTY ImplementsDelivery

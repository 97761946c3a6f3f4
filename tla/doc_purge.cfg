\* Two workers on one volume, one attempt.
SPECIFICATION Spec
CONSTANTS
    Workers = {w1, w2}
    Slots = {s1}
    MaxAttempts = 1
PROPERTY MissingSourceIsPruned

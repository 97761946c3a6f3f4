SPECIFICATION Spec
CONSTANTS
    Copies = {c1, c2}
    MaxAttempts = 3
    MaxFaults = 1
SYMMETRY Symmetry
INVARIANT CompletedMeansStored
INVARIANT SkipPublishesNothing
INVARIANT WitnessIsLast
INVARIANT ShutdownIsPrompt
INVARIANT StepsFindTheirFiles
CHECK_DEADLOCK FALSE

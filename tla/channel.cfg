\* Two concurrent tasks; three channels of up to three deliveries.
SPECIFICATION FairSpec
CONSTANTS
    Slots = {s1, s2}
    MaxTag = 3
    MaxChan = 3
INVARIANT TypeOK
INVARIANT CounterCoversRunning
INVARIANT RunningTagsValid
PROPERTY ConnectionRecovers
CHECK_DEADLOCK FALSE

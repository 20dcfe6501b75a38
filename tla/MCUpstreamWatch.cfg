\* A month of two days, of two ticks each.
SPECIFICATION Spec
CONSTANTS
    TicksPerDay = 2
    CheckpointAge = 2
    Attempts = 3
    PolicyTriggers = {"security-correctness"}
    OtherReasons = {"commit-count"}
    Skew = 1
    MaxTick = 6
    MaxTags = 3
INVARIANTS
    TypeOK
    CandidatesAreJustified
PROPERTY CheckEnds

SPECIFICATION Spec
CONSTANTS
    A = A
    B = B
    r1 = r1
    r2 = r2
    r3 = r3
    None = None
    Versions <- MCRevisions
    Checkpoints <- MCCheckpoints
    Sources <- MCRevisedSources
    Runs = {r1, r2, r3}
    MaxCIRuns = 2
    MaxRetags = 1
CONSTRAINT OneRunAtATime
INVARIANT OneCheckpointPerBuild

SPECIFICATION Spec
CONSTANTS
    A = A
    B = B
    r1 = r1
    r2 = r2
    r3 = r3
    None = None
    Versions <- MCVersions
    Checkpoints <- MCCheckpoints
    Sources <- MCPlainSources
    Runs = {r1, r2}
    MaxCIRuns = 2
    MaxRetags = 0
PROPERTY PublishedInOrder

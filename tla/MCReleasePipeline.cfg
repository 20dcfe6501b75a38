SPECIFICATION Spec
CONSTANTS
    A = A
    B = B
    r1 = r1
    r2 = r2
    r3 = r3
    None = None
    Versions <- MCVersions
    Checkpoints <- MCCheckpoints
    Sources <- MCSources
    Runs = {r1, r2}
    MaxCIRuns = 2
    MaxRetags = 1
SYMMETRY MCSymmetry
INVARIANTS
    ValidatedInOrder
    NeighboursAgree
    ReleasedWasGreen
    ReleaseIsUpstream
PROPERTY LedgerSpec

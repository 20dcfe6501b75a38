SPECIFICATION Spec
CONSTANTS
    old = old
    new = new
    same = same
    changed = changed
    p1 = p1
    p2 = p2
    None = None
    Cut = Cut
    Processes = {p1, p2}
    Checkpoints = {old, new}
    Files = {same, changed}
    Content <- MCContent
    MaxAttempts = 2
    MaxRetags = 1
    MaxFaults = 2
    MaxBreaks = 1
INVARIANTS
    TypeOK
    Recoverable
    MatchIsReal
    NoStagingLeft
SYMMETRY MCSymmetry
PROPERTY VendoredTreeSpec
CHECK_DEADLOCK FALSE

SPECIFICATION Spec
CONSTANTS
    old = old
    new = new
    same = same
    changed = changed
    p1 = p1
    p2 = p2
    None = None
    Cut = Cut
    Processes = {p1}
    Checkpoints = {old, new}
    Files = {same, changed}
    Content <- MCContent
    MaxAttempts = 3
    MaxRetags = 0
    MaxFaults = 0
    MaxBreaks = 0
INVARIANT CutIsRetried
CHECK_DEADLOCK FALSE

SPECIFICATION Spec
CONSTANTS
    old = old
    new = new
    same = same
    changed = changed
    p1 = p1
    p2 = p2
    None = None
    Cut = Cut
    Processes = {p1, p2}
    Checkpoints = {old, new}
    Files = {changed}
    Content <- MCContent
    MaxAttempts = 2
    MaxRetags = 0
    MaxFaults = 1
    MaxBreaks = 1
PROPERTIES
    Terminates
    TreeReturns
CHECK_DEADLOCK FALSE

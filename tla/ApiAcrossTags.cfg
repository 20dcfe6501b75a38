\* Three trees, two tags, two releases and no review.
SPECIFICATION Spec
CONSTANTS
    t1 = t1
    t2 = t2
    t3 = t3
    decode = decode
    eval = eval
    seed = seed
    v1 = v1
    v2 = v2
    v3 = v3
    Trees <- MCTrees
    ApiOf <- MCApiOf
    TagOf <- MCTagOf
    DeclarationNames = {decode, eval}
    Fingerprints = {v1, v2, v3}
    ConstantNames = {seed}
    Values = {v1, v2, v3}
    None = None
    MaxReleases = 2
    MaxDecisions = 1
INVARIANT
    BreakingReleaseIsDecided

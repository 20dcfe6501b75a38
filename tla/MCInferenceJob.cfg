\* Two fetchers, two attempts, prompts of up to two tokens and three passes.
\* The job may end anywhere.
SPECIFICATION Spec
CONSTANTS
    Fetchers = {job, other}
    Job = job
    Pinned = pinned
    SameSize = {altered}
    Contents = {pinned, altered, cut}
    Partial = partial
    None = None
    Attempts = 2
    MaxPrompt = 2
    MaxGenerated = 3
INVARIANTS
    TypeOK
    SuccessMeansPinned
    NoTemporaryLeft
    FreesAreSafe
    NothingLeaks
    DecodesFit
    DeviceIsNotClaimed
    LoadsArePinned
PROPERTIES
    OutputReplacedWhole
    JobEnds
CHECK_DEADLOCK FALSE

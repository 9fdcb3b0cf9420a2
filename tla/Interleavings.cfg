\* Two runners that may be delayed for any time between any two calls, every
\* kind of disruption, the author pushing once.
SPECIFICATION Spec
CONSTANTS
    r1 = r1
    r2 = r2
    r3 = r3
    Runner = {r1, r2}
    NoRunner = NoRunner
    LockTimeout = 1
    ExtraTime = 0
    AgeCap = 1
    N = 1
    Requires <- Independent
    Timeout <- ShortTimeouts
    Untimed = {}
    Malformed = {}
    Fits <- AllFit
    Whitelisted = TRUE
    Outcomes = {"success", "failure"}
    PollSleep = 0
    RaceTimeout = 0
    Backoff = 0
    ErrorBackoff = 1
    RestartSec = 0
    Prompt = FALSE
    Punctual = FALSE
    Faults = {"crash", "poll_error", "unassign_error", "job_error", "operator", "label"}
    MaxHead = 1
    MaxDisruptions = 2
INVARIANTS TypeOK ClaimHasOwner ReportMatchesBuild
SYMMETRY Interchangeable

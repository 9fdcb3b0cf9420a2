\* Two prompt runners, no disruption, two independent jobs.
SPECIFICATION Spec
CONSTANTS
    r1 = r1
    r2 = r2
    r3 = r3
    Runner = {r1, r2}
    NoRunner = NoRunner
    LockTimeout = 1
    ExtraTime = 0
    AgeCap = 0
    N = 2
    Requires <- Independent
    Timeout <- NoTimeouts
    Untimed = {}
    Malformed = {}
    Fits <- AllFit
    Whitelisted = TRUE
    Outcomes = {"success", "failure"}
    PollSleep = 1
    RaceTimeout = 2
    Backoff = 1
    ErrorBackoff = 2
    RestartSec = 1
    Prompt = TRUE
    Punctual = TRUE
    Faults = {}
    MaxHead = 0
    MaxDisruptions = 0
INVARIANTS OneExecutor

\* A tasks file with a job without timeout, a malformed job and a good one.
SPECIFICATION FairSpec
CONSTANTS
    r1 = r1
    r2 = r2
    r3 = r3
    Runner = {r1, r2}
    NoRunner = NoRunner
    LockTimeout = 1
    ExtraTime = 0
    AgeCap = 0
    N = 3
    Requires <- Independent
    Timeout <- NoTimeouts
    Untimed = {1}
    Malformed = {2}
    Fits <- AllFit
    Whitelisted = TRUE
    Outcomes = {"success"}
    PollSleep = 1
    RaceTimeout = 2
    Backoff = 1
    ErrorBackoff = 2
    RestartSec = 1
    Prompt = TRUE
    Punctual = TRUE
    Faults = {"unassign_error"}
    MaxHead = 1
    MaxDisruptions = 2
PROPERTIES WellDefinedComplete KeepsClaims

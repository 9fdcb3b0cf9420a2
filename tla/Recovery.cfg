\* Prompt runners and punctual jobs that succeed, two crashes or failed polls, one
\* push: every job completes.
SPECIFICATION FairSpec
CONSTANTS
    r1 = r1
    r2 = r2
    r3 = r3
    Runner = {r1, r2}
    NoRunner = NoRunner
    LockTimeout = 1
    ExtraTime = 2
    AgeCap = 3
    N = 2
    Requires <- TestRequiresBuild
    Timeout <- ShortTimeouts
    Untimed = {}
    Malformed = {}
    Fits <- AllFit
    Whitelisted = TRUE
    Outcomes = {"success"}
    PollSleep = 1
    RaceTimeout = 2
    Backoff = 1
    ErrorBackoff = 2
    RestartSec = 1
    Prompt = TRUE
    Punctual = TRUE
    Faults = {"crash", "poll_error"}
    MaxHead = 1
    MaxDisruptions = 2
PROPERTIES Completion

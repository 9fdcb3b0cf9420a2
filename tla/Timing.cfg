\* Prompt runners, executions of any length, one crash: the timers of Task.lock and
\* of Status.stalled, and set_rerun by snapshots that are out of date.
SPECIFICATION Spec
CONSTANTS
    r1 = r1
    r2 = r2
    r3 = r3
    Runner = {r1, r2}
    NoRunner = NoRunner
    LockTimeout = 1
    ExtraTime = 2
    AgeCap = 4
    N = 3
    Requires <- LastRequiresFirst
    Timeout <- LongerLater
    Untimed = {}
    Malformed = {}
    Fits <- AllFit
    Whitelisted = TRUE
    Outcomes = {"success", "failure"}
    PollSleep = 1
    RaceTimeout = 2
    Backoff = 1
    ErrorBackoff = 2
    RestartSec = 1
    Prompt = TRUE
    Punctual = FALSE
    Faults = {"crash"}
    MaxHead = 0
    MaxDisruptions = 1
INVARIANTS SoleWinner DependenciesHold StaleMeansLate
PROPERTIES ResultIsFinal KeepsLedger
SYMMETRY Interchangeable

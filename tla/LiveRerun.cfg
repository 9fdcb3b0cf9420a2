\* Prompt runners, executions that end by the timeout and no fault: a runner that
\* executes the first job finds, in its snapshot, that the second was locked long
\* ago, and sets it for a rerun although its runner has taken it meanwhile.
SPECIFICATION Spec
CONSTANTS
    r1 = r1
    r2 = r2
    r3 = r3
    Runner = {r1, r2}
    NoRunner = NoRunner
    LockTimeout = 1
    ExtraTime = 2
    AgeCap = 4
    N = 2
    Requires <- Independent
    Timeout <- LongerLater
    Untimed = {}
    Malformed = {}
    Fits <- SecondFitsAll
    Whitelisted = TRUE
    Outcomes = {"success", "failure"}
    PollSleep = 1
    RaceTimeout = 2
    Backoff = 1
    ErrorBackoff = 2
    RestartSec = 1
    Prompt = TRUE
    Punctual = TRUE
    Faults = {}
    MaxHead = 0
    MaxDisruptions = 0
PROPERTIES RerunSparesTaken

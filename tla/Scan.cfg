\* Two runners and four pull requests: one whose tasks file cannot be read, a good one,
\* a good one that people change, and a last one that ends every runner that comes to
\* it.
SPECIFICATION FairSpec
CONSTANTS
    r1 = r1
    r2 = r2
    Runner = {r1, r2}
    NoRunner = NoRunner
    P = 4
    N = 1
    Requires <- Independent
    Needs <- OneEach
    Memory <- OneFits
    Whitelisted = {1, 2, 3}
    TasksFile <- Mixed
    Edited = {3}
    MaxEdits = 1
    MaxFaults = 1
INVARIANTS TypeOK
PROPERTIES PriorityRespected EveryJobComes RebaseIsAskedFor

\* Jobs of the three classes, with the retries of the code, and two commands that hang.
\* The main thread that got an exception from the kill may have left the job's thread
\* behind; a command that hangs after the walk over the subtasks stops the job for ever.
SPECIFICATION FairSpec
CONSTANTS
    Jobs <- SomeJobs
    UpRetries <- RetriesOfUp
    ProvisionRetries <- RetriesOfProvision
    MaxHangs = 2
INVARIANTS TypeOK VerdictIsEarned CleanupBeforeReturn
PROPERTIES HangIsReported
CHECK_DEADLOCK FALSE

------------------------------ MODULE MCJobRun ------------------------------
(* Instances of JobRun for TLC: the classes with the retries of the code.     *)
EXTENDS JobRun

Task(class, no_destroy, publish_artifacts, rootIndex) ==
    [class |-> class, no_destroy |-> no_destroy,
     publish_artifacts |-> publish_artifacts, rootIndex |-> rootIndex]

\* The configuration of the code's defaults for each class, and others.
SomeJobs == {Task("Build", FALSE, TRUE, TRUE), Task("Build", TRUE, FALSE, TRUE),
             Task("RunPytest", FALSE, TRUE, FALSE), Task("RunPytest", TRUE, TRUE, TRUE),
             Task("RunADTests", FALSE, TRUE, TRUE)}

RetriesOfUp == [c \in Class |-> IF c = "RunADTests" THEN 2 ELSE 0]
RetriesOfProvision == [c \in Class |-> IF c = "RunADTests" THEN 3 ELSE 1]
=============================================================================

------------------------------- MODULE JobRun -------------------------------
(***************************************************************************)
(* One execution of a job on its runner: tasks.JobTask called by           *)
(* entities.JobDispatcher.                                                 *)
(*                                                                         *)
(* Two threads.  The job's thread (tasks.common.Task.__target) executes    *)
(* one external command after the other; each is a PopenTask that          *)
(* execute_subtask first appends to the lists of subtasks and then calls.  *)
(* The main thread joins the job's thread for at most the job's timeout,   *)
(* then walks the subtasks to kill what runs, and joins again.             *)
(*                                                                         *)
(* The threads a nested Task starts only wait for each other, so the tree  *)
(* of subtasks is flattened to the sequence of the commands.  A command    *)
(* may hang: then nothing but a kill ends it.  A command that a timeout has *)
(* ended, the job's or its own, has failed.                                *)
(* One that finds nothing to do is one that succeeds at once.              *)
(***************************************************************************)
EXTENDS Naturals

CONSTANTS
    Jobs,              \* the jobs: their classes, and how they are configured
    UpRetries,         \* class -> vagrant_up_retries
    ProvisionRetries,  \* class -> vagrant_provision_retries
    MaxHangs           \* bound: commands that hang

Class == {"Build", "RunPytest", "RunADTests"}

\* rootIndex: repo_owner is among those whose jobs are listed in the root index.
JobTask == [class : Class, no_destroy : BOOLEAN, publish_artifacts : BOOLEAN,
            rootIndex : BOOLEAN]

\* Commands that are executed with timeout=None, with one of their own, and by
\* subprocess.run, which has a timeout but is no subtask: "room" is
\* update_latest_use and delete_oldest_box, "stop" is systemctl stop prci.
Unlimited == {"box", "up", "provision", "test"}
Limited == {"collect", "destroy", "gzip", "repo", "upload", "index"}
Plain == {"room", "stop"}
Command == Unlimited \cup Limited \cup Plain

ASSUME JobAssumption ==
    /\ Jobs \subseteq JobTask
    /\ UpRetries \in [Class -> Nat]
    /\ ProvisionRetries \in [Class -> Nat]
    /\ MaxHangs \in Nat

VARIABLES
    job,      \* the job
    main,     \* what the main thread does
    cursor,   \* the subtask its walk in Task.terminate is at
    verdict,  \* the JobResult, "none" before there is one
    cmd,      \* the command the job's thread is at, "prepare" before the first,
              \* "end" when it has ended
    seq,      \* the number of subtasks so far: the last one is or was running
    process,  \* the command's process
    hung,     \* whether it hangs
    ended,    \* command -> how it last ended
    retries,  \* the retries left of vagrant up and provision
    exc,      \* Task.exc: none, a TaskException, or any other exception
    vms,      \* virtual machines may exist
    hangs     \* the number of commands that hung

mainVars == <<main, cursor, verdict>>
jobVars == <<job, cmd, seq, process, hung, ended, retries, exc>>
vars == <<mainVars, jobVars, vms, hangs>>

TypeOK ==
    /\ job \in Jobs
    /\ main \in {"join", "terminate", "kill", "rejoin", "returned", "raised", "next"}
    /\ cursor \in Nat
    /\ verdict \in {"none", "success", "failure", "error", "timeout"}
    /\ cmd \in Command \cup {"prepare", "end"}
    /\ seq \in Nat
    /\ process \in {"none", "running", "exited", "reaped"}
    /\ hung \in BOOLEAN
    /\ ended \in [Command -> {"not", "ok", "failed"}]
    /\ retries \in [{"up", "provision"} -> Nat]
    /\ exc \in {"none", "task", "other"}
    /\ vms \in BOOLEAN
    /\ hangs \in 0 .. MaxHangs

Init ==
    /\ job \in Jobs
    /\ main = "join" /\ cursor = 0 /\ verdict = "none"
    /\ cmd = "prepare" /\ seq = 0 /\ process = "none"
    /\ hung = FALSE
    /\ ended = [c \in Command |-> "not"]
    /\ retries = [c \in {"up", "provision"} |->
                    IF c = "up" THEN UpRetries[job.class] ELSE ProvisionRetries[job.class]]
    /\ exc = "none" /\ vms = FALSE
    /\ hangs = 0

Build == job.class = "Build"

-----------------------------------------------------------------------------
(* The order of the commands.                                              *)

\* The finally clause of with_vagrant.
Cleanup == IF job.no_destroy THEN "gzip" ELSE "destroy"

\* __setup_provision, with_vagrant, _run and _after when nothing fails.
Successor(c) ==
    CASE c = "room"      -> "box"
      [] c = "box"       -> "up"
      [] c = "up"        -> "provision"
      [] c = "provision" -> "test"
      [] c = "test"      -> IF Build THEN "collect" ELSE Cleanup
      [] c = "collect"   -> Cleanup
      [] c = "destroy"   -> "gzip"
      [] c = "gzip"      -> IF ~job.publish_artifacts THEN "end"
                            ELSE IF Build THEN "repo" ELSE "upload"
      [] c = "repo"      -> "upload"
      [] c = "upload"    -> IF job.rootIndex THEN "index" ELSE "end"
      [] c \in {"stop", "index"} -> "end"

\* Mutant: one retry too many.
RetriedOnceMore(c) == c \in {"up", "provision"} /\ retries[c] >= 0

\* returncode is -9 after a kill, and the code looks for -15: a killed command
\* is retried like one that failed.
Retried(c) == c \in {"up", "provision"} /\ retries[c] > 0

SetUp == {"room", "box", "up", "provision"}

\* Mutant: with_vagrant does not destroy what a failed set-up has left.
OnFailureWithoutCleanup(c) ==
    CASE Retried(c) -> c
      [] c \in SetUp /\ ~Retried(c) -> "gzip"
      [] c = "upload" -> "stop"
      [] OTHER -> Successor(c)

\* A failed set-up goes to the cleanup, a failed upload stops the service; any
\* other failure changes nothing.
OnFailure(c) ==
    CASE Retried(c) -> c
      [] c \in SetUp /\ ~Retried(c) -> Cleanup
      [] c = "upload" -> "stop"
      [] OTHER -> Successor(c)

\* The exception that a failure leaves in Task.exc, in place of an earlier one.
\* That of "test" is turned into a returncode, the status of "stop" not looked at.
Raised(c) ==
    CASE c = "room" -> "other"
      [] c = "upload" \/ (c \in {"box", "up", "provision"} /\ ~Retried(c)) -> "task"
      [] OTHER -> exc

-----------------------------------------------------------------------------
(* The job's thread.                                                       *)

\* _before makes the job's directory and files.  When it fails, _after runs all
\* the same.  RunPytest lets an OSError of its own files through.
Prepare ==
    /\ cmd = "prepare"
    /\ \/ cmd' = "room" /\ UNCHANGED <<seq, exc>>
       \/ cmd' = "gzip" /\ seq' = 1 /\ exc' = "task"
       \/ ~Build /\ cmd' = "gzip" /\ seq' = 1 /\ exc' = "other"
    /\ UNCHANGED <<job, mainVars, process, hung, ended, retries, vms, hangs>>

\* PopenTask._run, or subprocess.run, starts the process, which may hang.
Popen ==
    /\ cmd \in Command
    /\ process = "none"
    /\ process' = "running"
    /\ vms' = (vms \/ cmd = "up")
    /\ \/ hung' = FALSE /\ UNCHANGED hangs
       \/ hangs < MaxHangs /\ hung' = TRUE /\ hangs' = hangs + 1
    /\ UNCHANGED <<job, mainVars, cmd, seq, ended, retries, exc>>

Ends(how) ==
    /\ process' = "exited"
    /\ ended' = [ended EXCEPT ![cmd] = how]
    /\ hung' = FALSE

Exit ==
    /\ process = "running" /\ ~hung
    /\ \E how \in {"ok", "failed"} : Ends(how)
    /\ UNCHANGED <<job, mainVars, cmd, seq, retries, exc, vms, hangs>>

\* The command's own timeout: Task.__call__, or subprocess.run, kills it.  What
\* the latter raises, TimeoutExpired, is no TaskException.
LimitExpires ==
    /\ process = "running" /\ cmd \in Limited \cup Plain
    /\ Ends("failed")
    /\ exc' = IF cmd \in Plain THEN "other" ELSE exc
    /\ UNCHANGED <<job, mainVars, cmd, seq, retries, vms, hangs>>

\* process.wait()
Reap ==
    /\ process = "exited"
    /\ process' = "reaped"
    /\ UNCHANGED <<job, mainVars, cmd, seq, hung, ended, retries, exc, vms, hangs>>

\* process = None; the caller goes on to its next subtask.
Proceed ==
    /\ process = "reaped"
    /\ process' = "none"
    /\ LET ok == ended[cmd] = "ok"
       IN  /\ cmd' = IF ok THEN Successor(cmd) ELSE OnFailure(cmd)
           /\ seq' = IF cmd' \in Plain \cup {"end"} THEN seq ELSE seq + 1
           /\ retries' = IF ~ok /\ Retried(cmd) THEN [retries EXCEPT ![cmd] = @ - 1]
                                                ELSE retries
           /\ exc' = IF ok THEN exc ELSE Raised(cmd)
           /\ vms' = (vms /\ ~(ok /\ cmd = "destroy"))
    /\ UNCHANGED <<job, mainVars, hung, ended, hangs>>

-----------------------------------------------------------------------------
(* The main thread: Task.__call__ of the job.                              *)

\* Mutant: create_yum_repo's failure does not reset the returncode.
PassedOnceBuilt == ended["test"] = "ok"

\* returncode = 0 of JobTask, at the end of _after.
Passed ==
    /\ ended["test"] = "ok"
    /\ Build /\ job.publish_artifacts => ended["repo"] = "ok"

\* The job's thread ended in time; JobDispatcher catches TaskException only.
Join ==
    /\ main = "join" /\ cmd = "end"
    /\ \/ exc = "other" /\ main' = "raised" /\ UNCHANGED verdict
       \/ exc = "task" /\ main' = "returned" /\ verdict' = "error"
       \/ /\ exc = "none" /\ main' = "returned"
          /\ verdict' = IF Passed THEN "success" ELSE "failure"
    /\ UNCHANGED <<cursor, jobVars, vms, hangs>>

\* Mutant: terminate() does not walk over the subtasks.
TimeoutWithoutWalk ==
    /\ main = "join" /\ cmd # "end"
    /\ main' = "rejoin"
    /\ cursor' = seq
    /\ UNCHANGED <<verdict, jobVars, vms, hangs>>

\* The walk over the subtasks starts; those before the last have ended.
Timeout ==
    /\ main = "join" /\ cmd # "end"
    /\ main' = "terminate"
    /\ cursor' = seq
    /\ UNCHANGED <<verdict, jobVars, vms, hangs>>

\* The last subtask has a process: not while a command runs that is no subtask.
Stoppable == cursor = seq /\ process # "none" /\ cmd \notin Plain

\* PopenTask._terminate: "if self.process is None: return".  Subtasks that are
\* appended while the walk goes on are visited as well.
TerminateNext ==
    /\ main = "terminate"
    /\ \/ /\ cursor > seq
          /\ main' = "rejoin"
          /\ UNCHANGED cursor
       \/ /\ Stoppable
          /\ main' = "kill"
          /\ UNCHANGED cursor
       \/ /\ cursor <= seq /\ ~Stoppable
          /\ cursor' = cursor + 1
          /\ UNCHANGED main
    /\ UNCHANGED <<verdict, jobVars, vms, hangs>>

\* os.killpg(self.process.pid, SIGKILL).  Since the test, the process may have
\* become None: AttributeError.  Once it is reaped, its process group may be
\* gone: ProcessLookupError.  Both leave Task.__call__ at once.
Kill ==
    /\ main = "kill"
    /\ \/ /\ Stoppable
          /\ IF process = "running" THEN Ends("failed")
                                    ELSE UNCHANGED <<process, ended, hung>>
          /\ main' = "terminate" /\ cursor' = cursor + 1
       \/ /\ ~Stoppable \/ process = "reaped"
          /\ main' = "raised"
          /\ UNCHANGED <<cursor, process, ended, hung>>
    /\ UNCHANGED <<job, verdict, cmd, seq, retries, exc, vms, hangs>>

\* thread.join(), without a limit, then TimeoutException.
Rejoin ==
    /\ main = "rejoin" /\ cmd = "end"
    /\ main' = "returned"
    /\ verdict' = "timeout"
    /\ UNCHANGED <<cursor, jobVars, vms, hangs>>

\* main()'s finally clause: destroy_libvirt_domains, and on to the next task.
Finally ==
    /\ main \in {"returned", "raised"}
    /\ main' = "next"
    /\ vms' = FALSE
    /\ UNCHANGED <<cursor, verdict, jobVars, hangs>>

-----------------------------------------------------------------------------
JobThread == Prepare \/ Popen \/ Exit \/ LimitExpires \/ Reap \/ Proceed
MainThread == Join \/ TerminateNext \/ Kill \/ Rejoin \/ Finally

\* Both threads have ended.
Over == main = "next" /\ cmd = "end" /\ UNCHANGED vars

Next == JobThread \/ MainThread \/ Timeout \/ Over

Spec == Init /\ [][Next]_vars

\* Threads are scheduled, and the timeouts expire, the job's and the commands'.
FairSpec ==
    Spec /\ WF_vars(JobThread) /\ WF_vars(MainThread) /\ WF_vars(Timeout)
-----------------------------------------------------------------------------
(* What is checked.                                                        *)

\* A success is reported of a job whose every step succeeded, and a failure of
\* one whose machines were set up: what went wrong before is an error, so that
\* the pull request is not blamed for it (JobTask.returncode, Task.exc and
\* JobDispatcher.__call__).  Logs that cannot be published are an error as well.
VerdictIsEarned ==
    verdict \in {"success", "failure"} =>
        /\ \A c \in SetUp : ended[c] = "ok"
        /\ job.publish_artifacts => ended["upload"] = "ok"
        /\ (verdict = "success") <=>
              /\ ended["test"] = "ok"
              /\ Build /\ job.publish_artifacts => ended["repo"] = "ok"

\* However the job goes, and whenever its timeout expires: when JobDispatcher has
\* a verdict the job's thread has ended, it has tried to publish the logs, and to
\* destroy the machines, unless it failed before it had any, or was told not to.
CleanupBeforeReturn ==
    main = "returned" =>
        /\ cmd = "end"
        /\ job.publish_artifacts => ended["upload"] # "not"
        /\ \/ ended["destroy"] # "not"
           \/ job.no_destroy
           \/ ended["room"] = "not" /\ ~vms

\* The job's timeout gets the runner out of a command that hangs before the
\* timeout expires, provided that the code does not start it once more.
HangIsReported ==
    (main = "join" /\ hung /\ ~Retried(cmd)) ~> (main = "next")
=============================================================================

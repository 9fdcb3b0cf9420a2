# A verification development for freeipa-pr-ci

TLA+ modules, TLC configurations and TLAPS proofs about the program in `src/`:
the runners that share out, execute and report the CI jobs of FreeIPA's pull
requests.  `PROJECT.json` is the machine-readable side of this file: every run,
the source lines every definition stands for, the hazards and the findings.

Run a check with `tlc -config <Run>.cfg <MC module>`, the proofs with
`tlapm <module>Proofs.tla`.

## 1. The system

| component | source | state it keeps | operations |
|---|---|---|---|
| claim protocol | `github/prci.py`, `github/internals/entities.py`, `gql/util.py`, `scripts/prci_test_control.py` | on GitHub: one commit status per job and commit, the labels of a pull request; in each runner: the snapshot of its scan | scan, `set_unassigned`, `set_rerun`, `lock`, `execute`, `create_error_status`, removal of labels, the operator's `rerun` |
| job execution | `tasks/common.py`, `vagrant.py`, `tasks.py`, `remote_storage.py` | the tree of subtasks, each with a thread and perhaps a process; virtual machines | the commands of a job, retries, cleanup, upload, timeout and kill |
| scan order and labels | `prci.py`, `entities.py`, `gql/queries.py` | on GitHub: labels, conflicts; in each runner: the snapshot and its order, free cpus and memory | query, sort, skip, offer, take and give resources, the re-run and rebase labels |
| runner service | `entities.ExitHandler`, `ansible/roles/runner/files/prci.service` | `done`, `aborted` | SIGINT, SIGTERM, exit codes, restart by systemd |
| API rate limit | `entities.RateLimit`, `World.check_*_limit` | what GitHub says remains | sleep until the reset, five tries |
| Vagrant box cache | `tasks/vagrant.py` | installed boxes, the statistics file, libvirt images | download, link, delete the oldest |
| autocleaner | `autocleaner.py` | the service's state, `/etc/exports`, job directories | stop, clean in a process, start |
| nightly pull requests | `github/open_close_pr.py` | one clone of the repository, the branches of the fork, the pull requests | close the older, rebase, build a template and bump its version, commit, create with retries |
| box upload | `vagrant/atlas.py`, `vagrant/box_uploader.py` | the versions of a box, with provider and content, in Vagrant Cloud | look up or create each of them, upload, release |
| box cache script | `scripts/cache-vagrant-box.py` | boxes in `/tmp/temp_boxes` and in the catalog | look up, download, move |
| box hosting, results in the cloud, deployment | `ansible/` , `tasks/remote_storage.py` | saved pages, objects in S3 | pages, metadata, configuration |

How they interact.  Runners never talk to each other.  All they share is GitHub:
a runner reads a *snapshot* of all pull requests at the start of a scan
(`prci.main`), reads the status of one job on the *head* of its pull request
whenever it is about to change it (`World.poll_status`), and writes to the
commit of the *snapshot* (`World.create_status`).  A write replaces whatever is
there; there is no compare-and-swap.  Inside a runner the main thread executes
one job at a time; the job runs in a thread of its own, which executes its
commands as further tasks, each in a thread, and the main thread may time out
and kill the processes underneath (`Task.__call__`, `Task.terminate`).  On the
host of a runner, systemd keeps the process alive, and cron starts the
autocleaner, which stops and starts it; the jobs and the autocleaner share the
Vagrant boxes and the images of libvirt, and the machines, which are children of
libvirtd and survive both.  On another host cron runs `open_close_pr` for each nightly
job and for each template: all in one clone, in which each run finds what the one
before has left; the template's run also builds a box and uploads it, calling
Vagrant Cloud step by step, and the cache script copies what is there.

What is hard here.  Races of runners over one status; statuses that have moved
between a poll and the write it justifies; snapshots that are hours old;
commits pushed while a job runs; runners that die with a claim; timeouts that
declare a claim abandoned; the timeout of a job against a process that ends, a
retry, a cleanup; a host whose service crashes, stops itself, and is stopped
while something is deleted; a quota that all runners drain and each looks at on its
own; a pull request that stops the runner and what is behind it; scripts of a dozen
external calls, each of which may fail, or be done and its answer lost, and whose
remains the next run finds.  `hazards` in `PROJECT.json` lists them at their lines.

What makes each component correct:

- claim protocol: at most one runner executes a job; a claim that stands has an
  owner at work or is recovered, and is not taken from one that is at work; results
  stand on the commit that was built and are not lost or overwritten; every job gets
  a result in the end; required jobs have succeeded.
- job execution: the verdict reports what happened; whatever happens, the
  machines are destroyed and the logs published; the timeout gets the runner
  back.
- runner service and autocleaner: the service is up again in the end, and no job
  runs while the machine is cleaned.
- box cache: what is deleted is not in use.
- scan: the prioritized go first; every job of every workable pull request is
  executed in the end; the author of one that conflicts is told.
- rate limit: no call is refused, nobody sleeps longer than necessary.
- box upload and cache, nightly pull requests: a failure half-way leaves something
  a later run repairs; what is released stays; what is published is whole and is what
  the run is for.

## 2. Modules

| module | models | status |
|---|---|---|
| `CommitStatus` | one commit status and the predicates of `entities.Status` | done |
| `TaskClaim` | the claim protocol of any number of runners over the jobs of one pull request | done for one pull request |
| `MCTaskClaim` | instances of it | done |
| `TaskClaimProofs` | theorems about it, whatever the timing | four theorems |
| `TaskClaimTimingProofs` | what its timers achieve | seven theorems |
| `JobRun` | one execution of a job of any class and configuration: its thread, the main thread, the timeout | done |
| `MCJobRun` | instances of it | done |
| `JobRunProofs` | theorems about it | four theorems |
| `RunnerHost` | the host of one runner: systemd's unit, the process, the box cache, the autocleaner | done |
| `MCRunnerHost` | instances of it | done |
| `RunnerHostProofs` | theorems about it | five theorems |
| `TaskLedger` | abstract specification of the claim protocol: jobs are open, held by a runner, or have a result | done |
| `ClaimRefinement` | `TaskClaim` read as a `TaskLedger` | done |
| `ClaimRefinementProofs` | that `TaskClaim` implements it | one theorem |
| `PullRequestScan`, `MCPullRequestScan` | several pull requests with labels, conflicts and tasks files, resources | done |
| `PullRequestScanProofs` | theorems about it | three theorems |
| `RateLimit`, `MCRateLimit` | the quotas of GitHub's API that the runners share | done |
| `RateLimitProofs` | theorems about it | three theorems |
| `BoxCloud`, `MCBoxCloud` | one box in Vagrant Cloud, its uploader, the script that copies it | done |
| `AutomatedPR`, `MCAutomatedPR` | `open_close_pr` in one clone; extends `BoxCloud`, whose uploader is the template's job | done |
| `AutomatedPRProofs` | theorems about it and about `BoxCloud` | eleven theorems |

Composition: `TaskClaim` uses `CommitStatus`; `ClaimRefinement` extends it and
instantiates `TaskLedger` twice; `AutomatedPR` extends `BoxCloud` and conjoins its
actions with its own.  `PullRequestScan` and `RateLimit` are about what surrounds a
call of `TaskClaim`, and stand beside it: in one module with it they would multiply
its states and no property needs both.

### CommitStatus

`Status` reads all it knows out of a state and a description.  The module keeps
the *kind* the predicates of the class distinguish (`taken`, `locked`,
`unassigned`, `rerun_pending`, and the three results), the runner named in a
description, and its *age*, the time since the date in it.  Two descriptions are
equal when kind and runner are: dates are only compared by `lock` and `execute`
with the date the same runner has just written.  Descriptions are assumed not to
contain the words of another kind.  `Missing` stands for the absence of a
context, for which `poll_status` raises `EnvironmentError`.

### TaskClaim

The variables `head`, `status` and `label` are the pull request on GitHub.  A
runner has its program point `pc`, its snapshot `view`, the job `at` it is at,
the commit its job has `built`, and the rest of its `sleep`.  The rest is history, which
nothing of the runners depends on:

- `seen`: the kind of status that a runner's lock poll returned.  When a job is offered
  anew it becomes "none" for those that have claimed it before (`SeenBefore`);
- `lost`: the claims whose runner dropped them because of a fault;
- `disputed`: the jobs of the head that were put on offer although they were not free: by
  `set_rerun` while the claim is live (`Contested`, from the poll that does not refuse
  it), by `set_unassigned` after a poll that failed, by the operator over a live claim or a
  success.  A push empties it;
- `late`: the runners that execute a job beyond its timeout, up to their report.

| action | code |
|---|---|
| `Query`, `RemoveRerunLabel`, `EndScan` | `prci.main`'s loop and the head of `process_pull_request` |
| `CreateErrorStatus`, `StalledRaises`, `Skip` | jobs that are not attempted: malformed, fatal, skipped |
| `SetUnassigned`, `...Poll`, `...Write` | `Task.set_unassigned` |
| `SetRerun`, `...Poll`, `...Write` | `Task.set_rerun`, called for a failed job under the label and for a stale claim |
| `Lock`, `LockPoll`, `LockWrite`, `LockVerify`, `LockTake` | `Task.lock`: its two polls, its two writes, and the sleeps before each poll |
| `ExecuteCheckout`, `ExecuteFinish`, `ExecutePoll`, `ExecuteWrite` | `Task.execute`: the job fetches the head, ends, is verified, reports |
| `Crash`, `Restart`, `PollFails`, `JobRaises` | a runner that ends, systemd, `EnvironmentError` of a poll or of the job |
| `Push`, `AddRerunLabel`, `OperatorRerun`, `Tick` | the author, a maintainer, `prci_test_control rerun`, time |

Each action is one call to GitHub with the code up to the next one, so that
anything may come between two calls.  A crash covers every uncaught exception
as well, such as those of github3 and the `sys.exit(1)` after a failed query; the
process is always restarted (`Restart=on-failure`).

`Tick` lets every age and every sleep progress by one.  With `Prompt`, time
stands still while a runner has a call to make: calls take no time compared with
the sleeps.  Without it, a runner may take any time for any step, which includes
the waits for the rate limit.  With `Punctual`, an execution is over by the
job's timeout, which the code does not guarantee (see *JobRun*); `recovery`,
`tasks_file` and the two runs that end in a counterexample use it, the other runs and the
proofs do not.

Abstracted away: other pull requests, whose jobs only delay a runner; the texts
of descriptions and URLs; the resources, of which a constant set of jobs per
runner remains, since every job gives back what it has taken before the next is
looked at; force pushes back to an earlier commit; GitHub's limit of statuses per
commit.

### JobRun

The main thread (`main`, `cursor`) and the job's thread (`cmd`, `seq`,
`process`).  A job prepares its directory (`Prepare`), where a failure skips all up
to `_after`, and is then a sequence of commands: the box, `vagrant up` and
`provision` with their retries, the test or the build, `collect`, the cleanup,
`gzip`, `createrepo`, the upload and the root index; the job's class and its configuration
(`no_destroy`, `publish_artifacts`, the owner of the repository) say which of them it has.
Subtasks without a limit (`Unlimited`) and with one of their own (`Limited`) are
told from the commands that `subprocess.run` or `check_output` execute (`Plain`): the look
for room on the disk, and `systemctl stop prci`.  These have a limit, but the walk of
`terminate` does not see them, and what they raise is no `TaskException`, so that it ends
up in `JobDispatcher`'s caller and not in a verdict (`Raised`).  `process` follows `PopenTask.process`: none,
running, exited but not waited for, reaped but not yet set to None.  These are the
moments between which `_terminate` may look.

Nested tasks only wait for the task they start, and the subtasks that have ended
are passed over by `terminate`, so the tree of tasks is flattened to the sequence
of commands in the order of `execute_subtask`.  `cursor` is the walk of
`Task.terminate` over it, which visits subtasks appended while it goes on.  What
is left out: the same race of a kill within a command's own limit;
`VagrantReload` and the FIPS and xmlrpc commands; the sleeps between retries, in which
`process` is "none".  There is no clock: a limit may expire at any time, as
may the job's timeout, so that no property depends on how long things take.

How long a job may go on after its timeout is therefore not a property but a fact of the
code: `thread.join()` has no limit (`common.py:182`), a set-up that is killed is
started again without one, and the cleanup (120 s), the upload (300 s) and what follows
alone exceed the 240 s of STALE_TASK_EXTRA_TIME.  `TaskClaim` has such executions as those
of `late` runners.

### RunnerHost

| actions | code |
|---|---|
| `Claim`, `EndScan`, `Wake`, `Report` | the loop of `prci.main` and its finally clause |
| `Check`, `DeleteOldestBox`, `BoxAdd`, `Link` | `VagrantBoxDownload._run` and `VagrantBox` |
| `VagrantUp`, `Run`, `Destroy`, `Upload`, `UploadFails` | what the rest of a job does to the host; a failed upload stops the service |
| `StopTimesOut`, `Restart`; `Kill`, `Raise` | systemd; a process that is killed, and one with an uncaught exception |
| `Cron`, `CheckActive`, `StopPrci`, `Stopped`, `ClearJournal`, `Join`, `StartPrci` | `autocleaner.main` |
| `Sweep`, `SweepEnds` | `autocleaner.run` in its process |

`StopUnit` and `Ended` are what systemd does with a unit whose stop is requested,
and whose process ends: SIGTERM to every process of the unit, SIGKILL after a
time, a restart of what has failed unless it was being stopped.  SIGTERM calls
`ExitHandler.abort`, which only sets `done`; `main` looks at it between two
scans, so a `deactivating` runner may well `Claim` another job before systemd
kills it.  A command that is running may end by the SIGTERM, and then its job goes to
the cleanup.  An exception that leaves `main` while the thread of the job runs
(`leaving`) destroys the machines, but the process ends with that thread only.

`vagrant box list` prints boxes in an order the code does not determine, so the
first one is any installed box.  `installed_boxes` returns that box once per line;
`DeleteOldestBox` is what `delete_oldest_box` makes of it.  The statistics file is left out:
all copies of one box have one last use, so the order by it selects nothing.

The cleaning process may outlast the join of the autocleaner (`Join` does not wait for
`sweeping`), and `stop_prci` may time out (`Stopped`): the exception passes the finally
clause, which starts the unit again.  `overran` is history: the cleaning has outlasted
the join, and the job of `pc`, if there is one, has met it.

Abstracted away: SIGINT and further signals, which only a person sends, and with
them `aborted`; `register_task` and `unregister_task`, whose value nothing reads;
`chown` and `pool-refresh`, which are part of `Link`; `/etc/exports`, old job
directories, dangling images; commands of an operator.  A job whose thread is still
alive when `main` goes on is the business of `JobRun`.

### TaskLedger and ClaimRefinement

The ledger has for each job of the head where it stands, the runner its claim names
and the runners at work on it.  `Offer`, `Hold`, `Report`, `Reject`, `Leave` are what
the runners do together, `Fault`, `Renew` what happens to them.  With `Orderly` the guards say
that only the holder reports, that a result stays, that a job is held after those it
requires have passed, and offered again only when abandoned; without, only that a runner
does not walk away from a claim that stands.  `Dispute` and `Overrule` are what the code
does besides: it offers a job under its holder, and the operator may over a success.  From then
on the ledger promises no order of *that* job, and goes on promising it of all others.
`ClaimRefinement` maps `status` on the head, the program counters and `disputed` to it.

### PullRequestScan

| action | code |
|---|---|
| `Query`, `Foremost`, `First`, `EndPullRequest` | `prci.main`: the query, the order by `prioritized`, the loop |
| `ProcessPullRequest`, `LabelsAfter`, `AddLabelFails` | `process_pull_request` up to its loop: postponed, conflicting, unreadable ones are skipped, the labels set and removed |
| `SetUnassigned`, `SetRerun`, `Lock`, `SkipTask`, `TaskRaises` | its loop over the jobs, `process_status`, `process_task` |
| `Execute`, `Restart` | the execution in `main`, with the resources given back; systemd |
| `Relabel`, `Conflict` | people |

Everything a runner asks (`Viewed`, `ViewedStatus`, `Skipped`) it asks of the snapshot;
only the status operations look at GitHub.  The pull requests still to come are a set,
`todo`, of which the runner takes the first (`First`): the prioritized ones before the
others, by number within each.  A tasks file is good, `unreadable` (an error
that is caught, and the pull request skipped) or `incomplete`: a job without `requires`,
`args` or a class that exists raises a KeyError or AttributeError that nobody catches
(`entities.py:605`, `617`).  The calls of `Task.lock` are one action here, since
`TaskClaim` takes them apart; statuses do not go stale.  `AvailableResources` is its
memory.

### RateLimit

A runner is `free`, or in an operation (a query or poll, a status, a label): it checks a
quota (`GetRateLimit`, with its retries), waits (`Wait`, `Wake`), and makes its calls
(`Call`).  `answer` is what it was told, which the others make stale.  `Tick` is time and
the reset at GitHub.  The clocks of the runner and GitHub are assumed to agree, and
everything that uses the account is a runner.

### BoxCloud

| actions | code |
|---|---|
| `LookupBox`, `AddBox`, `GetNextVersion`, `LookupVersion`, `AddVersion`, `LookupProvider`, `AddProvider`, `Upload`, `Release` | the body of `box_uploader.py`, one action per call to Vagrant Cloud |
| `FetchMetadata`, `Curl`, `Move`, `EndMove` | `download_box` of `cache-vagrant-box.py` |
| `StartUpload`, `StartCopy`, `KillUpload`, `KillCopy` | the role `box/package`, an operator, and whatever kills them |

`Lookup` and `Create` are the classes of `atlas.py`: a lookup that fails for whatever
reason counts as "not there" (`atlas.py:105`, `120`), a creation is refused if the thing is
there.  `Unanswered` is a call that fails, after it has had its effect or before.
`clean` and `cclean` are history: nothing has failed in this run.  Versions are revisions
of 0.0: the role only uses `--bump-revision`.  Vagrant Cloud is modelled from its calls;
whether it lists versions that are not released is left open (`Listings`).

### AutomatedPR

`StartJob` is cron; then one action per command, in the order of `open_nightly_pr` and
`open_template_pr`.  A git tree is two files: the configuration, which a nightly run
replaces by a link to its own definitions, and the definitions, whose template version a
template run bumps.  `CanSwitch` and `Carried` are what git does with changes that are not
committed when it checks out or fast-forwards: it keeps them if the file does not differ,
refuses if it does.  `orderly` and `sound` are history: what the clone was like when the
run started, and that nothing has failed in it.  `Building` is `BoxCloud`'s uploader step
by step.

Abstracted away: the playbook before the upload (one step that may fail); the titles of
pull requests; the remote that is added; a kill *inside* a git command, which leaves
`index.lock` and makes every later run fail.  Cron starts one job after the other here,
and all on one base branch.

## 3. What is checked

Passing runs:

| run | instance | shows |
|---|---|---|
| `claims` | 2 runners, 1 job, any timing, 2 disruptions of any kind, 1 push; 3.2 M states | `TypeOK`; `ClaimHasOwner`: a claim on the head names a runner at work on it, or one a fault made drop it; `ReportMatchesBuild`: results stand on the commit that was built |
| `timing` | 2 prompt runners, 3 jobs, the last requires the first, executions of any length, 1 crash, claims that go stale; 2.3 M states | `SoleWinner`: of those that find the present offer of a job, at most one executes it; `DependenciesHold`: on the head, jobs execute after those they require; `StaleMeansLate`: a stale claim was lost by a fault, or its runner is beyond the job's timeout; `ResultIsFinal`: a success stays, a failure is only offered anew; `KeepsLedger`: the orderly ledger is implemented |
| `recovery` | 2 prompt runners, a build and a test, 2 crashes or failed polls, 1 push; 0.8 M states | `Completion`: all jobs of the head succeed in the end |
| `tasks_file` | 2 prompt runners, one malformed job, one without timeout, 2 polls of `set_unassigned` that fail, 1 push; 0.65 M states | `WellDefinedComplete`: the others are executed, and runners come back; `KeepsClaims`: the ledger is implemented, whose runners leave only claims that were replaced |
| `job` | 5 jobs: the three classes with the retries of the code, cleaning up and publishing or not; 2 hangs; 1.2 M states | `TypeOK`; `VerdictIsEarned`; `CleanupBeforeReturn`; `HangIsReported`: the timeout gets the runner out of a command that hangs |
| `host` | 3 boxes of jobs, one of them in use, and one of Windows, on a fresh runner; 0.57 M states | `TypeOK`; `CleaningAlone`: prci is down while boxes are deleted behind its back, unless the cleaning has outlasted the join; `ImageStays`: machines keep the image of their box, with the exception this makes; `RoomIsMadeWithCare`; `ServiceReturns`: after a crash and after the autocleaner |
| `rate_limit` | 2 runners, 9 calls per window, a reserve of 7, one label change per window, 2 errors; 0.4 M states | `TypeOK`; `NeverRefused`: whoever is to make a call finds one left; `SleepEndsWithWindow` |
| `scan` | 2 runners, 4 pull requests: unreadable, good, good and edited once, incomplete; 0.15 M states | `TypeOK`; `PriorityRespected`; `EveryJobComes`; `RebaseIsAskedFor` |
| `boxes` | 3 runs of the uploader, 2 of the script, 3 faults; 0.35 M states | `BoxTypeOK`; `ActiveStays`: a released box stays as it is; `CleanUploadPublishes` and `CleanCopyServes`: a run without failures repairs what others have left; `ServedIsReleased` |
| `pull_requests` | 2 nightly jobs and the template's, 2 builds, 2 faults; 0.9 M states | `TypeOK`; `OwnChange`: a pull request carries the change of its own job only; `SoundRunOpens`: a run without failures is not held up by earlier ones; `BumpOutlivesFailedBuilds` |

Two runs end in a counterexample, and `findings` quotes what the code or its documentation
says to the contrary:

- `one_executor`, for `OneExecutor`.  `lock` refuses Taken, not Locked (`entities.py:668`): a
  second runner locks between the winner's lock and its Taken, and both execute; the report
  of the first is then refused.
- `live_rerun`, for `RerunSparesTaken`: two prompt runners, two jobs, executions that end by
  the timeout, and no fault at all.  The second job is locked by one runner when the other
  takes its snapshot and goes on to execute the first job.  When that is done, the lock in the
  snapshot is old, as `Status.stalled` compares it with the time of now
  (`entities.py:393`), and `set_rerun` posts "rerun" over the Taken of the runner that is
  executing the job: its guard names the method `stalled` and does not call it, so that it
  is never true (`entities.py:728`).  The same happens to a job that has failed since.

What this leaves of the promises about results is said by `disputed`.  `set_rerun` is the
one way in which runners without a fault put a job on offer that is not free, and from then
on two of them may report on it in any order: `ResultIsFinal`, `DependenciesHold` and
`KeepsLedger` say nothing of such a job, all of every other one, and that a success is not among
those that are put on offer in this way.  `timing` has what it takes for that to happen: jobs
longer than the deadline of a claim in the snapshot, and a job before it to be executed.

`SoleWinner` and `OneExecutor` belong together.  The first is what RACE_TIMEOUT
achieves, the second what the documentation promises; between them lie the
runner that found the job *Locked*, and the one that has it from before it was offered
again.  `DependenciesHold` likewise needs prompt runners: with slow ones, a job starts from
an old snapshot (`prci.py:211`) after the job it requires has been set for a rerun.
`StaleMeansLate` is about executions of any length.  Its exemption is what the code does not
prevent: a runner that is still cleaning up or uploading four minutes after the job's
timeout loses the claim to another one, which starts the job a second time; the first one's
report is then refused.

More disagreements are in the modules, as what the code does, and have no run of
their own.  Of the claim protocol:

- `Status.stalled` computes `timedelta(seconds=None)` for a job without a timeout
  (`entities.py:378`) and ends the runner, before the test that takes such a job
  for a legal one (379-380); `tasks_file` shows that the runners come back and
  execute the others;
- the re-run label is removed because no job of the *snapshot* has failed
  (`prci.py:112`); one that has failed since is not run again, against
  doc/README.md:125-129;
- a poll that fails for any reason lets `set_unassigned` overwrite whatever is
  there (`entities.py:711`, against the check in 715-720), a claim or a result: with
  `unassign_error` among the faults the job is disputed.  `tasks_file` and `claims` have that
  fault, as do the proofs;
- a runner that is slow between a poll and the write after it, as it is while it waits for the
  rate limit (`entities.py:204`), overwrites what others have posted meanwhile, a result
  included.  `SoleWinner`, `DependenciesHold`, `ResultIsFinal` and `KeepsLedger` are therefore
  about prompt runners; `claims` has the slow ones, and what it checks holds of them.

Of the scan:

- one `incomplete` tasks file ends every runner at every scan, and the pull requests sorted
  behind it are never looked at; the instance of `scan` has it last, so that
  `EveryJobComes` says that those before it get their turn;
- the label `blacklisted` and the `priority` of a job, which doc/README.md:229-231 and
  73-78 describe, are read by nothing; the query takes the last 50 pull requests and the
  last 5 labels of each.

Of the rate limit:

- the label operations check the graphql quota and use the core quota (`entities.py:531`,
  `539`), and nobody looks again after a sleep: `NeverRefused` needs the reserve of 60 to
  cover two calls of every runner and three of every label change of a window (`Reserve`);
- "it will sleep until the reset time will come" (`entities.py:38-39`): when the reset is
  past by the time the runner computes the difference, `sleep` raises a ValueError, which
  ends the runner (`WaitRaises`).

Of the host and its jobs:

- `terminate` kills the processes it finds once and joins the job without a limit
  (`common.py:182`): a timeout that expires between two commands, or during a set-up, which
  is started again since the code looks for -15 and gets -9 (`vagrant.py:68, 87`), misses
  the next one; if that hangs, the runner does, against doc/README.md:272-274.
  `HangIsReported` is about the hangs that are ended;
- `killpg` of a process that has just ended raises before the join (`common.py:186`): the
  runner goes on while the thread of its job starts machines;
- a timeout that expires during the cleanup or the upload kills them
  (`tasks.py:166`), and a killed upload stops the service (`tasks.py:130`);
  `CleanupBeforeReturn` says that both were tried, not that they succeeded;
- `installed_boxes` matches the whole listing for each line (`vagrant.py:251`): the first box
  goes, however recently it was used, and none while a Windows box comes first.
  `RoomIsMadeWithCare` says what remains true, which is not that the right box goes;
- "cleaning_process.join(timeout=TIMEOUT)" (`autocleaner.py:422`) does not end the process:
  it goes on when the service is up again, and every command of it may take 120 seconds
  itself.  A job that meets it loses its image, if the box is one the autocleaner lists and
  no definition uses it: `ImageStays` says that no other job does;
- "any qemu process running ... indicates PRCI is active" (`autocleaner.py:49`): a
  job that downloads its box, or publishes its logs, has none, and the autocleaner
  stops prci underneath it (`StopPrci` at any `pc`);
- a runner that stops itself, its logs not published (`tasks.py:130`), comes back
  with the next autocleaner, or never, if machines were left: the autocleaner waits
  for those to end, and only a job of prci would destroy them.  This is why `host`
  does not check for deadlock, and `ServiceReturns` speaks of other stops;
- an image may be linked and neither `chown` nor `pool-refresh` done, if the job is
  stopped in between (`vagrant.py:165`): the next job finds the image and skips
  them.

Of boxes and pull requests:

- `box_uploader` ignores whatever the upload raises (`box_uploader.py:164`) and releases the
  version, with a part of the box or none.  `CleanUploadPublishes` is about runs in which
  nothing fails, after any that did;
- two uploaders of one box at the same time find the same number and write into one
  version: `boxes` has one;
- `cache-vagrant-box` looks neither at the status of curl (`cache-vagrant-box.py:89`) nor, for
  boxes of the uploader, at a checksum: it moves a part of a box into the catalog and exits
  with 0, as it does for a version that is not active (56);
- a file of definitions without a template ends a template run with a TypeError, half-way
  through the files (`open_close_pr.py:210`: `get_templ_list` has returned None): the model has
  it as a failure (`BumpPrciVersion`);
- a template run ends with an AttributeError after all it had to do, as its parser knows no
  `--reviewer` (`open_close_pr.py:313`); in the model it has "succeeded";
- the handlers of `open_close_pr.py:140` and `309` use a variable that was never bound.
  The first keeps a run whose build failed from closing the pull request
  (`BumpOutlivesFailedBuilds`), by accident;
- a run that ends between unlink and symlink (`open_close_pr.py:158`) leaves a clone without
  the configuration: every later nightly run ends with FileNotFoundError.  A bump
  that was not committed blocks later checkouts and pulls, and what was staged goes into the
  commit of the next run.  `OwnChange` and `SoundRunOpens` therefore speak of runs that
  find the clone `Orderly`; that includes the branch, the link and the fork's branch of a
  failed run.

`CleaningAlone` and `ImageStays` take one autocleaner at a time for granted; cron starts one
every day, and one that waits for machines for a whole day meets the next.

### Bounds, and why they suffice

- Two runners for the interleavings: each property relates a runner to a status
  that another party has changed, and the other party may be the second runner,
  the operator or the author.  Two for the timers as well, with three jobs: one to be executed
  while another one, of the snapshot, grows stale, and one that requires the first.
  The proofs have any number of both.
- One push: a snapshot of the commit before the head is all a runner can
  confuse with the head.  Two disruptions: a fault and one during its repair.
- The sleeps are scaled down with their order kept: a poll's sleep (8 to 13 s)
  is 1, the race timeout (17 s) is 2, the sleep after an error (600 s) is 2, the
  extra time of a claim (240 s) is 2, above a poll's sleep as in the code, and the
  timeouts of jobs are 1 and 2.  Ages are capped at the largest deadline, above which
  `Stalled` makes no difference.
- `timing` has one crash, and no push: a claim that is abandoned and one that is live may
  both go stale.  The proofs of what it checks have all faults and any number of pushes.
- Runners are interchangeable in the safety runs, which use symmetry; the
  liveness runs do not.
- `job`: five configurations, in which every guard on them is met both ways; two hangs, one
  that the timeout ends and one after it.  The retries are those of the code.
- `rate_limit`: a quota that two runners use up within a window of two ticks, so that
  resets meet sleeps and calls; the smallest reserve of `Reserve`, with which one label
  change more would break it.  The proofs have any.
- `scan` has one job per pull request: the pull requests are what interferes, and the
  requirements among jobs are in `timing`.  One edit and one failed call.
- `boxes`: a version that an earlier run has released, one that it has left half-way, and one
  that the last run makes; two copies, the second of what the first has left.
- `pull_requests`: two nightly jobs so that one finds the remains of the other; two builds
  so that a bump is followed by one.  Copies of boxes are in `boxes`.  Both have no bound
  on the number of nightly runs.
- `host` has no bound on time or on the number of jobs.  Four boxes: three to be
  listed, so that something is deleted, and one that is downloaded.

### Fairness

`TaskClaim` assumes that each runner takes its next step (the process is
scheduled, GitHub answers in the end, systemd restarts it) and that time passes.
Weak fairness is enough: a step that a runner can take stays possible until it
takes it, as only the runner changes its `pc` and sleeps only shrink.  Faults,
pushes and people are not fair.  `JobRun` assumes that both threads run, that
time passes, and that the job's timeout expires if the job lasts.  A hung
command has no step of its own: only a kill ends it.  For a job with a hung
command that nobody kills the system does stop, so `job` does not check for
deadlock.  `RunnerHost` assumes that systemd's timers expire and that the
two processes of the autocleaner run.  `PullRequestScan` assumes that each runner goes on:
its calls are answered, its jobs end (`JobRun`), systemd restarts it; weak fairness, as
nobody else disables its next step.  People and failures are not fair.  In
`RunnerHost` nothing is assumed of the job: a stop ends it in any case.  `RateLimit`,
`BoxCloud` and `AutomatedPR` have safety properties only, and assume nothing.

## 4. What is proved

`TaskClaimProofs` proves, for any number of runners, jobs and commits, any
delays, any dependencies, and with every disruption, from the named assumptions
on the constants alone:

- `TypeCorrect`: `Spec => []TypeOK`
- `InductiveInvariant`: `Spec => []IInv`
- `ClaimsOwned`: `Spec => []ClaimHasOwner`
- `ReportsMatchBuilds`: `Spec => []ReportMatchesBuild`

The argument.  `ClaimHasOwner` speaks of the head, while runners write to the
commits of their snapshots, and it is not inductive: after a push nothing would
rule out claims on the new head.  `IInv` adds

- `NoFutureStatus`: commits that were not pushed yet have no status;
- `Ordered`: no snapshot and no checkout is of a later commit than the head,
  and what a job has built is not older than its snapshot;
- `LostBehind`: the same for the claims in `lost`.

A new head thus has no claims.  A claim that stands was written by `LockWrite` or
`LockTake` of the runner it names; every other step of that runner that leaves
the job either goes through a poll that no longer found its own claim, or adds
to `lost` (`StepClaims`).  For `ReportMatchesBuild`: a runner reaches
`report_write` only if its own Taken stands on the *head*; by `ClaimHasOwner` and
`NoFutureStatus` together with `Ordered`, the snapshot's commit is then still
the head, and as the checkout lies between the two, it is what was built
(`StepReports`).  Pushes are of new commits here; a force push back to an earlier
commit in the meantime would escape this argument.

The proof has one step per action of `Next` for each part of `IInv`.  Lemmas about
statuses and about posting one (`PostedStatuses`, `OlderStatus`, `PostedTable`)
carry the record reasoning.

`ClaimRefinementProofs` proves `ClaimsKept`: `Spec => KeepsClaims`, under the same
assumptions.  It sorts the steps of a runner into kinds, by what they do to statuses and
claims (`StepKinds`), and shows for each kind the step of the ledger it is, or that
the ledger does not change because the runner's commit is behind the head (`RunnerMaps`).
The case that matters is a runner that leaves (`LeavesReplaced`): if the status on the
head still named it, the status would be a claim (`Signed`: nothing else names a runner),
`ClaimHasOwner` would have the runner at the claim's stage, since its work is not in
`lost` (`Kept`), and its poll would have found the claim.  `Signed` and `Kept` are
preserved next to `IInv`.

`TaskClaimTimingProofs` proves, for any number of runners, jobs and commits, with every
disruption, and with claims that go stale in snapshots and under their runners, what the timers
achieve: `OneRunnerWins` (`SoleWinner`), `DependenciesStay` (`DependenciesHold`),
`ResultsStay` (`ResultIsFinal`) and `LedgerKept` (`KeepsLedger`), all from
`TimedInvariant`.  They assume only `Timely`: runners are prompt, and the sleeps of
`Task.lock` take some time.  That is a real restriction: calls that take long compared with
RACE_TIMEOUT, and the waits for the rate limit, are left out, and with them the properties do
not hold.  Jobs may last any time.  What the theorems exempt is in the properties
themselves: runners that found the job locked or have it from an earlier offer
(`SoleWinner`), and jobs that are `disputed`.

The argument.  With prompt runners a poll and the post after it are at the same instant
(`Immediate`), but the steps of others at that instant come between them.  `Found` says what a
runner that is about to post still finds on the head, unless the job is disputed; `Apart` how
far the other runners at the job can be: while one that has polled the offer is about to lock,
the others that did so are still in their RACE_TIMEOUT, as it ends later than the instant at
which all of them saw the job free; while one is about to replace a claim, nobody is about to
report.  `Unseen` says that while the first status of a job is about to be posted no
snapshot has a later one.  `OneWins` follows for runners that found the present offer; a new offer
takes the runners before it out of `Invited`.  `Known` bounds how wrong a snapshot of the head
can be: a success in it is a success, or the job is disputed; it gives `DependenciesHold`.
`KeptThroughout` and `OperatorEnters`, of `ClaimRefinementProofs`, say which claims are in
`lost` and what the operator does to the ledger.

`StaleClaimsLate` (`StaleMeansLate`) is about the deadlines: from `WaitsFit` (prompt
runners, and waits before a poll that fit into LOCK_TIMEOUT and STALE_TASK_EXTRA_TIME), with any
disruption and executions of any length, a claim on the head that is stale was left by a fault
or is that of a runner in `late`.  `AllFresh` adds up age and remaining sleep along the program
points, for the runners that are not late (`ClaimsFresh`).

`JobRunProofs` proves, for any jobs, any number of retries and any number of hangs,
`TypeCorrect`, `CleansUp` (`CleanupBeforeReturn`) and `VerdictsEarned` (`VerdictIsEarned`).
The two properties speak of the end of a job; the invariant says at every command what they
say there: `CleanedUp`, that a job past its cleanup has tried it, `Succeeded`, that without an
exception the commands it is past have succeeded.  `Threads` ties the main thread to the end of
the job's thread, and `Founded` keeps what a verdict rests on.

`RunnerHostProofs` proves, for any set of boxes, `TypeCorrect`, `CleaningDisturbsNone`
(`CleaningAlone`), `ImagesStay` (`ImageStays`) and the action property `RoomMadeWithCare`
(`RoomIsMadeWithCare`).  Nothing is assumed of how long the cleaning takes.  `ServiceIsDown`
is the strengthening: between the stop and the start of the autocleaner the unit is
inactive, as systemd restarts no unit that was being stopped; and the boxes yet to be checked
are among those that are listed.  `BoxIsReady` follows the job through the download; only the
job itself and the cleaning delete, the first before it adds its box, the second while prci is
down, or after the join a box that is listed and not used.

`RateLimitProofs` proves, for any number of runners, quota, window, tries and errors,
`TypeCorrect`, `SleepsEnd` (`SleepEndsWithWindow`) and, under `Reserve`, `ReserveSuffices`
(`NeverRefused`).  `NeverRefused` is not inductive, since between a look at the quota and the
calls others act on looks of their own.  `Budget` counts the calls that may come without
another look, as tokens, pairs of a runner and a number: those of runners that have looked
for the last time (`Looked`), and those of label changes, which never look at core.  They fit
into what remains, but for the part of the reserve that new looks may claim.  A look that
finds the reserve adds at most its own calls (`Available`); a reset makes room for all
sleepers at once, as `InStep` says that whoever sleeps wakes with it.

`PullRequestScanProofs` proves, for any number of runners, pull requests and jobs, any
resources and any edits, `TypeCorrect` and the action property `PriorityKept`
(`PriorityRespected`): a runner locks a job only if it left none of a prioritized pull request
that it would have taken.  `LeftNone` is the invariant: a job the runner is `Past`, and would
have started by what its snapshot says (`Wanted`), is not unassigned any more.  It
rests on resources being whole between jobs (`Taken`), and on the snapshot being right about
what has a status at all (`Known`).  The set `todo` has a first element by the
order of `sorted` (`OneFirst`); a sequence made with `SelectSeq`, which takes an operator,
could not be reasoned about.

`AutomatedPRProofs` proves of the box, for any number of runs, copies and faults,

- `ReleasedServed` (`ServedIsReleased`), for any number of uploaders at once;
- under `OneUploader`, `BoxInvariant`, `BoxTyped` (`BoxTypeOK`), `ReleasedStays`
  (`ActiveStays`), `CleanRunPublishes` (`CleanUploadPublishes`), `CleanRunServes`
  (`CleanCopyServes`).

`OneUploader` says that one uploading process runs at a time, as the one job that has the
role does.  Two are not safe: each asks for the newest version, and the second would
upload over what the first has released under the same number.  `Newer` says that the number
of a run is greater than everything released, `Made` that the things a run is past exist,
`Counted` that the numbers do not run out; the step that needs care is the number itself
(`NumberIsNew`), the maximum of a set, whose existence (`GreatestVersions`) is
an induction done by minimal counterexample, with the well-founded order of the library.

Of the pull requests, for any set of nightly jobs and any faults, from `JobAssumption` alone
(among others: no nightly configuration is the gating one): `TypeCorrect`,
`OwnChangeOnly` (`OwnChange`), `BumpOutlives` (`BumpOutlivesFailedBuilds`) and
`SoundRunsOpen` (`SoundRunOpens`), all from `PRInvariant`.  `InOrder` follows an orderly clone
command by command: what is in the tree, the index and the branch when the next git command
comes; so that in a sound run none of them refuses.  `Bumped` ties the branch of the template
to a released version, through the box's own invariant, which is part of `PRInv`: the
run deletes the branch only after a build that has released a newer one.

Only model-checked: the liveness properties (`Completion`, `WellDefinedComplete`,
`HangIsReported`, `ServiceReturns`, `EveryJobComes`, `RebaseIsAskedFor`), which are outside
what the prover supports (fairness, ENABLED).  `OneExecutor` and `RerunSparesTaken` do not hold.

Possible next: that a box's uploader implements an abstract catalogue of released versions; the
timing theorems with a bound on how long a call takes in place of `Prompt`; a second
autocleaner that overlaps the first.

## 5. Not modelled

- Box hosting (`app.py`): a request handler that saves what Vagrant Cloud says of a box and
  answers with it.  nginx serves the saved file from then on, so that versions
  released later never appear, and it is truncated before it is written
  (`app.py:38-39`).  One writer, no protocol: nothing for a model to find.
- Results in the cloud (`remote_storage.py`): index pages and metadata, formatting.
- `JobRun` and `RunnerHost` share the steps of a job; that the one implements the job of the
  other is not shown, as the host's job is one box and one set of machines, and has no clock.
- Parsing of the configuration, logging and Sentry; the Ansible roles.

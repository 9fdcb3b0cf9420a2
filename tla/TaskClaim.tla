----------------------------- MODULE TaskClaim -----------------------------
(***************************************************************************)
(* The runners of freeipa-pr-ci share out the jobs of one pull request.    *)
(*                                                                         *)
(* Runners do not know each other.  Each one loops over prci.main: it      *)
(* takes a snapshot of the pull request, goes through the jobs of the      *)
(* tasks file in order and, for each, either posts a status or tries to    *)
(* claim the job, execute it and report.  Every read and every write of a  *)
(* status is one call to GitHub, hence one action: whatever the other      *)
(* runners, the author (who pushes), the operators and the clock do may    *)
(* fall between any two of them.                                           *)
(*                                                                         *)
(* Reads poll the head of the pull request (World.poll_status); writes go  *)
(* to the commit of the snapshot (World.create_status).                    *)
(***************************************************************************)
EXTENDS CommitStatus, FiniteSets

CONSTANTS
    N,              \* the number of jobs in the tasks file
    Requires,       \* job -> the jobs it requires
    Timeout,        \* job -> its timeout argument, 0 if it is 0 or not given
    Untimed,        \* the jobs that give no timeout argument
    Malformed,      \* the jobs whose definition raises JobYAMLError
    Fits,           \* runner -> the jobs it has the memory and the cpus for
    Whitelisted,    \* whether the author is in the whitelist
    Outcomes,       \* the results an execution may have
    PollSleep,      \* the sleep before a poll: 8 to 13 s
    RaceTimeout,    \* the sleep between lock and verification: 17 s
    Backoff,        \* no_task_backoff_time, the sleep between two scans
    ErrorBackoff,   \* ERROR_BACKOFF_TIME: 600 s
    RestartSec,     \* prci.service: 3 min from the end of prci to its restart
    Prompt,         \* whether time stands still while a runner has work to do
    Punctual,       \* whether an execution ends by the job's timeout
    Faults,         \* the kinds of disruption that may happen
    MaxHead,        \* bound: pushes to the pull request
    MaxDisruptions  \* bound: disruptions in a behaviour

Task == 1 .. N
Commit == 0 .. MaxHead

ASSUME TaskAssumption ==
    /\ N \in Nat
    /\ Requires \in [Task -> SUBSET Task]
    /\ Timeout \in [Task -> Nat]
    /\ Untimed \subseteq Task
    /\ \A t \in Untimed : Timeout[t] = 0
    /\ Malformed \subseteq Task
    /\ Fits \in [Runner -> SUBSET Task]
    /\ Whitelisted \in BOOLEAN
    /\ Outcomes \subseteq {"success", "failure", "error"}
    /\ PollSleep \in Nat
    /\ RaceTimeout \in Nat
    /\ Backoff \in Nat
    /\ ErrorBackoff \in Nat
    /\ RestartSec \in Nat
    /\ Prompt \in BOOLEAN
    /\ Punctual \in BOOLEAN
    /\ Faults \subseteq {"crash", "poll_error", "unassign_error", "job_error",
                       "operator", "label"}
    /\ MaxHead \in Nat
    /\ MaxDisruptions \in Nat

VARIABLES
    head,        \* the last commit of the pull request
    status,      \* commit -> job -> its status on GitHub
    label,       \* whether the re-run label is set
    pc,          \* runner -> what it does next
    view,        \* runner -> its snapshot of the pull request
    at,          \* runner -> the job it is at
    seen,        \* history: runner -> the kind of status its lock poll returned
    built,       \* runner -> the commit its job fetched
    sleep,       \* runner -> the rest of its sleep
    lost,        \* history: the claims left without a runner by a fault
    disputed,    \* history: the jobs put back on offer, on the head, although not free
    late,        \* history: the runners that execute beyond the job's timeout
    disruptions  \* the number of disruptions so far

github == <<head, status, label>>
runners == <<pc, view, at, seen, built, sleep>>
past == <<lost, disputed, late>>
history == <<past, disruptions>>
vars == <<github, runners, history>>

PC == {"idle", "unlabel", "scan", "unassign_poll", "unassign_write",
       "rerun_poll", "rerun_write", "lock_poll", "lock_write", "lock_verify",
       "lock_take", "checkout", "run", "report_poll", "report_write", "down"}

\* At these a runner has posted a claim on the job it is at.
Claiming == {"lock_verify", "lock_take", "checkout", "run", "report_poll", "report_write"}
Executing == {"checkout", "run", "report_poll", "report_write"}

View == [commit : Commit, rerun : BOOLEAN, st : [Task -> Status]]
NoView == [commit |-> 0, rerun |-> FALSE, st |-> [t \in Task |-> NoStatus]]

TypeOK ==
    /\ head \in Commit
    /\ status \in [Commit -> [Task -> Status]]
    /\ label \in BOOLEAN
    /\ pc \in [Runner -> PC]
    /\ view \in [Runner -> View]
    /\ at \in [Runner -> Nat]
    /\ \A r \in Runner : pc[r] \notin {"idle", "unlabel", "scan", "down"} => at[r] \in Task
    /\ seen \in [Runner -> Kind]
    /\ built \in [Runner -> Commit]
    /\ sleep \in [Runner -> Nat]
    /\ lost \subseteq Runner \X Commit \X Task
    /\ disputed \subseteq Task
    /\ late \subseteq Runner
    /\ disruptions \in Nat

Init ==
    /\ head = 0
    /\ status = [c \in Commit |-> [t \in Task |-> NoStatus]]
    /\ label = FALSE
    /\ pc = [r \in Runner |-> "idle"]
    /\ view = [r \in Runner |-> NoView]
    /\ at = [r \in Runner |-> 1]
    /\ seen = [r \in Runner |-> "none"]
    /\ built = [r \in Runner |-> 0]
    /\ sleep = [r \in Runner |-> 0]
    /\ lost = {} /\ disputed = {} /\ late = {}
    /\ disruptions = 0

-----------------------------------------------------------------------------
(* What a runner does at a call.                                           *)

Goto(r, p) == pc' = [pc EXCEPT ![r] = p]

\* Go to p and sleep first.
SleepThen(r, p, time) ==
    /\ Goto(r, p)
    /\ sleep' = [sleep EXCEPT ![r] = time]

\* Runner r acts, awake, at p.
Awake(r, p) == pc[r] = p /\ sleep[r] = 0

\* Mutant: the poll reads the commit of the snapshot.
PolledOnSnapshot(r) == status[view[r].commit][at[r]]

\* The status of the runner's job on the head, which poll_status returns.
Polled(r) == status[head][at[r]]

\* The status of the runner's job in its snapshot.
Viewed(r) == view[r].st[at[r]]

\* create_status: post s on the snapshot's commit.
Post(r, s) == status' = [status EXCEPT ![view[r].commit][at[r]] = s]

\* Mutant: the caller is not told that the job was given up.
NextTaskFallsThrough(r) ==
    /\ UNCHANGED pc
    /\ at' = [at EXCEPT ![r] = @ + 1]
    /\ seen' = [seen EXCEPT ![r] = "none"]
    /\ built' = [built EXCEPT ![r] = 0]

\* The loops' next iteration.
NextTask(r) ==
    /\ Goto(r, "scan")
    /\ at' = [at EXCEPT ![r] = @ + 1]
    /\ seen' = [seen EXCEPT ![r] = "none"]
    /\ built' = [built EXCEPT ![r] = 0]

\* Whoever has claimed job t of commit c has not polled the offer that is posted now.
SeenBefore(c, t) ==
    seen' = [q \in Runner |-> IF pc[q] \in Claiming /\ view[q].commit = c /\ at[q] = t
                                 THEN "none" ELSE seen[q]]

\* Runner r has offered its job, again or for the first time, and goes on.
NextTaskAfterOffer(r) ==
    /\ Goto(r, "scan")
    /\ at' = [at EXCEPT ![r] = @ + 1]
    /\ SeenBefore(view[r].commit, at[r])
    /\ built' = [built EXCEPT ![r] = 0]

\* The process ends: what it knew is gone.
Die(r) ==
    /\ SleepThen(r, "down", RestartSec)
    /\ view' = [view EXCEPT ![r] = NoView]
    /\ at' = [at EXCEPT ![r] = 1]
    /\ seen' = [seen EXCEPT ![r] = "none"]
    /\ built' = [built EXCEPT ![r] = 0]

\* The runner will not come back to the claim it posted, if any.
Orphan(r) ==
    lost' = IF pc[r] \in Claiming
              THEN lost \cup {<<r, view[r].commit, at[r]>>}
              ELSE lost

\* The claim on job t of the head is live: its runner has not been taken away.
Live(t) == Claimed(status[head][t]) /\ <<status[head][t].by, head, t>> \notin lost

\* The job that runner r is about to offer anew is disputed if its claim is live.
Contested(r) ==
    IF view[r].commit = head /\ Live(at[r]) THEN disputed \cup {at[r]} ELSE disputed

Disrupt(kind) ==
    /\ kind \in Faults
    /\ disruptions < MaxDisruptions
    /\ disruptions' = disruptions + 1

-----------------------------------------------------------------------------
(* prci.main and prci.process_pull_request: the scan.                      *)

\* No job of the snapshot is missing or failed: the re-run label can go.
AllSettled(st) == \A t \in Task : ~Missing(st[t]) /\ ~Failed(st[t])

Query(r) ==
    /\ Awake(r, "idle")
    /\ view' = [view EXCEPT ![r] = [commit |-> head, rerun |-> label, st |-> status[head]]]
    /\ Goto(r, IF label /\ AllSettled(status[head]) THEN "unlabel" ELSE "scan")
    /\ at' = [at EXCEPT ![r] = 1]
    /\ UNCHANGED <<github, seen, built, sleep, history>>

RemoveRerunLabel(r) ==
    /\ Awake(r, "unlabel")
    /\ label' = FALSE
    /\ Goto(r, "scan")
    /\ UNCHANGED <<head, status, view, at, seen, built, sleep, history>>

EndScan(r) ==
    /\ Awake(r, "scan")
    /\ at[r] \notin Task
    /\ SleepThen(r, "idle", Backoff)
    /\ view' = [view EXCEPT ![r] = NoView]
    /\ at' = [at EXCEPT ![r] = 1]
    /\ UNCHANGED <<github, seen, built, history>>

\* Mutant: JobYAMLError ends the runner, the status is posted.
CreateErrorStatusRaises(r) ==
    /\ Awake(r, "scan")
    /\ at[r] \in Malformed
    /\ Post(r, Anonymous("error"))
    /\ Die(r)
    /\ UNCHANGED <<head, label, history>>

\* World.create_error_status: posted again by every scan.
CreateErrorStatus(r) ==
    /\ Awake(r, "scan")
    /\ at[r] \in Malformed
    /\ Post(r, Anonymous("error"))
    /\ NextTask(r)
    /\ UNCHANGED <<head, label, view, sleep, history>>

\* Runner r looks at the status, in its snapshot, of a well-defined job.
Considers(r) == Awake(r, "scan") /\ at[r] \in Task \ Malformed

MayCreate(r) == Whitelisted \/ view[r].rerun

\* Status.stalled computes timedelta(seconds=None): a TypeError ends prci.
StalledRaises(r) ==
    /\ Considers(r)
    /\ Taken(Viewed(r))
    /\ at[r] \in Untimed
    /\ Die(r)
    /\ UNCHANGED <<github, history>>

WantsRerun(r) ==
    \/ view[r].rerun /\ Failed(Viewed(r))
    \/ Stalled(Viewed(r), Timeout[at[r]])

\* Mutant: the dependencies are not consulted.
CheckDependenciesSkipped(r) == TRUE

CheckDependencies(r) == \A d \in Requires[at[r]] : Succeeded(view[r].st[d])

MayLock(r) == at[r] \in Fits[r] /\ CheckDependencies(r)

\* process_status or process_task sends the runner to the next job.
Skip(r) ==
    /\ Considers(r)
    /\ \/ Missing(Viewed(r)) /\ ~MayCreate(r)
       \/ Available(Viewed(r)) /\ ~MayLock(r)
       \/ /\ ~Missing(Viewed(r)) /\ ~Available(Viewed(r))
          /\ ~WantsRerun(r)
          /\ ~(Taken(Viewed(r)) /\ at[r] \in Untimed)
    /\ NextTask(r)
    /\ UNCHANGED <<github, view, sleep, history>>

-----------------------------------------------------------------------------
(* Task.set_unassigned.                                                    *)

SetUnassigned(r) ==
    /\ Considers(r)
    /\ Missing(Viewed(r)) /\ MayCreate(r)
    /\ SleepThen(r, "unassign_poll", PollSleep)
    /\ UNCHANGED <<github, view, at, seen, built, history>>

\* Any EnvironmentError of the poll is taken to say that there is no status.
SetUnassignedPoll(r) ==
    /\ Awake(r, "unassign_poll")
    /\ \/ /\ Missing(Polled(r))
          /\ Goto(r, "unassign_write")
          /\ UNCHANGED <<at, seen, built, history>>
       \/ /\ ~Missing(Polled(r))
          /\ NextTask(r)
          /\ UNCHANGED history
       \/ /\ Disrupt("unassign_error")
          /\ Goto(r, "unassign_write")
          /\ disputed' = IF view[r].commit = head /\ ~Missing(Polled(r))
                            THEN disputed \cup {at[r]} ELSE disputed
          /\ UNCHANGED <<at, seen, built, lost, late>>
    /\ UNCHANGED <<github, view, sleep>>

SetUnassignedWrite(r) ==
    /\ Awake(r, "unassign_write")
    /\ Post(r, Anonymous("unassigned"))
    /\ NextTaskAfterOffer(r)
    /\ UNCHANGED <<head, label, view, sleep, history>>

-----------------------------------------------------------------------------
(* Task.set_rerun.                                                         *)

SetRerun(r) ==
    /\ Considers(r)
    /\ WantsRerun(r)
    /\ Goto(r, "rerun_poll")
    /\ UNCHANGED <<github, view, at, seen, built, sleep, history>>

\* Mutant: the check for a job that has succeeded is gone.
RerunnableIfThere(s) == ~Missing(s) /\ s.kind # "rerun"

\* The guard reads "status.taken and not status.stalled", the method and not
\* its result: it is never true, and a taken job is set for a rerun.
Rerunnable(s) == ~Missing(s) /\ ~Succeeded(s) /\ s.kind # "rerun"

SetRerunPoll(r) ==
    /\ Awake(r, "rerun_poll")
    /\ \/ /\ Rerunnable(Polled(r))
          /\ Goto(r, "rerun_write")
          /\ disputed' = Contested(r)
          /\ UNCHANGED <<at, seen, built>>
       \/ /\ ~Rerunnable(Polled(r))
          /\ NextTask(r)
          /\ UNCHANGED disputed
    /\ UNCHANGED <<github, view, sleep, lost, late, disruptions>>

SetRerunWrite(r) ==
    /\ Awake(r, "rerun_write")
    /\ Post(r, Anonymous("rerun"))
    /\ NextTaskAfterOffer(r)
    /\ disputed' = Contested(r)
    /\ UNCHANGED <<head, label, view, sleep, lost, late, disruptions>>

-----------------------------------------------------------------------------
(* Task.lock.                                                              *)

Lock(r) ==
    /\ Considers(r)
    /\ Available(Viewed(r)) /\ MayLock(r)
    /\ SleepThen(r, "lock_poll", PollSleep)
    /\ UNCHANGED <<github, view, at, seen, built, history>>

\* Mutant: the check for a job that was already processed is gone.
LockableIfNotTaken(s) == ~Missing(s) /\ ~Taken(s)

\* A job that another runner has locked, but not taken, may be locked over.
Lockable(s) == Available(s) \/ Locked(s)

LockPoll(r) ==
    /\ Awake(r, "lock_poll")
    /\ \/ /\ Lockable(Polled(r))
          /\ Goto(r, "lock_write")
          /\ seen' = [seen EXCEPT ![r] = Polled(r).kind]
          /\ UNCHANGED <<at, built>>
       \/ /\ ~Lockable(Polled(r))
          /\ NextTask(r)
    /\ UNCHANGED <<github, view, sleep, history>>

\* Mutant: no wait between the lock and its verification.
LockWriteNoWait(r) ==
    /\ Awake(r, "lock_write")
    /\ Post(r, Claim("locked", r))
    /\ SleepThen(r, "lock_verify", 0)
    /\ lost' = lost \ {<<r, view[r].commit, at[r]>>}
    /\ UNCHANGED <<head, label, view, at, seen, built, disputed, late, disruptions>>

LockWrite(r) ==
    /\ Awake(r, "lock_write")
    /\ Post(r, Claim("locked", r))
    /\ SleepThen(r, "lock_verify", RaceTimeout)
    /\ lost' = lost \ {<<r, view[r].commit, at[r]>>}
    /\ UNCHANGED <<head, label, view, at, seen, built, disputed, late, disruptions>>

LockVerify(r) ==
    /\ Awake(r, "lock_verify")
    /\ \/ /\ SameDescription(Polled(r), "locked", r)
          /\ Goto(r, "lock_take")
          /\ UNCHANGED <<at, seen, built>>
       \/ /\ ~SameDescription(Polled(r), "locked", r)
          /\ NextTask(r)
    /\ UNCHANGED <<github, view, sleep, history>>

LockTake(r) ==
    /\ Awake(r, "lock_take")
    /\ Post(r, Claim("taken", r))
    /\ Goto(r, "checkout")
    /\ UNCHANGED <<head, label, view, at, seen, built, sleep, history>>

-----------------------------------------------------------------------------
(* Task.execute.                                                           *)

\* The job fetches pull/<number>/head: the head of now, not the snapshot's.
\* From here to the end of the job some time passes.
ExecuteCheckout(r) ==
    /\ Awake(r, "checkout")
    /\ built' = [built EXCEPT ![r] = head]
    /\ SleepThen(r, "run", 1)
    /\ UNCHANGED <<github, view, at, seen, history>>

\* Mutant: some executions end without a report.
ExecuteFinishSilently(r) ==
    /\ Awake(r, "run")
    /\ NextTask(r)
    /\ UNCHANGED <<github, view, sleep, history>>

ExecuteFinish(r) ==
    /\ Awake(r, "run")
    /\ SleepThen(r, "report_poll", PollSleep)
    /\ UNCHANGED <<github, view, at, seen, built, history>>

\* A status that is gone raises ReferenceError, another one EnvironmentError,
\* after which main sleeps.
ExecutePoll(r) ==
    /\ Awake(r, "report_poll")
    /\ \/ /\ SameDescription(Polled(r), "taken", r)
          /\ Goto(r, "report_write")
          /\ UNCHANGED <<at, seen, built, sleep>>
       \/ /\ ~SameDescription(Polled(r), "taken", r)
          /\ NextTask(r)
          /\ sleep' = IF Missing(Polled(r)) THEN sleep
                                           ELSE [sleep EXCEPT ![r] = ErrorBackoff]
    /\ UNCHANGED <<github, view, history>>

ExecuteWrite(r) ==
    /\ Awake(r, "report_write")
    /\ \E outcome \in Outcomes : Post(r, Anonymous(outcome))
    /\ NextTask(r)
    /\ UNCHANGED <<head, label, view, sleep, history>>

-----------------------------------------------------------------------------
(* Disruptions, people and time.                                           *)

\* The process or its machine dies between two calls.
Crash(r) ==
    /\ pc[r] # "down"
    /\ Disrupt("crash")
    /\ Die(r)
    /\ Orphan(r)
    /\ UNCHANGED <<github, disputed, late>>

\* systemd starts prci again.
Restart(r) ==
    /\ Awake(r, "down")
    /\ Goto(r, "idle")
    /\ UNCHANGED <<github, view, at, seen, built, sleep, history>>

\* A poll raises EnvironmentError: the caller gives the job up.
PollFails(r) ==
    /\ pc[r] \in {"rerun_poll", "lock_poll", "lock_verify", "report_poll"}
    /\ sleep[r] = 0
    /\ Disrupt("poll_error")
    /\ Orphan(r)
    /\ NextTask(r)
    /\ UNCHANGED <<github, view, sleep, disputed, late>>

\* The job raises EnvironmentError: main goes on, the status stays "Taken".
JobRaises(r) ==
    /\ pc[r] \in {"checkout", "run"}
    /\ Disrupt("job_error")
    /\ Orphan(r)
    /\ NextTask(r)
    /\ sleep' = [sleep EXCEPT ![r] = ErrorBackoff]
    /\ UNCHANGED <<github, view, disputed, late>>

\* The author pushes a commit, which has no status yet.
Push ==
    /\ head < MaxHead
    /\ head' = head + 1
    /\ disputed' = {}
    /\ UNCHANGED <<status, label, runners, lost, late, disruptions>>

AddRerunLabel ==
    /\ ~label
    /\ Disrupt("label")
    /\ label' = TRUE
    /\ UNCHANGED <<head, status, runners, past>>

\* prci_test_control rerun: unassigned, whatever the status was.
OperatorRerun(t) ==
    /\ ~Missing(status[head][t])
    /\ Disrupt("operator")
    /\ status' = [status EXCEPT ![head][t] = Anonymous("unassigned")]
    /\ disputed' = IF Live(t) \/ Succeeded(status[head][t])
                     THEN disputed \cup {t} ELSE disputed
    /\ SeenBefore(head, t)
    /\ UNCHANGED <<head, label, pc, view, at, built, sleep, lost, late>>

\* Runner r has a step to take before any time passes.
Busy(r) == pc[r] \notin {"idle", "run", "down"} /\ sleep[r] = 0

\* Runner r executes a job that is at its timeout.
Overdue(r) ==
    /\ pc[r] = "run"
    /\ Timeout[at[r]] > 0
    /\ status[view[r].commit][at[r]].age >= Timeout[at[r]]

Tick ==
    /\ Prompt => \A r \in Runner : ~Busy(r)
    /\ Punctual => \A r \in Runner : ~Overdue(r)
    /\ status' = [c \in Commit |-> [t \in Task |-> Older(status[c][t])]]
    /\ view' = [r \in Runner |->
                  [view[r] EXCEPT !.st = [t \in Task |-> Older(view[r].st[t])]]]
    /\ sleep' = [r \in Runner |-> IF sleep[r] > 0 THEN sleep[r] - 1 ELSE 0]
    /\ late' = {r \in Runner :
                   \/ /\ pc[r] = "run" /\ Timeout[at[r]] > 0
                      /\ Older(status[view[r].commit][at[r]]).age > Timeout[at[r]]
                   \/ pc[r] \in Executing /\ r \in late}
    /\ UNCHANGED <<head, label, pc, at, seen, built, lost, disputed, disruptions>>

-----------------------------------------------------------------------------
Step(r) ==
    \/ Query(r) \/ RemoveRerunLabel(r) \/ EndScan(r) \/ CreateErrorStatus(r)
    \/ StalledRaises(r) \/ Skip(r)
    \/ SetUnassigned(r) \/ SetUnassignedPoll(r) \/ SetUnassignedWrite(r)
    \/ SetRerun(r) \/ SetRerunPoll(r) \/ SetRerunWrite(r)
    \/ Lock(r) \/ LockPoll(r) \/ LockWrite(r) \/ LockVerify(r) \/ LockTake(r)
    \/ ExecuteCheckout(r) \/ ExecuteFinish(r) \/ ExecutePoll(r) \/ ExecuteWrite(r)
    \/ Restart(r)

Fault(r) == Crash(r) \/ PollFails(r) \/ JobRaises(r)

Next ==
    \/ \E r \in Runner : Step(r) \/ Fault(r)
    \/ Push
    \/ AddRerunLabel
    \/ \E t \in Task : OperatorRerun(t)
    \/ Tick

Spec == Init /\ [][Next]_vars

\* Every runner runs, is restarted when it ends, and time passes.
Fairness == WF_vars(Tick) /\ \A r \in Runner : WF_vars(Step(r))

FairSpec == Spec /\ Fairness

-----------------------------------------------------------------------------
(* Properties.                                                             *)

WorksOn(r, c, t, kind) ==
    /\ r \in Runner
    /\ view[r].commit = c
    /\ at[r] = t
    /\ pc[r] \in IF kind = "locked" THEN {"lock_verify", "lock_take"} ELSE Executing

\* A claim on the head is in good hands: the runner it names is at work on that
\* job of that commit, at the stage the claim says, unless a fault made the
\* runner drop it (Task.lock and Task.execute give up only claims that another
\* status has replaced).
ClaimHasOwner ==
    \A t \in Task :
        LET s == status[head][t]
        IN  Claimed(s) => \/ WorksOn(s.by, head, t, s.kind)
                          \/ <<s.by, head, t>> \in lost

\* A result is posted only on the commit the job has built, although the job
\* fetches the head of the pull request, which may have moved since the
\* snapshot: Task.execute's last poll stops the report otherwise.
ReportMatchesBuild ==
    \A r \in Runner : pc[r] = "report_write" => built[r] = view[r].commit

\* Of the runners that found the present offer of a job when they polled it in
\* Task.lock, at most one executes it: RACE_TIMEOUT leaves every one of them the
\* time to overwrite the others' locks.  Others may execute it besides: those that
\* found it locked, and those that have it from before it was offered again.
SoleWinner ==
    \A r1, r2 \in Runner :
        /\ pc[r1] \in Executing /\ pc[r2] \in Executing
        /\ view[r1].commit = view[r2].commit /\ at[r1] = at[r2]
        /\ {seen[r1], seen[r2]} \subseteq {"unassigned", "rerun"}
        => r1 = r2

\* A result on the head stays, but that a failed job may be offered anew: no lock
\* of a slower runner, no report of a second executor changes it.  Only of a job
\* that was on offer while a runner had it, or by an operator after its success,
\* is nothing known.
ResultIsFinal ==
    [][\A t \in Task :
          LET old == status[head][t]
              new == status'[head][t]
          IN  head' = head /\ t \notin disputed' =>
                /\ Succeeded(old) => new = old
                /\ Failed(old) => new = old \/ Available(new)]_vars

\* While a job executes on the head, the jobs it requires are in the success state
\* there (Task.check_dependencies looked at a snapshot only).
DependenciesHold ==
    \A r \in Runner :
        pc[r] \in Executing /\ view[r].commit = head =>
            \A d \in Requires[at[r]] :
                Succeeded(status[head][d]) \/ d \in disputed

\* The timeout and STALE_TASK_EXTRA_TIME outlast the locking, and the report of
\* every execution that ends by its timeout: a claim that is stale was left by a
\* fault, or its runner has executed the job beyond the timeout.
StaleMeansLate ==
    \A t \in Task :
        LET s == status[head][t]
        IN  Stalled(s, Timeout[t]) =>
              \/ <<s.by, head, t>> \in lost
              \/ s.by \in late /\ WorksOn(s.by, head, t, "taken")

\* Whatever runners crash, whenever, and however often the author pushes, in the
\* end every job of the head has succeeded, if executions succeed.
Completion == <>[](\A t \in Task : Succeeded(status[head][t]))

\* A tasks file may define some jobs badly: the others are executed all the same,
\* and the runners that end whenever they meet the claim of a job without a
\* timeout are back once that job has reported.
WellDefinedComplete ==
    <>[](\A t \in Task \ Malformed : Succeeded(status[head][t]))

-----------------------------------------------------------------------------
(* What the documentation says and the code does not do.                   *)

\* doc/README.md:98-104: the last runner to write the status wins the job, the
\* others move on: no two runners execute the same job of the same commit.
OneExecutor ==
    \A r1, r2 \in Runner :
        /\ pc[r1] \in Executing /\ pc[r2] \in Executing
        /\ view[r1].commit = view[r2].commit /\ at[r1] = at[r2]
        => r1 = r2

\* entities.py:728: set_rerun refuses a job that is taken and whose claim is not
\* stale, as one that "is changed" since the snapshot.
RerunSparesTaken ==
    [][\A t \in Task :
          LET s == status[head][t]
          IN  head' = head /\ Taken(s) /\ ~Stalled(s, Timeout[t])
                => status'[head][t].kind # "rerun"]_vars
=============================================================================

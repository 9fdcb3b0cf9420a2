-------------------------- MODULE PullRequestScan --------------------------
(***************************************************************************)
(* Which pull request a runner turns to, and which of its jobs it starts.  *)
(*                                                                         *)
(* A runner queries the pull requests once, sorts them and works through   *)
(* all of them with that snapshot, which the executions on the way make    *)
(* hours old: labels, statuses and conflicts change behind its back.  The  *)
(* calls of Task.lock, which TaskClaim takes apart, are one action here,   *)
(* and so are the poll and the write of the other operations of Task.      *)
(***************************************************************************)
EXTENDS Integers

CONSTANTS
    Runner,
    NoRunner,
    P,            \* the number of pull requests, in the order of the query
    N,            \* the number of jobs in each tasks file
    Requires,     \* job -> the jobs it requires
    Needs,        \* job -> the memory of its topology
    Memory,       \* runner -> its memory
    Whitelisted,  \* the pull requests whose author is in the whitelist
    TasksFile,    \* pull request -> what get_tasks_data makes of its tasks file
    Edited,       \* the pull requests that people change
    MaxEdits,     \* bound: changes by people
    MaxFaults     \* bound: labels that cannot be added

PullRequest == 1 .. P
Job == 1 .. N
Task == PullRequest \X Job

ASSUME ScanAssumption ==
    /\ NoRunner \notin Runner
    /\ P \in Nat \ {0} /\ N \in Nat \ {0}
    /\ Requires \in [Job -> SUBSET Job]
    /\ Needs \in [Job -> Nat]
    /\ Memory \in [Runner -> Nat]
    /\ Whitelisted \subseteq PullRequest
    /\ TasksFile \in [PullRequest -> {"good", "unreadable", "incomplete"}]
    /\ Edited \subseteq PullRequest
    /\ MaxEdits \in Nat /\ MaxFaults \in Nat

Label == {"postponed", "prioritized", "re-run", "needs rebase"}
Status == {"none", "unassigned", "rerun", "claimed", "success", "failed"}

VARIABLES
    status,     \* task -> its status on GitHub
    holder,     \* task -> the runner its claim names
    labels,     \* pull request -> its labels
    mergeable,  \* pull request -> whether it has no conflict
    pc,         \* runner -> what it does next
    view,       \* runner -> its snapshot of the pull requests
    todo,       \* runner -> the pull requests that are left of this scan
    at,         \* runner -> the job it is at, in the first of todo
    free,       \* runner -> world.available_resources
    edits,      \* the changes by people so far
    faults      \* the failed calls so far

github == <<status, holder, labels, mergeable>>
runners == <<pc, view, todo, at, free>>
counts == <<edits, faults>>
vars == <<github, runners, counts>>

View == [status    : [Task -> Status],
         labels    : [PullRequest -> SUBSET Label],
         mergeable : [PullRequest -> BOOLEAN]]

NoView == [status    |-> [t \in Task |-> "none"],
           labels    |-> [p \in PullRequest |-> {}],
           mergeable |-> [p \in PullRequest |-> TRUE]]

Snapshot == [status |-> status, labels |-> labels, mergeable |-> mergeable]

TypeOK ==
    /\ status \in [Task -> Status]
    /\ holder \in [Task -> Runner \cup {NoRunner}]
    /\ labels \in [PullRequest -> SUBSET Label]
    /\ mergeable \in [PullRequest -> BOOLEAN]
    /\ pc \in [Runner -> {"query", "pull_request", "job", "execute", "down"}]
    /\ view \in [Runner -> View]
    /\ todo \in [Runner -> SUBSET PullRequest]
    /\ \A r \in Runner : pc[r] \in {"pull_request", "job", "execute"} => todo[r] # {}
    /\ at \in [Runner -> Job]
    /\ free \in [Runner -> Nat]
    /\ \A r \in Runner : pc[r] # "execute" => free[r] = Memory[r]
    /\ edits \in 0 .. MaxEdits
    /\ faults \in 0 .. MaxFaults

Init ==
    /\ status = [t \in Task |-> "none"]
    /\ holder = [t \in Task |-> NoRunner]
    /\ labels = [p \in PullRequest |-> {}]
    /\ mergeable = [p \in PullRequest |-> TRUE]
    /\ pc = [r \in Runner |-> "query"]
    /\ view = [r \in Runner |-> NoView]
    /\ todo = [r \in Runner |-> {}]
    /\ at = [r \in Runner |-> 1]
    /\ free = Memory
    /\ edits = 0
    /\ faults = 0

Goto(r, p) == pc' = [pc EXCEPT ![r] = p]

-----------------------------------------------------------------------------
(* The scan: main and process_pull_request.                                *)

Query(r) ==
    /\ pc[r] = "query"
    /\ view' = [view EXCEPT ![r] = Snapshot]
    /\ todo' = [todo EXCEPT ![r] = PullRequest]
    /\ Goto(r, "pull_request")
    /\ UNCHANGED <<github, at, free, counts>>

Viewed(r, p, l) == l \in view[r].labels[p]

Prioritized(r) == {p \in todo[r] : Viewed(r, p, "prioritized")}

\* Mutant: whatever the label.
ForemostByQuery(r) == todo[r]

\* The prioritized pull requests come first.
Foremost(r) == IF Prioritized(r) = {} THEN todo[r] ELSE Prioritized(r)

\* The pull request runner r is at: the first, in the order of the query, of those.
First(r, p) ==
    LET foremost == Foremost(r) IN p \in foremost /\ \A q \in foremost : p <= q

\* get_tasks_data raises what process_pull_request expects.
Unreadable(p) == TasksFile[p] = "unreadable"

\* The pull request is left alone, with its snapshot.
Skipped(r, p) ==
    \/ Viewed(r, p, "postponed")
    \/ ~view[r].mergeable[p]
    \/ Unreadable(p)

\* Runner r is done with a pull request, and with the scan after the last one.
EndPullRequest(r, p) ==
    /\ todo' = [todo EXCEPT ![r] = @ \ {p}]
    /\ at' = [at EXCEPT ![r] = 1]
    /\ IF todo[r] # {p}
         THEN Goto(r, "pull_request") /\ UNCHANGED view
         ELSE Goto(r, "query") /\ view' = [view EXCEPT ![r] = NoView]

NeedsRebaseLabel(r, p) ==
    /\ ~Viewed(r, p, "postponed")
    /\ ~view[r].mergeable[p]
    /\ ~Viewed(r, p, "needs rebase")

\* The re-run label has done its work, by what the snapshot says of the jobs.
RerunIsOver(r, p) ==
    /\ Viewed(r, p, "re-run")
    /\ \A n \in Job : view[r].status[<<p, n>>] \notin {"none", "failed"}

\* Mutant: a conflicting pull request is left before it gets its label.
LabelsAfterRerun(r, p) ==
    IF ~Skipped(r, p) /\ RerunIsOver(r, p) THEN labels[p] \ {"re-run"} ELSE labels[p]

\* The labels of pull request p after runner r has come to it.
LabelsAfter(r, p) ==
    CASE NeedsRebaseLabel(r, p)                    -> labels[p] \cup {"needs rebase"}
      [] ~Skipped(r, p) /\ RerunIsOver(r, p)       -> labels[p] \ {"re-run"}
      [] OTHER                                     -> labels[p]

\* process_pull_request up to its loop.
ProcessPullRequest(r) ==
    /\ pc[r] = "pull_request"
    /\ \E p \in todo[r] :
         /\ First(r, p)
         /\ labels' = [labels EXCEPT ![p] = LabelsAfter(r, p)]
         /\ \/ Skipped(r, p) /\ EndPullRequest(r, p)
            \/ ~Skipped(r, p) /\ Goto(r, "job") /\ UNCHANGED <<view, todo, at>>
    /\ UNCHANGED <<status, holder, mergeable, free, counts>>

\* The process ends, with what it knew.
End(r) ==
    /\ Goto(r, "down")
    /\ view' = [view EXCEPT ![r] = NoView]
    /\ todo' = [todo EXCEPT ![r] = {}]
    /\ at' = [at EXCEPT ![r] = 1]

\* Nobody catches what __add_label raises.
AddLabelFails(r) ==
    /\ pc[r] = "pull_request"
    /\ \E p \in todo[r] : First(r, p) /\ NeedsRebaseLabel(r, p)
    /\ faults < MaxFaults
    /\ faults' = faults + 1
    /\ End(r)
    /\ UNCHANGED <<github, free, edits>>

At(r, t) == t[2] = at[r] /\ First(r, t[1])

\* The task runner r is at, when its Task has been made.
AtTask(r, t) ==
    /\ pc[r] = "job"
    /\ At(r, t)
    /\ TasksFile[t[1]] # "incomplete"

ViewedStatus(r, t) == view[r].status[t]

NextJob(r, p) ==
    \/ /\ at[r] < N
       /\ at' = [at EXCEPT ![r] = @ + 1]
       /\ Goto(r, "job")
       /\ UNCHANGED <<view, todo>>
    \/ /\ at[r] = N
       /\ EndPullRequest(r, p)

\* A job without requires, args or a known class: Task raises KeyError or
\* AttributeError, which end the process.
TaskRaises(r) ==
    /\ pc[r] = "job"
    /\ \E p \in todo[r] : First(r, p) /\ TasksFile[p] = "incomplete"
    /\ End(r)
    /\ UNCHANGED <<github, free, counts>>

\* Mutant: and instead of or.
OffersIfBoth(r, t) ==
    /\ ViewedStatus(r, t) = "none"
    /\ t[1] \in Whitelisted /\ Viewed(r, t[1], "re-run")

\* The author is trusted, or somebody who is has set the label.
Offers(r, t) ==
    /\ ViewedStatus(r, t) = "none"
    /\ t[1] \in Whitelisted \/ Viewed(r, t[1], "re-run")

\* Task.set_unassigned: only if the poll finds no status.
SetUnassigned(r, t) ==
    /\ AtTask(r, t)
    /\ Offers(r, t)
    /\ status' = [status EXCEPT ![t] = IF @ = "none" THEN "unassigned" ELSE @]
    /\ NextJob(r, t[1])
    /\ UNCHANGED <<holder, labels, mergeable, free, counts>>

Reruns(r, t) == ViewedStatus(r, t) = "failed" /\ Viewed(r, t[1], "re-run")

\* Task.set_rerun, which a claim does not stop.
SetRerun(r, t) ==
    /\ AtTask(r, t)
    /\ Reruns(r, t)
    /\ status' = [status EXCEPT ![t] = IF @ \in {"success", "rerun"} THEN @ ELSE "rerun"]
    /\ holder' = [holder EXCEPT ![t] = IF status[t] = "claimed" THEN NoRunner ELSE @]
    /\ NextJob(r, t[1])
    /\ UNCHANGED <<labels, mergeable, free, counts>>

Waiting == {"unassigned", "rerun"}

\* AvailableResources.check.
Fits(r, t) == free[r] >= Needs[t[2]]

\* What process_status and process_task ask of the snapshot.
Startable(r, t) ==
    /\ ViewedStatus(r, t) \in Waiting
    /\ Fits(r, t)
    /\ \A d \in Requires[t[2]] : ViewedStatus(r, <<t[1], d>>) = "success"

\* Mutant: the resources are not taken.
LockTakesNothing(r, t) ==
    /\ AtTask(r, t)
    /\ Startable(r, t)
    /\ status[t] \in Waiting
    /\ status' = [status EXCEPT ![t] = "claimed"]
    /\ holder' = [holder EXCEPT ![t] = r]
    /\ Goto(r, "execute")
    /\ UNCHANGED <<labels, mergeable, view, todo, at, free, counts>>

\* Task.lock, and the resources are taken.
Lock(r, t) ==
    /\ AtTask(r, t)
    /\ Startable(r, t)
    /\ status[t] \in Waiting
    /\ status' = [status EXCEPT ![t] = "claimed"]
    /\ holder' = [holder EXCEPT ![t] = r]
    /\ free' = [free EXCEPT ![r] = @ - Needs[t[2]]]
    /\ Goto(r, "execute")
    /\ UNCHANGED <<labels, mergeable, view, todo, at, counts>>

\* The job has a result or a claim, no status for an author who is not trusted, too
\* large a topology, requirements that are missing, or another runner's lock.
SkipTask(r, t) ==
    /\ AtTask(r, t)
    /\ ~Offers(r, t) /\ ~Reruns(r, t)
    /\ ~(Startable(r, t) /\ status[t] \in Waiting)
    /\ NextJob(r, t[1])
    /\ UNCHANGED <<github, free, counts>>

\* Task.execute: the result is reported if the claim still stands, and the
\* resources are given back in any case.
Execute(r, t) ==
    /\ pc[r] = "execute"
    /\ At(r, t)
    /\ \/ /\ holder[t] = r
          /\ \E result \in {"success", "failed"} : status' = [status EXCEPT ![t] = result]
          /\ holder' = [holder EXCEPT ![t] = NoRunner]
       \/ /\ holder[t] # r
          /\ UNCHANGED <<status, holder>>
    /\ free' = [free EXCEPT ![r] = @ + Needs[t[2]]]
    /\ NextJob(r, t[1])
    /\ UNCHANGED <<labels, mergeable, counts>>

\* systemd starts prci again.
Restart(r) ==
    /\ pc[r] = "down"
    /\ Goto(r, "query")
    /\ UNCHANGED <<github, view, todo, at, free, counts>>

-----------------------------------------------------------------------------
(* People.                                                                 *)

\* Somebody sets or removes a label.
Relabel(p, l) ==
    /\ edits < MaxEdits
    /\ edits' = edits + 1
    /\ labels' = [labels EXCEPT ![p] = IF l \in @ THEN @ \ {l} ELSE @ \cup {l}]
    /\ UNCHANGED <<status, holder, mergeable, runners, faults>>

\* Another pull request is merged, and this one conflicts with it.
Conflict(p) ==
    /\ edits < MaxEdits
    /\ mergeable[p]
    /\ edits' = edits + 1
    /\ mergeable' = [mergeable EXCEPT ![p] = FALSE]
    /\ UNCHANGED <<status, holder, labels, runners, faults>>

Step(r) ==
    \/ Query(r) \/ ProcessPullRequest(r) \/ AddLabelFails(r)
    \/ TaskRaises(r) \/ Restart(r)
    \/ \E t \in Task :
         SetUnassigned(r, t) \/ SetRerun(r, t) \/ Lock(r, t) \/ SkipTask(r, t) \/ Execute(r, t)

Next ==
    \/ \E r \in Runner : Step(r)
    \/ \E p \in Edited : Conflict(p) \/ \E l \in Label \ {"needs rebase"} : Relabel(p, l)

Spec == Init /\ [][Next]_vars

\* Every runner goes on: its calls are answered and its jobs end.
FairSpec == Spec /\ \A r \in Runner : WF_vars(Step(r))

-----------------------------------------------------------------------------
(* Properties.                                                             *)

\* The pull requests that runners can work on, when people leave them open to it.
Workable == {p \in Whitelisted : TasksFile[p] = "good"}
Open(p) == "postponed" \notin labels[p] /\ mergeable[p]

Done(t) == status[t] \in {"success", "failed"}

\* Whoever starts a job of an ordinary pull request has left none waiting in a
\* prioritized one: none that was unassigned and startable when it asked (main
\* sorts by the label) and has been unassigned ever since.
PriorityRespected ==
    [][\A r \in Runner, t \in Task :
         Lock(r, t) /\ ~Viewed(r, t[1], "prioritized") =>
           \A u \in Task :
             Viewed(r, u[1], "prioritized") /\ ~Skipped(r, u[1]) /\ Startable(r, u)
               => ~(ViewedStatus(r, u) = "unassigned" /\ status[u] = "unassigned")]_vars

\* Every job of a pull request that stays open to the runners is executed, or one
\* it requires has failed: no label, conflict or unreadable file of another pull
\* request keeps the runners from it, and no execution uses up their resources.
EveryJobComes ==
    \A t \in Workable \X Job :
        <>[]Open(t[1]) => <>(Done(t) \/ \E d \in Requires[t[2]] : status[<<t[1], d>>] = "failed")

\* The author of a conflicting pull request is told (add_rebase_label), though
\* some calls fail and end the runner.
RebaseIsAskedFor ==
    \A p \in Edited :
        <>[](~mergeable[p] /\ "postponed" \notin labels[p]) => <>("needs rebase" \in labels[p])
=============================================================================

----------------------- MODULE PullRequestScanProofs -----------------------
(***************************************************************************)
(* Theorems about the scan of the pull requests: for any number of         *)
(* runners, pull requests and jobs, whatever people change meanwhile.      *)
(***************************************************************************)
EXTENDS PullRequestScan, TLAPS

-----------------------------------------------------------------------------
(* The invariant.                                                          *)

Scanning == {"pull_request", "job", "execute"}

\* The resources that a runner has taken are those of the job it executes.
Taken ==
    \A r \in Runner : pc[r] = "execute" => free[r] + Needs[at[r]] = Memory[r]

\* A runner starts every pull request with its first job.
FromTheFirst ==
    \A r \in Runner : pc[r] \in {"query", "pull_request", "down"} => at[r] = 1

\* What a snapshot has as unassigned has a status for good.
Known ==
    \A r \in Runner, u \in Task : ViewedStatus(r, u) = "unassigned" => status[u] # "none"

\* The runner has come to task u, or has started it.
Past(r, u) ==
    \/ u[1] \notin todo[r]
    \/ /\ pc[r] \in {"job", "execute"}
       /\ First(r, u[1])
       /\ u[2] < at[r] \/ (u[2] = at[r] /\ pc[r] = "execute")

\* The runner starts task u if it is still waiting.
Wanted(r, u) ==
    /\ ~Skipped(r, u[1])
    /\ ViewedStatus(r, u) = "unassigned"
    /\ Memory[r] >= Needs[u[2]]
    /\ \A d \in Requires[u[2]] : ViewedStatus(r, <<u[1], d>>) = "success"

\* None that a runner would have started is left behind unassigned.
LeftNone ==
    \A r \in Runner : pc[r] \in Scanning =>
        \A u \in Task : Past(r, u) /\ Wanted(r, u) => status[u] # "unassigned"

IInv == TypeOK /\ Taken /\ FromTheFirst /\ Known /\ LeftNone

\* The types, but for the state of the runners.
GithubOK ==
    /\ status \in [Task -> Status]
    /\ holder \in [Task -> Runner \cup {NoRunner}]
    /\ labels \in [PullRequest -> SUBSET Label]
    /\ mergeable \in [PullRequest -> BOOLEAN]

\* The state of the runners.
RunnersOK ==
    /\ pc \in [Runner -> {"query", "pull_request", "job", "execute", "down"}]
    /\ view \in [Runner -> View]
    /\ todo \in [Runner -> SUBSET PullRequest]
    /\ \A r \in Runner : pc[r] \in {"pull_request", "job", "execute"} => todo[r] # {}
    /\ at \in [Runner -> Job]
    /\ free \in [Runner -> Nat]
    /\ \A r \in Runner : pc[r] # "execute" => free[r] = Memory[r]

\* The bounds.
CountsOK == edits \in 0 .. MaxEdits /\ faults \in 0 .. MaxFaults

\* The type invariant in its parts, in a state and in the next one.
LEMMA TypeParts ==
    /\ TypeOK <=> GithubOK /\ RunnersOK /\ CountsOK
    /\ TypeOK' <=> GithubOK' /\ RunnersOK' /\ CountsOK'
  BY DEF TypeOK, GithubOK, RunnersOK, CountsOK

\* There is one first pull request.
LEMMA OneFirst ==
    ASSUME TypeOK, NEW r \in Runner, NEW p, NEW q, First(r, p), First(r, q)
    PROVE  p = q /\ p \in todo[r] /\ p \in PullRequest
<1>1. todo[r] \subseteq PullRequest /\ PullRequest \subseteq Nat
  BY DEF TypeOK, PullRequest
<1>2. Foremost(r) \subseteq todo[r]
  BY DEF Foremost, Prioritized
<1>3. p \in Foremost(r) /\ q \in Foremost(r) /\ p <= q /\ q <= p
  BY DEF First
<1>4. p \in Nat /\ q \in Nat
  BY <1>1, <1>2, <1>3
<1> QED
  BY <1>1, <1>2, <1>3, <1>4

\* No prioritized pull request is left when the first is an ordinary one.
LEMMA PrioritizedFirst ==
    ASSUME NEW r \in Runner, NEW p, First(r, p), ~Viewed(r, p, "prioritized"),
           NEW q, Viewed(r, q, "prioritized")
    PROVE  q \notin todo[r]
  BY DEF First, Foremost, Prioritized

\* The snapshot of nothing.
LEMMA NothingViewed == NoView \in View /\ \A t \in Task : NoView.status[t] = "none"
  BY DEF NoView, View, Status

-----------------------------------------------------------------------------
(* A step, as far as the runner goes.                                      *)

\* Runner r leaves task t, of which it has executed or tried what there was to try.
Leaves(r, t) ==
    /\ At(r, t) /\ pc[r] \in {"job", "execute"}
    /\ NextJob(r, t[1])
    /\ free' = [free EXCEPT ![r] = IF pc[r] = "execute" THEN @ + Needs[t[2]] ELSE @]
    /\ UNCHANGED <<labels, mergeable, counts>>

\* What Next does, in the terms of the invariant.
Advances(r) ==
    \/ Query(r) \/ ProcessPullRequest(r) \/ Restart(r)
    \/ \E t \in Task :
         \/ Leaves(r, t)
         \/ Lock(r, t)
    \/ /\ End(r) /\ pc[r] \in {"pull_request", "job"}
       /\ UNCHANGED <<github, free, edits>>
       /\ UNCHANGED faults \/ (faults < MaxFaults /\ faults' = faults + 1)

\* Every step of a runner is one of these.
LEMMA StepAdvances ==
    ASSUME NEW r \in Runner, Step(r), RunnersOK
    PROVE  Advances(r)
<1>1. CASE Query(r) \/ ProcessPullRequest(r) \/ Restart(r)
  BY <1>1 DEF Advances
<1>2. CASE AddLabelFails(r)
  BY <1>2 DEF AddLabelFails, Advances
<1>3. CASE TaskRaises(r)
  BY <1>3 DEF TaskRaises, Advances, counts
<1>4. ASSUME NEW t \in Task, SetUnassigned(r, t) \/ SetRerun(r, t) \/ SkipTask(r, t)
      PROVE  Advances(r)
  <2>1. AtTask(r, t) /\ NextJob(r, t[1]) /\ UNCHANGED <<labels, mergeable, free, counts>>
    BY <1>4 DEF SetUnassigned, SetRerun, SkipTask, github
  <2>2. Leaves(r, t)
    BY <2>1 DEF Leaves, AtTask, RunnersOK
  <2> QED
    BY <2>2 DEF Advances
<1>5. ASSUME NEW t \in Task, Execute(r, t)
      PROVE  Advances(r)
  <2>1. Leaves(r, t)
    BY <1>5 DEF Leaves, Execute
  <2> QED
    BY <2>1 DEF Advances
<1>6. ASSUME NEW t \in Task, Lock(r, t)
      PROVE  Advances(r)
  BY <1>6 DEF Advances
<1> QED
  BY <1>1, <1>2, <1>3, <1>4, <1>5, <1>6 DEF Step

\* The step of a runner leaves the others as they are.
LEMMA OthersWait ==
    ASSUME NEW r \in Runner, Step(r), RunnersOK
    PROVE  \A q \in Runner \ {r} :
             /\ pc'[q] = pc[q] /\ view'[q] = view[q] /\ todo'[q] = todo[q]
             /\ at'[q] = at[q] /\ free'[q] = free[q]
<1>1. Advances(r)
  BY StepAdvances
<1> USE DEF Goto, RunnersOK, runners, github, counts
<1>2. CASE Query(r)
  BY <1>2 DEF Query
<1>3. CASE ProcessPullRequest(r)
  BY <1>3 DEF ProcessPullRequest, EndPullRequest
<1>4. CASE Restart(r)
  BY <1>4 DEF Restart
<1>5. ASSUME NEW t \in Task, Leaves(r, t)
      PROVE  \A q \in Runner \ {r} :
               /\ pc'[q] = pc[q] /\ view'[q] = view[q] /\ todo'[q] = todo[q]
               /\ at'[q] = at[q] /\ free'[q] = free[q]
  BY <1>5 DEF Leaves, NextJob, EndPullRequest
<1>6. ASSUME NEW t \in Task, Lock(r, t)
      PROVE  \A q \in Runner \ {r} :
               /\ pc'[q] = pc[q] /\ view'[q] = view[q] /\ todo'[q] = todo[q]
               /\ at'[q] = at[q] /\ free'[q] = free[q]
  BY <1>6 DEF Lock
<1>7. CASE End(r) /\ UNCHANGED free
  BY <1>7 DEF End
<1> QED
  BY <1>1, <1>2, <1>3, <1>4, <1>5, <1>6, <1>7 DEF Advances

-----------------------------------------------------------------------------
(* A step keeps the invariant.                                             *)

\* The status of a task and its claim keep their types, and no status is taken back: a task
\* that has one keeps one, and is not unassigned again.
LEMMA StatusStep ==
    ASSUME IInv, NEW r \in Runner, Step(r)
    PROVE  /\ GithubOK'
           /\ \A u \in Task : status[u] # "none" => status'[u] # "none"
           /\ \A u \in Task : status[u] \notin {"none", "unassigned"} => status'[u] # "unassigned"
<1>t. GithubOK /\ RunnersOK
  BY TypeParts DEF IInv
<1> USE DEF GithubOK, Status, github
<1>1. CASE Query(r) \/ AddLabelFails(r) \/ TaskRaises(r) \/ Restart(r)
  BY <1>t, <1>1 DEF Query, AddLabelFails, TaskRaises, Restart
<1>2. CASE ProcessPullRequest(r)
  <2>1. PICK p \in todo[r] : labels' = [labels EXCEPT ![p] = LabelsAfter(r, p)]
    BY <1>2 DEF ProcessPullRequest
  <2>2. p \in PullRequest /\ LabelsAfter(r, p) \in SUBSET Label
    BY <1>t, <2>1 DEF LabelsAfter, RunnersOK, Label
  <2>3. UNCHANGED <<status, holder, mergeable>>
    BY <1>2 DEF ProcessPullRequest
  <2> QED
    BY <1>t, <2>1, <2>2, <2>3
<1>3. ASSUME NEW t \in Task, SetUnassigned(r, t)
      PROVE  /\ GithubOK'
             /\ \A u \in Task : status[u] # "none" => status'[u] # "none"
             /\ \A u \in Task : status[u] \notin {"none", "unassigned"} => status'[u] # "unassigned"
  BY <1>t, <1>3 DEF SetUnassigned
<1>4. ASSUME NEW t \in Task, SetRerun(r, t)
      PROVE  /\ GithubOK'
             /\ \A u \in Task : status[u] # "none" => status'[u] # "none"
             /\ \A u \in Task : status[u] \notin {"none", "unassigned"} => status'[u] # "unassigned"
  BY <1>t, <1>4 DEF SetRerun
<1>5. ASSUME NEW t \in Task, Lock(r, t)
      PROVE  /\ GithubOK'
             /\ \A u \in Task : status[u] # "none" => status'[u] # "none"
             /\ \A u \in Task : status[u] \notin {"none", "unassigned"} => status'[u] # "unassigned"
  BY <1>t, <1>5 DEF Lock
<1>6. ASSUME NEW t \in Task, SkipTask(r, t)
      PROVE  /\ GithubOK'
             /\ \A u \in Task : status[u] # "none" => status'[u] # "none"
             /\ \A u \in Task : status[u] \notin {"none", "unassigned"} => status'[u] # "unassigned"
  BY <1>t, <1>6 DEF SkipTask
<1>7. ASSUME NEW t \in Task, Execute(r, t)
      PROVE  /\ GithubOK'
             /\ \A u \in Task : status[u] # "none" => status'[u] # "none"
             /\ \A u \in Task : status[u] \notin {"none", "unassigned"} => status'[u] # "unassigned"
  BY <1>t, <1>7 DEF Execute
<1> QED
  BY <1>1, <1>2, <1>3, <1>4, <1>5, <1>6, <1>7 DEF Step

\* The bounds.
LEMMA CountsStep ==
    ASSUME IInv, NEW r \in Runner, Step(r)
    PROVE  CountsOK'
<1>1. Advances(r) /\ CountsOK /\ MaxFaults \in Nat /\ MaxEdits \in Nat
  BY StepAdvances, TypeParts, ScanAssumption DEF IInv
<1> QED
  BY <1>1 DEF Advances, Query, ProcessPullRequest, Restart, Leaves, Lock, CountsOK, counts

\* The runner's own state after its step, as the invariant has it.
OwnOK(r) ==
    /\ pc[r] \in {"query", "pull_request", "job", "execute", "down"}
    /\ view[r] \in View
    /\ todo[r] \in SUBSET PullRequest
    /\ pc[r] \in {"pull_request", "job", "execute"} => todo[r] # {}
    /\ at[r] \in Job
    /\ free[r] \in Nat
    /\ pc[r] # "execute" => free[r] = Memory[r]
    /\ pc[r] = "execute" => free[r] + Needs[at[r]] = Memory[r]
    /\ pc[r] \in {"query", "pull_request", "down"} => at[r] = 1

\* The types of a runner, what it has taken and where it is: after its step.
LEMMA OwnStep ==
    ASSUME IInv, NEW r \in Runner, Step(r)
    PROVE  OwnOK(r)'
<1>t. GithubOK /\ RunnersOK /\ Taken /\ FromTheFirst
  BY TypeParts DEF IInv
<1>a. Advances(r)
  BY <1>t, StepAdvances
<1>n. /\ N \in Nat \ {0} /\ 1 \in Job /\ Job \subseteq Nat /\ PullRequest # {}
      /\ Memory[r] \in Nat /\ \A n \in Job : Needs[n] \in Nat
  BY ScanAssumption DEF Job, PullRequest
<1>o. OwnOK(r)
  BY <1>t DEF OwnOK, RunnersOK, Taken, FromTheFirst
<1>1. CASE Query(r)
  <2>1. Snapshot \in View
    BY <1>t DEF Snapshot, View, GithubOK
  <2>2. pc'[r] = "pull_request" /\ view'[r] = Snapshot /\ todo'[r] = PullRequest /\ pc[r] = "query"
        /\ at'[r] = at[r] /\ free'[r] = free[r]
    BY <1>t, <1>1 DEF Query, Goto, RunnersOK
  <2> QED
    BY <1>n, <1>o, <2>1, <2>2 DEF OwnOK
<1>2. CASE ProcessPullRequest(r)
  <2>1. PICK p \in todo[r] : \/ EndPullRequest(r, p)
                             \/ Goto(r, "job") /\ UNCHANGED <<view, todo, at>>
    BY <1>2 DEF ProcessPullRequest
  <2>2. pc[r] = "pull_request" /\ free'[r] = free[r]
    BY <1>2 DEF ProcessPullRequest
  <2>3. CASE EndPullRequest(r, p)
    <3>1. /\ todo'[r] = todo[r] \ {p} /\ at'[r] = 1
          /\ \/ todo[r] # {p} /\ pc'[r] = "pull_request" /\ view'[r] = view[r]
             \/ pc'[r] = "query" /\ view'[r] = NoView
      BY <1>t, <2>3 DEF EndPullRequest, Goto, RunnersOK
    <3> QED
      BY <1>n, <1>o, <2>1, <2>2, <3>1, NothingViewed DEF OwnOK
  <2>4. CASE Goto(r, "job") /\ UNCHANGED <<view, todo, at>>
    BY <1>t, <1>o, <2>2, <2>4 DEF OwnOK, Goto, RunnersOK
  <2> QED
    BY <2>1, <2>3, <2>4
<1>3. CASE Restart(r)
  BY <1>t, <1>o, <1>3 DEF Restart, Goto, OwnOK, RunnersOK, counts
<1>4. ASSUME NEW t \in Task, Leaves(r, t)
      PROVE  OwnOK(r)'
  <2>1. t[1] \in todo[r] /\ t[2] = at[r]
    BY <1>4 DEF Leaves, At, First, Foremost, Prioritized
  <2>2. free'[r] = Memory[r]
    BY <1>t, <1>n, <1>o, <1>4, <2>1 DEF Leaves, OwnOK, RunnersOK
  <2>3. \/ at[r] < N /\ at'[r] = at[r] + 1 /\ pc'[r] = "job" /\ view'[r] = view[r] /\ todo'[r] = todo[r]
        \/ /\ todo'[r] = todo[r] \ {t[1]} /\ at'[r] = 1
           /\ \/ todo[r] # {t[1]} /\ pc'[r] = "pull_request" /\ view'[r] = view[r]
              \/ pc'[r] = "query" /\ view'[r] = NoView
    BY <1>t, <1>4 DEF Leaves, NextJob, EndPullRequest, Goto, RunnersOK
  <2>4. at[r] < N => at[r] + 1 \in Job
    BY <1>o, <1>n DEF OwnOK, Job
  <2> QED
    BY <1>4, <1>n, <1>o, <2>1, <2>2, <2>3, <2>4, NothingViewed DEF OwnOK, Leaves
<1>5. ASSUME NEW t \in Task, Lock(r, t)
      PROVE  OwnOK(r)'
  <2>1. pc[r] = "job" /\ t[2] = at[r] /\ free[r] >= Needs[at[r]]
    BY <1>5 DEF Lock, AtTask, At, Startable, Fits
  <2>2. pc'[r] = "execute" /\ free'[r] = free[r] - Needs[at[r]]
        /\ view'[r] = view[r] /\ todo'[r] = todo[r] /\ at'[r] = at[r]
    BY <1>t, <1>5, <2>1 DEF Lock, Goto, RunnersOK
  <2>3. free[r] = Memory[r] /\ Needs[at[r]] \in Nat
    BY <1>n, <1>o, <2>1 DEF OwnOK
  <2>4. free'[r] \in Nat /\ free'[r] + Needs[at'[r]] = Memory[r]
    BY <1>n, <2>1, <2>2, <2>3
  <2> QED
    BY <1>n, <1>o, <2>1, <2>2, <2>4 DEF OwnOK
<1>6. CASE End(r) /\ pc[r] \in {"pull_request", "job"} /\ UNCHANGED free
  BY <1>t, <1>n, <1>o, <1>6, NothingViewed DEF End, Goto, OwnOK, RunnersOK
<1> QED
  BY <1>a, <1>1, <1>2, <1>3, <1>4, <1>5, <1>6 DEF Advances

\* Whoever stays where it is keeps its types.
LEMMA RunnersStep ==
    ASSUME IInv, NEW r \in Runner, Step(r)
    PROVE  RunnersOK' /\ Taken' /\ FromTheFirst'
<1>t. RunnersOK /\ Taken /\ FromTheFirst
  BY TypeParts DEF IInv
<1>1. \A q \in Runner : OwnOK(q)'
  <2>1. \A q \in Runner : OwnOK(q)
    BY <1>t DEF OwnOK, RunnersOK, Taken, FromTheFirst
  <2>2. \A q \in Runner \ {r} : OwnOK(q)'
    BY <1>t, <2>1, OthersWait DEF OwnOK
  <2> QED
    BY <2>2, OwnStep
<1>2. \E x, y, z, w, f : /\ pc' = [pc EXCEPT ![r] = x] /\ view' = [view EXCEPT ![r] = y]
                         /\ todo' = [todo EXCEPT ![r] = z] /\ at' = [at EXCEPT ![r] = w]
                         /\ free' = [free EXCEPT ![r] = f]
  <2>1. Advances(r)
    BY <1>t, StepAdvances
  <2> QED
    BY <1>t, <2>1 DEF Advances, Query, ProcessPullRequest, Restart, Leaves, Lock, End, NextJob,
                      EndPullRequest, Goto, RunnersOK, counts
<1>3. RunnersOK'
  BY <1>t, <1>1, <1>2 DEF OwnOK, RunnersOK
<1> QED
  BY <1>1, <1>3 DEF OwnOK, Taken, FromTheFirst

\* A status that a snapshot has stays one.
LEMMA KnownStep ==
    ASSUME IInv, NEW r \in Runner, Step(r)
    PROVE  Known'
<1>t. GithubOK /\ RunnersOK /\ Known
  BY TypeParts DEF IInv
<1>1. \A q \in Runner : view'[q] \in {view[q], Snapshot, NoView}
  <2>1. Advances(r)
    BY <1>t, StepAdvances
  <2>2. view'[r] \in {view[r], Snapshot, NoView}
    BY <1>t, <2>1 DEF Advances, Query, ProcessPullRequest, Restart, Leaves, Lock, End, NextJob,
                      EndPullRequest, RunnersOK
  <2> QED
    BY <1>t, <2>2, OthersWait
<1>2. SUFFICES ASSUME NEW q \in Runner, NEW u \in Task, view'[q].status[u] = "unassigned"
               PROVE  status'[u] # "none"
  BY DEF Known, ViewedStatus
<1>3. CASE view'[q] = view[q]
  BY <1>t, <1>2, <1>3, StatusStep DEF Known, ViewedStatus
<1>4. CASE view'[q] = Snapshot
  BY <1>2, <1>4, StatusStep DEF Snapshot
<1>5. CASE view'[q] = NoView
  BY <1>2, <1>5, NothingViewed
<1> QED
  BY <1>1, <1>3, <1>4, <1>5

\* The task that a runner leaves is not left waiting if the runner wanted it.
LEMMA NotLeft ==
    ASSUME IInv, NEW r \in Runner, Step(r), NEW t \in Task, Leaves(r, t), Wanted(r, t)
    PROVE  status'[t] # "unassigned"
<1>t. GithubOK /\ RunnersOK /\ Known /\ LeftNone
  BY TypeParts DEF IInv
<1>1. ViewedStatus(r, t) = "unassigned" /\ status[t] # "none"
  BY <1>t DEF Wanted, Known
<1>2. CASE pc[r] = "execute"
  <2>1. Past(r, t)
    BY <1>2 DEF Leaves, At, Past
  <2>2. status[t] \notin {"none", "unassigned"}
    BY <1>t, <1>1, <1>2, <2>1 DEF LeftNone, Scanning
  <2> QED
    BY <2>2, StatusStep
<1>3. CASE pc[r] = "job"
  <2>1. Startable(r, t)
    BY <1>t, <1>1, <1>3 DEF Wanted, Startable, Waiting, Fits, RunnersOK
  <2>2. PICK u \in Task : \/ SetUnassigned(r, u) \/ SetRerun(r, u) \/ Lock(r, u) \/ SkipTask(r, u)
                          \/ TaskRaises(r)
    BY <1>3 DEF Step, Query, ProcessPullRequest, AddLabelFails, Restart, Execute
  <2>3. ~TaskRaises(r) /\ ~Lock(r, u)
    <3>1. pc'[r] \notin {"down", "execute"}
      BY <1>t DEF Leaves, NextJob, EndPullRequest, Goto, RunnersOK
    <3> QED
      BY <1>t, <3>1 DEF TaskRaises, Lock, End, Goto, RunnersOK
  <2>4. At(r, u) /\ At(r, t)
    BY <2>2, <2>3 DEF SetUnassigned, SetRerun, SkipTask, AtTask, Leaves
  <2>5. u = t
    BY <2>4, OneFirst DEF IInv, At, Task
  <2>6. SkipTask(r, t)
    BY <1>1, <2>2, <2>3, <2>5 DEF SetUnassigned, SetRerun, Offers, Reruns
  <2> QED
    BY <1>t, <2>1, <2>6 DEF SkipTask, Waiting, github
<1> QED
  BY <1>2, <1>3 DEF Leaves

\* What a runner has passed after its step it had passed before, or it has just left it.
LEMMA LeftNoneStep ==
    ASSUME IInv, NEW r \in Runner, Step(r)
    PROVE  LeftNone'
<1>t. GithubOK /\ RunnersOK /\ Known /\ LeftNone /\ FromTheFirst /\ TypeOK
  BY TypeParts DEF IInv
<1>a. Advances(r)
  BY <1>t, StepAdvances
<1>n. N \in Nat \ {0} /\ Job \subseteq Nat /\ (\A n \in Job : 1 <= n /\ n <= N)
  BY ScanAssumption DEF Job
<1>s. ASSUME NEW q \in Runner, NEW u \in Task, pc[q] \in Scanning, Past(q, u), Wanted(q, u)
      PROVE  status'[u] # "unassigned"
  BY <1>s, <1>t, StatusStep DEF LeftNone, Wanted, Known
<1>1. SUFFICES ASSUME NEW q \in Runner, pc'[q] \in Scanning,
                      NEW u \in Task, Past(q, u)', Wanted(q, u)'
               PROVE  status'[u] # "unassigned"
  BY DEF LeftNone
<1>u. u[1] \in PullRequest /\ u[2] \in Nat /\ 1 <= u[2] /\ u[2] <= N /\ N \in Nat
  BY ScanAssumption DEF Task, Job
<1>2. CASE q # r
  <2>1. /\ pc'[q] = pc[q] /\ view'[q] = view[q] /\ todo'[q] = todo[q]
        /\ at'[q] = at[q] /\ free'[q] = free[q]
    BY <1>t, <1>2, OthersWait
  <2>2. Past(q, u) /\ Wanted(q, u) /\ pc[q] \in Scanning
    BY <1>1, <2>1 DEF Past, Wanted, First, Foremost, Prioritized, Viewed, ViewedStatus, Skipped
  <2> QED
    BY <1>s, <2>2
<1>3. CASE q = r
  <2>1. CASE Query(r)
    <3>1. pc'[r] = "pull_request" /\ todo'[r] = PullRequest
      BY <1>t, <2>1 DEF Query, Goto, RunnersOK
    <3> QED
      BY <1>1, <1>3, <1>u, <3>1 DEF Past
  <2>2. CASE ProcessPullRequest(r)
    <3>1. PICK p \in todo[r] : /\ First(r, p)
                               /\ \/ Skipped(r, p) /\ EndPullRequest(r, p)
                                  \/ Goto(r, "job") /\ UNCHANGED <<view, todo, at>>
      BY <2>2 DEF ProcessPullRequest
    <3>2. pc[r] = "pull_request" /\ at[r] = 1
      BY <1>t, <2>2 DEF ProcessPullRequest, FromTheFirst
    <3>3. CASE Skipped(r, p) /\ EndPullRequest(r, p)
      <4>1. pc'[r] = "pull_request" /\ view'[r] = view[r] /\ todo'[r] = todo[r] \ {p}
        BY <1>t, <1>1, <1>3, <3>3 DEF EndPullRequest, Goto, RunnersOK, Scanning
      <4>2. Wanted(r, u) /\ u[1] \notin todo'[r]
        BY <1>1, <1>3, <4>1 DEF Past, Wanted, Viewed, ViewedStatus, Skipped
      <4>3. u[1] # p
        BY <3>3, <4>2 DEF Wanted
      <4> QED
        BY <1>s, <3>2, <4>1, <4>2, <4>3 DEF Past, Scanning
    <3>4. CASE Goto(r, "job") /\ UNCHANGED <<view, todo, at>>
      <4>1. pc'[r] = "job" /\ Wanted(r, u) /\ at'[r] = 1
        BY <1>t, <1>1, <1>3, <3>2, <3>4 DEF Goto, RunnersOK, Wanted, Viewed, ViewedStatus,
           Skipped
      <4>2. u[1] \notin todo[r]
        BY <1>1, <1>3, <1>u, <3>4, <4>1 DEF Past
      <4> QED
        BY <1>s, <3>2, <4>1, <4>2 DEF Past, Scanning
    <3> QED
      BY <3>1, <3>3, <3>4
  <2>3. CASE Restart(r) \/ (End(r) /\ pc[r] \in {"pull_request", "job"})
    BY <1>t, <1>1, <1>3, <2>3 DEF Restart, End, Goto, RunnersOK, Scanning
  <2>4. ASSUME NEW t \in Task, Leaves(r, t)
        PROVE  status'[u] # "unassigned"
    <3>1. At(r, t) /\ pc[r] \in {"job", "execute"} /\ t[2] = at[r] /\ First(r, t[1]) /\ t[1] \in todo[r]
          /\ at[r] \in Nat
      BY <1>t, <1>n, <2>4, OneFirst DEF Leaves, At, RunnersOK
    <3>2. view'[r] = view[r]
      BY <1>t, <1>1, <1>3, <2>4 DEF Leaves, NextJob, EndPullRequest, Goto, RunnersOK, Scanning
    <3>3. Wanted(r, u)
      BY <1>1, <1>3, <3>2 DEF Wanted, Viewed, ViewedStatus, Skipped
    <3>4. Past(r, u) \/ u = t
      <4>1. CASE at[r] < N /\ at' = [at EXCEPT ![r] = @ + 1] /\ Goto(r, "job") /\ UNCHANGED todo
        <5>1. at'[r] = at[r] + 1 /\ pc'[r] = "job" /\ todo'[r] = todo[r]
          BY <1>t, <4>1 DEF Goto, RunnersOK
        <5>2. First(r, u[1])' <=> First(r, u[1])
          BY <3>2, <5>1 DEF First, Foremost, Prioritized, Viewed
        <5>3. u[1] \in todo[r] => First(r, u[1]) /\ u[2] < at[r] + 1
          BY <1>1, <1>3, <5>1, <5>2 DEF Past
        <5>4. u[1] \in todo[r] => u[1] = t[1] /\ u[2] <= at[r]
          <6>1. u[1] \in todo[r] => u[1] = t[1]
            BY <1>t, <3>1, <5>3, OneFirst
          <6> QED
            BY <1>u, <3>1, <5>3, <6>1
        <5>5. u[1] \in todo[r] /\ u[2] = at[r] => u = t
          BY <3>1, <5>4 DEF Task
        <5> QED
          BY <1>u, <3>1, <5>3, <5>4, <5>5 DEF Past
      <4>2. CASE at[r] = N /\ EndPullRequest(r, t[1])
        <5>1. todo'[r] = todo[r] \ {t[1]} /\ pc'[r] = "pull_request"
          BY <1>t, <1>1, <1>3, <4>2 DEF EndPullRequest, Goto, RunnersOK, Scanning
        <5>2. u[1] \notin todo[r] \/ u[1] = t[1]
          BY <1>1, <1>3, <5>1 DEF Past
        <5>3. u[1] = t[1] => u[2] < at[r] \/ u[2] = at[r]
          BY <1>u, <4>2
        <5> QED
          BY <3>1, <5>2, <5>3 DEF Past, Task
      <4> QED
        BY <2>4, <4>1, <4>2 DEF Leaves, NextJob
    <3> QED
      BY <1>s, <2>4, <3>1, <3>3, <3>4, NotLeft DEF Scanning
  <2>5. ASSUME NEW t \in Task, Lock(r, t)
        PROVE  status'[u] # "unassigned"
    <3>1. /\ pc[r] = "job" /\ pc'[r] = "execute" /\ view'[r] = view[r] /\ todo'[r] = todo[r]
          /\ at'[r] = at[r] /\ t[2] = at[r] /\ First(r, t[1]) /\ status'[t] = "claimed"
      BY <1>t, <2>5 DEF Lock, AtTask, At, Goto, RunnersOK, GithubOK
    <3>2. Wanted(r, u)
      BY <1>1, <1>3, <3>1 DEF Wanted, Viewed, ViewedStatus, Skipped
    <3>3. First(r, u[1])' <=> First(r, u[1])
      BY <3>1 DEF First, Foremost, Prioritized, Viewed
    <3>4. Past(r, u) \/ (First(r, u[1]) /\ u[2] = at[r])
      BY <1>1, <1>3, <3>1, <3>3 DEF Past
    <3>5. Past(r, u) \/ u = t
      BY <1>t, <3>1, <3>4, OneFirst DEF Task
    <3> QED
      BY <1>s, <3>1, <3>2, <3>5 DEF Scanning
  <2> QED
    BY <1>a, <2>1, <2>2, <2>3, <2>4, <2>5 DEF Advances
<1> QED
  BY <1>2, <1>3

\* What people do keeps the invariant.
LEMMA PeopleStep ==
    ASSUME IInv, NEW p \in PullRequest, Conflict(p) \/ \E l \in Label : Relabel(p, l)
    PROVE  IInv'
<1>t. GithubOK /\ RunnersOK /\ CountsOK
  BY TypeParts DEF IInv
<1>1. UNCHANGED <<status, holder, runners, faults>> /\ edits < MaxEdits /\ edits' = edits + 1
  BY DEF Conflict, Relabel
<1>2. labels' \in [PullRequest -> SUBSET Label] /\ mergeable' \in [PullRequest -> BOOLEAN]
  BY <1>t DEF Conflict, Relabel, GithubOK
<1>3. GithubOK' /\ RunnersOK' /\ CountsOK'
  BY <1>t, <1>1, <1>2, ScanAssumption DEF GithubOK, RunnersOK, CountsOK, runners
<1>4. Taken' /\ FromTheFirst' /\ Known' /\ LeftNone'
  BY <1>1 DEF IInv, Taken, FromTheFirst, Known, LeftNone, Past, Wanted, First, Foremost,
     Prioritized, Viewed,
              ViewedStatus, Skipped, runners
<1> QED
  BY <1>3, <1>4, TypeParts DEF IInv

\* Nothing happens.
LEMMA StutterStep ==
    ASSUME IInv, UNCHANGED vars
    PROVE  IInv'
<1>1. TypeOK'
  BY TypeParts DEF IInv, GithubOK, RunnersOK, CountsOK, vars, github, runners, counts
<1>u. UNCHANGED <<status, runners>>
  BY DEF vars, github
<1>2. Taken' /\ FromTheFirst'
  BY <1>u DEF IInv, Taken, FromTheFirst, runners
<1>3. Known'
  BY <1>u DEF IInv, Known, ViewedStatus, runners
<1>4. \A r \in Runner, u \in Task : Past(r, u)' = Past(r, u) /\ Wanted(r, u)' = Wanted(r, u)
  BY <1>u DEF Past, Wanted, First, Foremost, Prioritized, Viewed, ViewedStatus, Skipped, runners
<1>5. LeftNone'
  BY <1>u, <1>4 DEF IInv, LeftNone, runners
<1> QED
  BY <1>1, <1>2, <1>3, <1>5 DEF IInv

-----------------------------------------------------------------------------
(* The theorems.                                                           *)

\* The invariant holds initially.
LEMMA InitInv == Init => IInv
<1> SUFFICES ASSUME Init PROVE IInv
  OBVIOUS
<1>1. 1 \in Job /\ Memory \in [Runner -> Nat] /\ MaxEdits \in Nat /\ MaxFaults \in Nat
  BY ScanAssumption DEF Job
<1>2. GithubOK /\ CountsOK
  BY <1>1 DEF Init, GithubOK, CountsOK, Status
<1>3. RunnersOK
  BY <1>1, NothingViewed DEF Init, RunnersOK
<1>4. Taken /\ FromTheFirst /\ LeftNone
  BY DEF Init, Taken, FromTheFirst, LeftNone, Scanning
<1>5. Known
  BY NothingViewed DEF Init, Known, ViewedStatus
<1> QED
  BY <1>2, <1>3, <1>4, <1>5, TypeParts DEF IInv

\* The invariant, for any pull requests and jobs.
THEOREM ScanInvariant == Spec => []IInv
<1>1. ASSUME IInv, [Next]_vars PROVE IInv'
  <2>1. ASSUME NEW r \in Runner, Step(r) PROVE IInv'
    BY <1>1, <2>1, StatusStep, CountsStep, RunnersStep, KnownStep, LeftNoneStep, TypeParts DEF
       IInv
  <2>2. ASSUME NEW p \in Edited, Conflict(p) \/ \E l \in Label \ {"needs rebase"} : Relabel(p, l)
        PROVE  IInv'
    BY <1>1, <2>2, PeopleStep, ScanAssumption
  <2>3. CASE UNCHANGED vars
    BY <1>1, <2>3, StutterStep
  <2> QED
    BY <1>1, <2>1, <2>2, <2>3 DEF Next
<1> QED
  BY InitInv, <1>1, PTL DEF Spec

\* Type correctness; a runner that executes nothing has all its resources.
THEOREM TypeCorrect == Spec => []TypeOK
<1>1. IInv => TypeOK
  BY DEF IInv
<1> QED
  BY ScanInvariant, <1>1, PTL

\* Who starts a job of an ordinary pull request has left none waiting in a prioritized one.
LEMMA LocksInOrder ==
    ASSUME IInv, NEW r \in Runner, NEW t \in Task, Lock(r, t), ~Viewed(r, t[1], "prioritized"),
           NEW u \in Task, Viewed(r, u[1], "prioritized"), ~Skipped(r, u[1]), Startable(r, u),
           ViewedStatus(r, u) = "unassigned"
    PROVE  status[u] # "unassigned"
<1>1. pc[r] = "job" /\ First(r, t[1])
  BY DEF Lock, AtTask, At
<1>2. Past(r, u)
  BY <1>1, PrioritizedFirst DEF Past
<1>3. Wanted(r, u)
  BY <1>1 DEF Startable, Fits, Wanted, IInv, TypeOK
<1> QED
  BY <1>1, <1>2, <1>3 DEF IInv, LeftNone, Scanning

\* Priority, for any number of pull requests and runners, and whatever people change.
THEOREM PriorityKept == Spec => PriorityRespected
<1> DEFINE A == \A r \in Runner, t \in Task :
                  Lock(r, t) /\ ~Viewed(r, t[1], "prioritized") =>
                    \A u \in Task :
                      Viewed(r, u[1], "prioritized") /\ ~Skipped(r, u[1]) /\ Startable(r, u)
                        => ~(ViewedStatus(r, u) = "unassigned" /\ status[u] = "unassigned")
<1>1. IInv /\ [Next]_vars => [A]_vars
  BY LocksInOrder
<1> QED
  BY ScanInvariant, <1>1, PTL DEF Spec, PriorityRespected

=============================================================================

---------------------------- MODULE AutomatedPR ----------------------------
(***************************************************************************)
(* open_close_pr: the pull requests that cron opens, for nightly runs      *)
(* (open_nightly_pr) and for new template boxes (open_template_pr).        *)
(*                                                                         *)
(* All the jobs work in one clone of the repository, one after the other,  *)
(* and each finds what the one before it has left there, on GitHub and on  *)
(* Vagrant cloud.  A git tree is two files: the configuration, a link to   *)
(* the definitions of the tests, and the definitions, which name a version *)
(* of the template.  The uploader in BoxCloud is the job Template.         *)
(***************************************************************************)
EXTENDS BoxCloud

CONSTANTS
    Nightly,      \* the nightly jobs, each with definitions (prci_config) of its own
    Template,     \* the job that builds the box
    MaxAttempts   \* create_pr: max_attempts

Job == Nightly \cup {Template}
Base == "base"    \* args.branch
Branch == Job \cup {Base}

Step == {"build", "building", "close", "checkout", "pull", "push_base", "newest", "bump",
         "branch", "unlink", "symlink", "add", "commit", "push", "create", "tidy"}

File == {"config", "defs"}
Gating == "gating"      \* the configuration that is not of a nightly job
Missing == "missing"    \* no file, in the working tree only
NoTree == [config |-> "none", defs |-> 0]
Tree == [config : Nightly \cup {Gating}, defs : Version]

ASSUME JobAssumption ==
    /\ Uploader = {Template}
    /\ Base \notin Job /\ Template \notin Nightly
    /\ Nightly \cap {Gating, Missing, NoTree.config} = {}
    /\ MaxAttempts \in Nat \ {0}

VARIABLES
    upstream,  \* the tree of the branch in freeipa/freeipa
    fork,      \* branch -> its tree in the fork, or NoTree
    opened,    \* job -> whether its pull request is open
    local,     \* branch -> its tree in the clone, or NoTree
    parent,    \* job -> the tree its branch in the clone started from
    head,      \* the branch that is checked out
    index,     \* the tree in the index
    worktree,  \* the files
    pc,        \* the step of the run, or how the last one ended
    job,       \* the job that runs
    attempts,  \* create_pr: attempts
    latestVer, \* open_template_pr: latest_ver
    orderly,   \* the clone was Orderly when this run started; history
    sound      \* and nothing has failed in it; history

github == <<upstream, fork, opened>>
clone == <<local, parent, head, index, worktree>>
run == <<pc, job, attempts, latestVer, orderly, sound>>
prVars == <<github, clone, run>>
vars == <<prVars, boxVars>>

TypeOK ==
    /\ BoxTypeOK
    /\ upstream \in Tree
    /\ fork \in [Branch -> Tree \cup {NoTree}]
    /\ opened \in [Job -> BOOLEAN]
    /\ \A j \in Job : opened[j] => fork[j] # NoTree
    /\ local \in [Branch -> Tree \cup {NoTree}]
    /\ local[Base] # NoTree
    /\ parent \in [Job -> Tree]
    /\ head \in Branch
    /\ local[head] # NoTree
    /\ index \in Tree
    /\ worktree \in [config : Nightly \cup {Gating, Missing}, defs : Version]
    /\ pc \in Step \cup Ended
    /\ pc = "building" <=> upc[Template] \notin Ended
    /\ job \in Job
    /\ attempts \in 0 .. MaxAttempts - 1
    /\ latestVer \in Version
    /\ orderly \in BOOLEAN
    /\ sound \in BOOLEAN

Start == [config |-> Gating, defs |-> 0]

Init ==
    /\ BoxInit
    /\ upstream = Start
    /\ fork = [b \in Branch |-> IF b = Base THEN Start ELSE NoTree]
    /\ opened = [j \in Job |-> FALSE]
    /\ local = fork
    /\ parent = [j \in Job |-> Start]
    /\ head = Base /\ index = Start /\ worktree = Start
    /\ pc = "idle"
    /\ job = Template
    /\ attempts = 0
    /\ latestVer = 0
    /\ orderly = TRUE
    /\ sound = TRUE

-----------------------------------------------------------------------------
(* The run and its failures.                                               *)

Goto(p) == pc' = p /\ UNCHANGED <<job, attempts, latestVer, orderly, sound>>

\* An exception that nobody catches.
Raises == Goto("failed") /\ UNCHANGED boxCounts

\* A call or a command fails, and the run with it.
Fails ==
    /\ Fault
    /\ pc' = "failed"
    /\ sound' = FALSE
    /\ UNCHANGED <<job, attempts, latestVer, orderly>>

\* A call with this effect: the run goes on to next, or the call fails after it has
\* had its effect or before.
Call(next, effect, nothing) ==
    \/ effect /\ Goto(next) /\ UNCHANGED boxCounts
    \/ (effect \/ nothing) /\ Fails

\* Every change in the clone is in a commit, but for another link in place of the one
\* that the base branch has too.
Orderly ==
    /\ index = local[head]
    /\ worktree.defs = index.defs
    /\ \/ worktree.config = index.config
       \/ worktree.config # Missing /\ index.config = local[Base].config

\* Cron starts job j.
StartJob(j) ==
    /\ pc \in Ended
    /\ j = Template => uploads < MaxUploads
    /\ pc' = IF j = Template THEN "build" ELSE "close"
    /\ job' = j
    /\ attempts' = 0
    /\ orderly' = Orderly
    /\ sound' = Orderly
    /\ UNCHANGED <<github, clone, latestVer, boxVars>>

\* The machine goes down; box_uploader has KillUpload.
Stop ==
    /\ pc \notin Ended \cup {"building"}
    /\ Fails
    /\ UNCHANGED <<github, clone, cloud, uploaders, host>>

-----------------------------------------------------------------------------
(* build_new_template.                                                     *)

Build ==
    /\ pc = "build"
    /\ \/ StartUpload(Template) /\ Goto("building")
       \/ Fails /\ UNCHANGED <<cloud, uploaders, host>>
    /\ UNCHANGED <<github, clone>>

\* Mutant: the run goes on after a playbook that failed.
BuildingGoesOn ==
    /\ pc = "building"
    /\ UploadNext(Template)
    /\ pc' = IF upc'[Template] \in Ended THEN "close" ELSE "building"
    /\ sound' = (sound /\ clean'[Template])
    /\ UNCHANGED <<github, clone, job, attempts, latestVer, orderly>>

\* The playbook runs box_uploader.  If that fails the handler of CalledProcessError
\* raises UnboundLocalError, which ends the run.
Building ==
    /\ pc = "building"
    /\ UploadNext(Template)
    /\ pc' = CASE upc'[Template] = "succeeded" -> "close"
               [] upc'[Template] = "failed"    -> "failed"
               [] OTHER                        -> "building"
    /\ sound' = (sound /\ clean'[Template])
    /\ UNCHANGED <<github, clone, job, attempts, latestVer, orderly>>

-----------------------------------------------------------------------------
(* git.                                                                    *)

\* git lets go of no change that is not committed: a file that differs between the
\* trees must be as in the old one, or already as in the new one in the index.
CanSwitch(old, new) ==
    \A f \in File :
        \/ old[f] = new[f]
        \/ index[f] = new[f]
        \/ index[f] = old[f] /\ worktree[f] = old[f]

Carried(files, old, new) ==
    [f \in File |-> IF old[f] = new[f] \/ index[f] = new[f] THEN files[f] ELSE new[f]]

Switch(old, new) ==
    /\ CanSwitch(old, new)
    /\ index' = Carried(index, old, new)
    /\ worktree' = Carried(worktree, old, new)

\* git checkout of the base branch.
Checkout ==
    /\ Switch(local[head], local[Base])
    /\ head' = Base

-----------------------------------------------------------------------------
(* close_older_pr and rebase_branch.                                       *)

\* GitHub closes a pull request when its branch is deleted.
CloseOlderPR ==
    /\ pc = "close"
    /\ Call("checkout",
            /\ fork' = [fork EXCEPT ![job] = NoTree]
            /\ opened' = [opened EXCEPT ![job] = FALSE],
            UNCHANGED <<fork, opened>>)
    /\ UNCHANGED <<upstream, clone, cloud, uploaders, host>>

\* git fetch and git checkout.
FetchAndCheckout ==
    /\ pc = "checkout"
    /\ \/ Call("pull", Checkout, UNCHANGED <<head, index, worktree>>)
       \/ /\ ~CanSwitch(local[head], local[Base])
          /\ Raises
          /\ UNCHANGED <<head, index, worktree>>
    /\ UNCHANGED <<github, local, parent, cloud, uploaders, host>>

\* git pull, always a fast forward.
Pull ==
    /\ pc = "pull"
    /\ \/ Call("push_base",
               /\ Switch(local[Base], upstream)
               /\ local' = [local EXCEPT ![Base] = upstream],
               UNCHANGED <<local, index, worktree>>)
       \/ /\ ~CanSwitch(local[Base], upstream)
          /\ Raises
          /\ UNCHANGED <<local, index, worktree>>
    /\ UNCHANGED <<github, parent, head, cloud, uploaders, host>>

PushBase ==
    /\ pc = "push_base"
    /\ Call(IF job = Template THEN "newest" ELSE "branch",
            fork' = [fork EXCEPT ![Base] = local[Base]],
            UNCHANGED fork)
    /\ UNCHANGED <<upstream, opened, clone, cloud, uploaders, host>>

-----------------------------------------------------------------------------
(* The commit.                                                             *)

\* get_newest_templ_ver: current_version is the greatest version that is released.
GetNewestTemplVer ==
    /\ pc = "newest"
    /\ \/ /\ Active # {}
          /\ latestVer' = Max(Active)
          /\ pc' = "bump"
          /\ UNCHANGED <<job, attempts, orderly, sound, boxCounts>>
       \/ Active = {} /\ Raises
       \/ Fails
    /\ UNCHANGED <<github, clone, cloud, uploaders, host>>

\* A file of definitions that names no template ends the run with a TypeError,
\* before or after the others were written.
BumpPrciVersion ==
    /\ pc = "bump"
    /\ Call("branch", worktree' = [worktree EXCEPT !.defs = latestVer], UNCHANGED worktree)
    /\ UNCHANGED <<github, local, parent, head, index, cloud, uploaders, host>>

\* Mutant: the branch of an earlier run is not deleted.
NewBranchOnly ==
    /\ pc = "branch"
    /\ \/ /\ local[job] = NoTree
          /\ local' = [local EXCEPT ![job] = local[Base]]
          /\ parent' = [parent EXCEPT ![job] = local[Base]]
          /\ head' = job
          /\ Goto(IF job = Template THEN "add" ELSE "unlink")
          /\ UNCHANGED boxCounts
       \/ local[job] # NoTree /\ Raises /\ UNCHANGED <<local, parent, head>>
    /\ UNCHANGED <<github, index, worktree, cloud, uploaders, host>>

\* delete_local_branch, with the base branch checked out, and git checkout -b.
NewBranch ==
    /\ pc = "branch"
    /\ local' = [local EXCEPT ![job] = local[Base]]
    /\ parent' = [parent EXCEPT ![job] = local[Base]]
    /\ head' = job
    /\ Goto(IF job = Template THEN "add" ELSE "unlink")
    /\ UNCHANGED <<github, index, worktree, boxVars>>

\* os.unlink raises FileNotFoundError if there is no file.
Unlink ==
    /\ pc = "unlink"
    /\ \/ /\ worktree.config # Missing
          /\ worktree' = [worktree EXCEPT !.config = Missing]
          /\ Goto("symlink")
          /\ UNCHANGED boxCounts
       \/ worktree.config = Missing /\ Raises /\ UNCHANGED worktree
    /\ UNCHANGED <<github, local, parent, head, index, cloud, uploaders, host>>

Symlink ==
    /\ pc = "symlink"
    /\ worktree' = [worktree EXCEPT !.config = job]
    /\ Goto("add")
    /\ UNCHANGED <<github, local, parent, head, index, boxVars>>

\* The file that a run of the job changes.
Changes == IF job = Template THEN "defs" ELSE "config"

\* Mutant: git add -A.
AddAll ==
    /\ pc = "add"
    /\ index' = worktree
    /\ Goto("commit")
    /\ UNCHANGED <<github, local, parent, head, worktree, boxVars>>

Add ==
    /\ pc = "add"
    /\ index' = [index EXCEPT ![Changes] = worktree[Changes]]
    /\ Goto("commit")
    /\ UNCHANGED <<github, local, parent, head, worktree, boxVars>>

\* git commit fails when there is nothing to commit.
Commit ==
    /\ pc = "commit"
    /\ \/ /\ index # local[head]
          /\ local' = [local EXCEPT ![head] = index]
          /\ Goto("push")
          /\ UNCHANGED boxCounts
       \/ index = local[head] /\ Raises /\ UNCHANGED local
    /\ UNCHANGED <<github, parent, head, index, worktree, cloud, uploaders, host>>

\* git push is refused if the branch is there with another commit.
Push ==
    /\ pc = "push"
    /\ \/ Call("create",
               /\ fork[job] = NoTree
               /\ fork' = [fork EXCEPT ![job] = local[job]],
               UNCHANGED fork)
       \/ fork[job] # NoTree /\ Raises /\ UNCHANGED fork
    /\ UNCHANGED <<upstream, opened, clone, cloud, uploaders, host>>

-----------------------------------------------------------------------------
(* create_pr and the end of the run.                                       *)

\* Mutant: one attempt more.
NextAttemptOnceMore ==
    /\ IF attempts < MaxAttempts
         THEN attempts' = attempts + 1 /\ pc' = "create"
         ELSE pc' = "failed" /\ UNCHANGED attempts
    /\ UNCHANGED <<job, latestVer, orderly>>

\* After the last attempt the return of pr raises UnboundLocalError.
NextAttempt ==
    /\ IF attempts + 1 < MaxAttempts
         THEN attempts' = attempts + 1 /\ pc' = "create"
         ELSE pc' = "failed" /\ UNCHANGED attempts
    /\ UNCHANGED <<job, latestVer, orderly>>

OpenPR == opened' = [opened EXCEPT ![job] = TRUE]

\* A GitHubError is tried again, be it that an earlier call has opened the pull
\* request and its answer was lost; other exceptions end the run.
CreatePR ==
    /\ pc = "create"
    /\ \/ ~opened[job] /\ OpenPR /\ Goto("tidy") /\ UNCHANGED boxCounts
       \/ opened[job] /\ NextAttempt /\ UNCHANGED <<opened, sound, boxCounts>>
       \/ /\ OpenPR \/ UNCHANGED opened
          /\ \/ NextAttempt /\ Fault /\ sound' = FALSE
             \/ Fails
    /\ UNCHANGED <<upstream, fork, clone, cloud, uploaders, host>>

\* delete_local_branch.  The review that is asked for then, and the AttributeError of
\* a job without --reviewer, change nothing here.
DeleteLocalBranch ==
    /\ pc = "tidy"
    /\ \/ /\ Checkout
          /\ local' = [local EXCEPT ![job] = NoTree]
          /\ Goto("succeeded")
          /\ UNCHANGED boxCounts
       \/ /\ ~CanSwitch(local[head], local[Base])
          /\ Raises
          /\ UNCHANGED <<local, head, index, worktree>>
    /\ UNCHANGED <<github, parent, cloud, uploaders, host>>

-----------------------------------------------------------------------------
(* People, upstream.                                                       *)

\* The pull request of the template is merged, if it has no conflict and a reviewer finds
\* nothing but a change of the definitions.
Merge ==
    /\ opened[Template]
    /\ upstream = parent[Template]
    /\ fork[Template].config = upstream.config
    /\ upstream' = fork[Template]
    /\ opened' = [opened EXCEPT ![Template] = FALSE]
    /\ UNCHANGED <<fork, clone, run, boxVars>>

\* Somebody else names a newer version.
BumpByHand ==
    /\ \E v \in Active : v > upstream.defs /\ upstream' = [upstream EXCEPT !.defs = v]
    /\ UNCHANGED <<fork, opened, clone, run, boxVars>>

RunNext ==
    \/ \E j \in Job : StartJob(j)
    \/ Stop \/ Build \/ Building
    \/ CloseOlderPR \/ FetchAndCheckout \/ Pull \/ PushBase
    \/ GetNewestTemplVer \/ BumpPrciVersion
    \/ NewBranch \/ Unlink \/ Symlink \/ Add \/ Commit \/ Push
    \/ CreatePR \/ DeleteLocalBranch

Next == RunNext \/ Merge \/ BumpByHand

Spec == Init /\ [][Next]_vars

-----------------------------------------------------------------------------
(* Properties.                                                             *)

\* A pull request changes what its job is for and nothing else, whatever earlier runs
\* have left in an orderly clone: the link to the definitions of its own nightly run, or
\* the version of the template to one that is released.
OwnChange ==
    [][\A j \in Job : ~opened[j] /\ opened'[j] /\ orderly =>
         IF j = Template
           THEN fork[j].config = parent[j].config /\ fork[j].defs \in Active
           ELSE fork[j] = [parent[j] EXCEPT !.config = j]]_vars

\* A run in which nothing fails opens its pull request, or finds its version upstream: no
\* branch, link or pull request that an earlier run has left where it failed or was stopped
\* makes a git command or a call fail, if it has left the clone orderly.
SoundRunOpens ==
    [][pc \notin Ended /\ pc' \in Ended /\ sound' =>
         \/ pc' = "succeeded"
         \/ job = Template /\ local[Base].defs = latestVer]_vars

\* The tool does not close a bump that nobody has merged before there is a newer version
\* for the next one to name (open_template_pr builds first).
BumpOutlivesFailedBuilds ==
    [][opened[Template] /\ fork'[Template] = NoTree =>
         \E v \in Active : v > fork[Template].defs]_vars
=============================================================================

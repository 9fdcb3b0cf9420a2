-------------------------- MODULE ClaimRefinement --------------------------
(***************************************************************************)
(* The statuses on the head and the runners' program counters, read as a   *)
(* ledger: TaskClaim implements TaskLedger.                                *)
(***************************************************************************)
EXTENDS TaskClaim

Standing(s) ==
    CASE Missing(s)   -> "missing"
      [] Available(s) -> "open"
      [] Claimed(s)   -> "held"
      [] Succeeded(s) -> "passed"
      [] Failed(s)    -> "failed"

\* Runner r has posted a claim on job t of the head and not left it.
WorkingOn(r, t) == pc[r] \in Claiming /\ at[r] = t /\ view[r].commit = head

LedgerJob == [t \in Task |-> Standing(status[head][t])]
LedgerHolder == [t \in Task |-> status[head][t].by]
LedgerWorkers == [t \in Task |-> {r \in Runner : WorkingOn(r, t)}]

Claims == INSTANCE TaskLedger
            WITH job <- LedgerJob, holder <- LedgerHolder, workers <- LedgerWorkers,
                 faults <- disruptions, Orderly <- FALSE

Ledger == INSTANCE TaskLedger
            WITH job <- LedgerJob, holder <- LedgerHolder, workers <- LedgerWorkers,
                 faults <- disruptions, Orderly <- TRUE

\* However slow the runners and whatever else happens, a runner walks away from
\* the claim it has posted (Task.lock, Task.execute) only when another status has
\* replaced it, or by a fault.
KeepsClaims == Claims!Spec

\* Prompt runners keep an orderly ledger, whatever faults there are: only the
\* runner that the claim names reports, results stay, dependencies have passed
\* before a job is claimed, and a claim is offered again only when its runner is
\* gone.  The order of a job ends when set_rerun, by a snapshot that is out of
\* date, or the operator offers it under the runner that is at work on it.
KeepsLedger == Ledger!Spec
=============================================================================

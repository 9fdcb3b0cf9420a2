----------------------------- MODULE TaskLedger -----------------------------
(***************************************************************************)
(* What the runners promise together, without calls, snapshots or clocks:  *)
(* a ledger of the jobs of a pull request's last commit.                   *)
(*                                                                         *)
(* A job is open, or held by the runner its claim names, or it has passed  *)
(* or failed.  A runner that works on a job may lose the claim to another  *)
(* one, and only then may it walk away; a runner that vanishes with the    *)
(* claim does so by a fault.  In an orderly ledger, besides, only the      *)
(* holder reports, results stay, nobody starts a job before those it       *)
(* requires have passed, and a job is opened again only when it is         *)
(* abandoned or has failed: until a job is opened under its holder.  Then  *)
(* it is disputed, and nothing more is promised of it.                     *)
(***************************************************************************)
EXTENDS Naturals

CONSTANTS Task, Runner, NoRunner, Requires,
          Orderly       \* whether what is said last above is promised

VARIABLES
    job,        \* job -> where it stands
    holder,     \* job -> the runner its claim names
    workers,    \* job -> the runners at work on it, the holder among them
    disputed,   \* the jobs of which nothing more is promised
    faults      \* the number of faults so far

vars == <<job, holder, workers, disputed, faults>>

Standing == {"missing", "open", "held", "passed", "failed"}

Init ==
    /\ job = [t \in Task |-> "missing"]
    /\ holder = [t \in Task |-> NoRunner]
    /\ workers = [t \in Task |-> {}]
    /\ disputed = {}
    /\ faults = 0

\* Order is promised of job t.
Ordered(t) == Orderly /\ t \notin disputed

\* The holder of job t is gone.
Abandoned(t) == job[t] = "held" /\ holder[t] \notin workers[t]

\* Job t is offered, for the first time or again, by a runner or the operator.
Offer(t) ==
    /\ Ordered(t) => job[t] \in {"missing", "open", "failed"} \/ Abandoned(t)
    /\ job' = [job EXCEPT ![t] = "open"]
    /\ holder' = [holder EXCEPT ![t] = NoRunner]
    /\ faults' \in {faults, faults + 1}
    /\ UNCHANGED <<workers, disputed>>

\* Job t is offered under its holder, or by the operator although it has passed.
Overrule(t) ==
    /\ Ordered(t) => job[t] = "held" \/ faults' = faults + 1
    /\ job' = [job EXCEPT ![t] = "open"]
    /\ holder' = [holder EXCEPT ![t] = NoRunner]
    /\ disputed' = disputed \cup {t}
    /\ faults' \in {faults, faults + 1}
    /\ UNCHANGED workers

\* Job t is about to be offered under its holder.
Dispute(t) ==
    /\ Ordered(t) => job[t] = "held"
    /\ disputed' = disputed \cup {t}
    /\ UNCHANGED <<job, holder, workers, faults>>

\* Runner r claims job t, or claims it again in another form.
Hold(r, t) ==
    /\ Ordered(t) => job[t] \in {"open", "held"}
    /\ Orderly => \A d \in Requires[t] : job[d] = "passed" \/ d \in disputed
    /\ job' = [job EXCEPT ![t] = "held"]
    /\ holder' = [holder EXCEPT ![t] = r]
    /\ workers' = [workers EXCEPT ![t] = @ \cup {r}]
    /\ UNCHANGED <<disputed, faults>>

\* Runner r reports on job t and is done with it.
Report(r, t) ==
    /\ r \in workers[t]
    /\ Ordered(t) => job[t] = "held" /\ holder[t] = r
    /\ \E result \in {"passed", "failed"} : job' = [job EXCEPT ![t] = result]
    /\ holder' = [holder EXCEPT ![t] = NoRunner]
    /\ workers' = [workers EXCEPT ![t] = @ \ {r}]
    /\ UNCHANGED <<disputed, faults>>

\* A definition that makes no job is marked as failed.
Reject(t) ==
    /\ Ordered(t) => job[t] \in {"missing", "open", "failed"}
    /\ job' = [job EXCEPT ![t] = "failed"]
    /\ holder' = [holder EXCEPT ![t] = NoRunner]
    /\ UNCHANGED <<workers, disputed, faults>>

\* Runner r leaves job t to whoever has replaced its claim.
Leave(r, t) ==
    /\ r \in workers[t]
    /\ holder[t] # r
    /\ workers' = [workers EXCEPT ![t] = @ \ {r}]
    /\ UNCHANGED <<job, holder, disputed, faults>>

\* A fault takes a runner away from its job, or the order from a job.
Fault ==
    /\ faults' = faults + 1
    /\ \/ UNCHANGED <<workers, disputed>>
       \/ /\ \E r \in Runner, t \in Task : workers' = [workers EXCEPT ![t] = @ \ {r}]
          /\ UNCHANGED disputed
       \/ /\ \E t \in Task : disputed' = disputed \cup {t}
          /\ UNCHANGED workers
    /\ UNCHANGED <<job, holder>>

\* A new commit: a new ledger.
Renew ==
    /\ job' = [t \in Task |-> "missing"]
    /\ holder' = [t \in Task |-> NoRunner]
    /\ workers' = [t \in Task |-> {}]
    /\ disputed' = {}
    /\ UNCHANGED faults

Next ==
    \/ \E t \in Task : Offer(t) \/ Reject(t) \/ Dispute(t) \/ Overrule(t)
    \/ \E r \in Runner, t \in Task : Hold(r, t) \/ Report(r, t) \/ Leave(r, t)
    \/ Fault
    \/ Renew

Spec == Init /\ [][Next]_vars
=============================================================================

---------------------------- MODULE CommitStatus ----------------------------
(***************************************************************************)
(* The commit status of one job: the only thing the runners share.        *)
(*                                                                         *)
(* GitHub keeps, per commit and per context (the job's name), the last     *)
(* status posted.  entities.Status reads everything it knows out of the    *)
(* status' state and description, so a status is abstracted to its kind,   *)
(* the runner its description names, and the time since the date in it.    *)
(* Two descriptions are equal when kind and runner are.                    *)
(***************************************************************************)
EXTENDS Naturals

CONSTANTS
    Runner,        \* the runners' ids
    NoRunner,      \* the author of a status that names no runner
    LockTimeout,   \* how long a lock may stand: 60 s in the code
    ExtraTime,     \* STALE_TASK_EXTRA_TIME: 240 s in the code
    AgeCap         \* ages are not told apart above this bound

ASSUME StatusAssumption ==
    /\ NoRunner \notin Runner
    /\ LockTimeout \in Nat
    /\ ExtraTime \in Nat
    /\ AgeCap \in Nat

Kind == {"none", "unassigned", "rerun", "locked", "taken",
         "success", "failure", "error"}

Status == [kind : Kind, by : Runner \cup {NoRunner}, age : 0 .. AgeCap]

\* A context that was never posted on the commit.
NoStatus == [kind |-> "none", by |-> NoRunner, age |-> 0]

Anonymous(kind) == [kind |-> kind, by |-> NoRunner, age |-> 0]
Claim(kind, r) == [kind |-> kind, by |-> r, age |-> 0]

Missing(s)    == s.kind = "none"
Succeeded(s)  == s.kind = "success"
Failed(s)     == s.kind \in {"failure", "error"}
Taken(s)      == s.kind = "taken"
Locked(s)     == s.kind = "locked"
Claimed(s)    == Taken(s) \/ Locked(s)
Available(s)  == s.kind \in {"unassigned", "rerun"}
Processing(s) == Available(s) \/ Claimed(s)

SameDescription(s, kind, r) == s.kind = kind /\ s.by = r

\* Mutant: the extra time is forgotten.
StalledAtTimeout(s, timeout) ==
    \/ Taken(s) /\ timeout > 0 /\ s.age >= timeout
    \/ Locked(s) /\ s.age >= LockTimeout

\* Mutant: only a taken job can be stale.
StalledTakenOnly(s, timeout) ==
    Taken(s) /\ timeout > 0 /\ s.age >= timeout + ExtraTime

\* A job that sets timeout: 0 is never stale.  Only a claim carries a date.
Stalled(s, timeout) ==
    \/ Taken(s) /\ timeout > 0 /\ s.age >= timeout + ExtraTime
    \/ Locked(s) /\ s.age >= LockTimeout + ExtraTime

\* The same status one tick later.
Older(s) == IF Claimed(s) /\ s.age < AgeCap THEN [s EXCEPT !.age = @ + 1] ELSE s
=============================================================================

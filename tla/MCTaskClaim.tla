---------------------------- MODULE MCTaskClaim ----------------------------
(* Instances of TaskClaim for TLC: a build job and a test that requires it. *)
EXTENDS ClaimRefinement, TLC

CONSTANTS r1, r2, r3

TestRequiresBuild == [t \in Task |-> IF t = 1 THEN {} ELSE {1}]
Independent == [t \in Task |-> {}]
\* Two jobs to begin with, and one that requires the first.
LastRequiresFirst == [t \in Task |-> IF t = N THEN {1} ELSE {}]
LongerLater == [t \in Task |-> IF t = 1 THEN 1 ELSE 2]
ShortTimeouts == [t \in Task |-> 1]
NoTimeouts == [t \in Task |-> 0]
AllFit == [r \in Runner |-> Task]

SecondFitsAll == [r \in Runner |-> IF r = r1 THEN {2} ELSE Task]
Interchangeable == Permutations(Runner)
=============================================================================

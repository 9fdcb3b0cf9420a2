------------------------- MODULE MCPullRequestScan -------------------------
(* Instances of PullRequestScan for TLC. *)
EXTENDS PullRequestScan, TLC

CONSTANTS r1, r2

Independent == [n \in Job |-> {}]
OneEach == [n \in Job |-> 1]
OneFits == [r \in Runner |-> 1]
Mixed == <<"unreadable", "good", "good", "incomplete">>
=============================================================================

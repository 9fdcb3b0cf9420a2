----------------------- MODULE ClaimRefinementProofs -----------------------
(***************************************************************************)
(* TaskClaim implements TaskLedger, for any runners, jobs, timers, pushes  *)
(* and faults: no runner walks away from a claim that stands.              *)
(*                                                                         *)
(* Every step of TaskClaim is of one of a few kinds, and it is the kind    *)
(* that matters to the ledger.                                             *)
(***************************************************************************)
EXTENDS ClaimRefinement, TaskClaimProofs

-----------------------------------------------------------------------------
(* The kinds of steps.                                                     *)

Mine(r) == <<r, view[r].commit, at[r]>>

\* Runner r does something that no claim or status is concerned with.  It may have
\* resolved to offer a job that is not free.
Quiet(r) ==
    /\ OthersStay(r) /\ UNCHANGED <<head, status, lost>>
    /\ pc[r] \notin Claiming /\ pc'[r] \notin Claiming
    /\ \/ UNCHANGED <<disputed, disruptions>>
       \/ /\ pc[r] = "rerun_poll" /\ at[r] \in Task
          /\ disputed' = Contested(r) /\ UNCHANGED disruptions
       \/ /\ pc[r] = "unassign_poll" /\ at[r] \in Task
          /\ disputed' \in {disputed, disputed \cup {at[r]}}
          /\ disruptions' = disruptions + 1

\* Runner r goes on with the job that it has claimed.
GoesOn(r) ==
    /\ OthersStay(r) /\ UNCHANGED <<head, status, lost, disputed, disruptions>>
    /\ pc[r] \in Claiming /\ pc'[r] \in Claiming
    /\ view'[r] = view[r] /\ at'[r] = at[r]

\* Runner r does not find its claim any more.
Leaves(r) ==
    /\ OthersStay(r) /\ UNCHANGED <<head, status, lost, disputed, disruptions>>
    /\ pc'[r] \notin Claiming
    /\ \/ pc[r] = "lock_verify" /\ ~SameDescription(Polled(r), "locked", r)
       \/ pc[r] = "report_poll" /\ ~SameDescription(Polled(r), "taken", r)

\* Runner r posts a status on a job that it has no claim on.
Marks(r, kind) ==
    /\ OthersStay(r) /\ UNCHANGED <<head, lost, disruptions>>
    /\ pc[r] \notin Claiming /\ pc'[r] \notin Claiming
    /\ at[r] \in Task
    /\ \/ kind = "unassigned" /\ pc[r] = "unassign_write" /\ UNCHANGED disputed
       \/ kind = "rerun" /\ pc[r] = "rerun_write" /\ disputed' = Contested(r)
       \/ kind = "error" /\ at[r] \in Malformed /\ UNCHANGED disputed
    /\ Post(r, Anonymous(kind))

\* Runner r posts a claim.
Holds(r, kind) ==
    /\ OthersStay(r) /\ UNCHANGED <<head, disputed, disruptions>>
    /\ pc'[r] \in Claiming /\ view'[r] = view[r] /\ at'[r] = at[r]
    /\ at[r] \in Task
    /\ \/ kind = "locked" /\ pc[r] = "lock_write" /\ lost' = lost \ {Mine(r)}
       \/ kind = "taken" /\ pc[r] = "lock_take" /\ UNCHANGED lost
    /\ Post(r, Claim(kind, r))

\* Runner r posts the result.
Reports(r, outcome) ==
    /\ OthersStay(r) /\ UNCHANGED <<head, lost, disputed, disruptions>>
    /\ pc[r] = "report_write" /\ pc'[r] \notin Claiming
    /\ outcome \in {"success", "failure", "error"}
    /\ Post(r, Anonymous(outcome))

\* A fault takes runner r away from whatever it was at.
Drops(r) ==
    /\ OthersStay(r) /\ UNCHANGED <<head, status, disputed>>
    /\ pc'[r] \notin Claiming
    /\ Orphan(r)
    /\ disruptions' = disruptions + 1

StepOf(r) ==
    \/ Quiet(r) \/ GoesOn(r) \/ Leaves(r) \/ Drops(r)
    \/ \E kind \in Kind : Marks(r, kind) \/ Holds(r, kind) \/ Reports(r, kind)

\* Every step of a runner is of one of these kinds.
LEMMA StepKinds ==
    ASSUME TypeOK, NEW r \in Runner, Step(r) \/ Fault(r)
    PROVE  StepOf(r)
<1> USE DEF github, runners, history, past
<1>t. TypeOK
  OBVIOUS
<1>n. disruptions \in Nat /\ {"unassigned", "rerun", "error", "locked", "taken"} \subseteq Kind
  BY <1>t DEF TypeOK, Kind
<1>1. CASE Query(r)
  BY <1>1, <1>t DEF Query, Awake, Goto, TypeOK, Claiming, OthersStay, Quiet, StepOf
<1>2. CASE RemoveRerunLabel(r)
  BY <1>2, <1>t DEF RemoveRerunLabel, Awake, Goto, TypeOK, Claiming, OthersStay, Quiet, StepOf
<1>3. CASE EndScan(r)
  BY <1>3, <1>t
     DEF EndScan, Awake, SleepThen, Goto, TypeOK, Claiming, OthersStay, Quiet, StepOf
<1>4. CASE CreateErrorStatus(r)
  <2>1. Marks(r, "error")
    BY <1>4, <1>t, TaskAssumption
       DEF CreateErrorStatus, Awake, NextTask, Goto, TypeOK, Claiming, OthersStay, Marks
  <2> QED
    BY <2>1, <1>n DEF StepOf
<1>5. CASE StalledRaises(r)
  BY <1>5, <1>t
     DEF StalledRaises, Considers, Awake, Die, SleepThen, Goto, TypeOK, Claiming,
         OthersStay, Quiet, StepOf
<1>6. CASE Skip(r)
  BY <1>6, <1>t
     DEF Skip, Considers, Awake, NextTask, Goto, TypeOK, Claiming, OthersStay, Quiet, StepOf
<1>7. CASE SetUnassigned(r)
  BY <1>7, <1>t
     DEF SetUnassigned, Considers, Awake, SleepThen, Goto, TypeOK, Claiming, OthersStay,
         Quiet, StepOf
<1>8. CASE SetUnassignedPoll(r)
  BY <1>8, <1>t
     DEF SetUnassignedPoll, Disrupt, Awake, NextTask, Goto, TypeOK, Claiming, OthersStay,
         Quiet, StepOf
<1>9. CASE SetUnassignedWrite(r)
  <2>1. Marks(r, "unassigned")
    BY <1>9, <1>t
       DEF SetUnassignedWrite, Awake, NextTaskAfterOffer, Goto, TypeOK, Claiming, OthersStay, Marks
  <2> QED
    BY <2>1, <1>n DEF StepOf
<1>10. CASE SetRerun(r)
  BY <1>10, <1>t
     DEF SetRerun, Considers, Awake, Goto, TypeOK, Claiming, OthersStay, Quiet, StepOf
<1>11. CASE SetRerunPoll(r)
  BY <1>11, <1>t
     DEF SetRerunPoll, Awake, NextTask, Goto, TypeOK, Claiming, OthersStay, Quiet, StepOf
<1>12. CASE SetRerunWrite(r)
  <2>1. Marks(r, "rerun")
    BY <1>12, <1>t
       DEF SetRerunWrite, Awake, NextTaskAfterOffer, Goto, TypeOK, Claiming, OthersStay, Marks
  <2> QED
    BY <2>1, <1>n DEF StepOf
<1>13. CASE Lock(r)
  BY <1>13, <1>t
     DEF Lock, Considers, Awake, SleepThen, Goto, TypeOK, Claiming, OthersStay, Quiet, StepOf
<1>14. CASE LockPoll(r)
  BY <1>14, <1>t
     DEF LockPoll, Awake, NextTask, Goto, TypeOK, Claiming, OthersStay, Quiet, StepOf
<1>15. CASE LockWrite(r)
  <2>1. Holds(r, "locked")
    BY <1>15, <1>t
       DEF LockWrite, Awake, SleepThen, Goto, TypeOK, Claiming, OthersStay, Holds, Mine
  <2> QED
    BY <2>1, <1>n DEF StepOf
<1>16. CASE LockVerify(r)
  <2>1. CASE SameDescription(Polled(r), "locked", r)
    <3>1. GoesOn(r)
      BY <1>16, <2>1, <1>t DEF LockVerify, Awake, Goto, TypeOK, Claiming, OthersStay, GoesOn
    <3> QED
      BY <3>1 DEF StepOf
  <2>2. CASE ~SameDescription(Polled(r), "locked", r)
    <3>1. Leaves(r)
      BY <1>16, <2>2, <1>t
         DEF LockVerify, Awake, NextTask, Goto, TypeOK, Claiming, OthersStay, Leaves
    <3> QED
      BY <3>1 DEF StepOf
  <2> QED
    BY <2>1, <2>2
<1>17. CASE LockTake(r)
  <2>1. Holds(r, "taken")
    BY <1>17, <1>t DEF LockTake, Awake, Goto, TypeOK, Claiming, OthersStay, Holds
  <2> QED
    BY <2>1, <1>n DEF StepOf
<1>18. CASE ExecuteCheckout(r)
  <2>1. GoesOn(r)
    BY <1>18, <1>t
       DEF ExecuteCheckout, Awake, SleepThen, Goto, TypeOK, Claiming, OthersStay, GoesOn
  <2> QED
    BY <2>1 DEF StepOf
<1>19. CASE ExecuteFinish(r)
  <2>1. GoesOn(r)
    BY <1>19, <1>t
       DEF ExecuteFinish, Awake, SleepThen, Goto, TypeOK, Claiming, OthersStay, GoesOn
  <2> QED
    BY <2>1 DEF StepOf
<1>20. CASE ExecutePoll(r)
  <2>1. CASE SameDescription(Polled(r), "taken", r)
    <3>1. GoesOn(r)
      BY <1>20, <2>1, <1>t DEF ExecutePoll, Awake, Goto, TypeOK, Claiming, OthersStay, GoesOn
    <3> QED
      BY <3>1 DEF StepOf
  <2>2. CASE ~SameDescription(Polled(r), "taken", r)
    <3>1. Leaves(r)
      BY <1>20, <2>2, <1>t
         DEF ExecutePoll, Awake, NextTask, Goto, TypeOK, Claiming, OthersStay, Leaves
    <3> QED
      BY <3>1 DEF StepOf
  <2> QED
    BY <2>1, <2>2
<1>21. CASE ExecuteWrite(r)
  <2>1. PICK outcome \in Outcomes : Post(r, Anonymous(outcome))
    BY <1>21 DEF ExecuteWrite
  <2>2. outcome \in {"success", "failure", "error"} /\ outcome \in Kind
    BY TaskAssumption DEF Kind
  <2>3. Reports(r, outcome)
    BY <1>21, <2>1, <2>2, <1>t
       DEF ExecuteWrite, Awake, NextTask, Goto, TypeOK, Claiming, OthersStay, Reports
  <2> QED
    BY <2>2, <2>3 DEF StepOf
<1>22. CASE Restart(r)
  BY <1>22, <1>t DEF Restart, Awake, Goto, TypeOK, Claiming, OthersStay, Quiet, StepOf
<1>23. CASE Crash(r)
  BY <1>23, <1>t
     DEF Crash, Disrupt, Die, SleepThen, Goto, TypeOK, Claiming, OthersStay, Drops, StepOf
<1>24. CASE PollFails(r)
  BY <1>24, <1>t
     DEF PollFails, Disrupt, NextTask, Goto, TypeOK, Claiming, OthersStay, Drops, StepOf
<1>25. CASE JobRaises(r)
  BY <1>25, <1>t
     DEF JobRaises, Disrupt, NextTask, Goto, TypeOK, Claiming, OthersStay, Drops, StepOf
<1> QED
  BY <1>1, <1>2, <1>3, <1>4, <1>5, <1>6, <1>7, <1>8, <1>9, <1>10, <1>11, <1>12, <1>13,
     <1>14, <1>15, <1>16, <1>17, <1>18, <1>19, <1>20, <1>21, <1>22, <1>23, <1>24, <1>25
     DEF Step, Fault

-----------------------------------------------------------------------------
(* What the refinement rests on besides the invariant.                     *)

\* Only a claim names a runner.
Signed == \A c \in Commit, t \in Task : ~Claimed(status[c][t]) => status[c][t].by = NoRunner

\* What a runner is at work on is not counted as lost.
Kept == \A r \in Runner : pc[r] \in Claiming => Mine(r) \notin lost

\* Both hold initially.
LEMMA InitKept == Init => Signed /\ Kept
BY DEF Init, Signed, Kept, NoStatus, Claiming

\* A posted status is signed if it is a claim, and only then.
LEMMA PostSigned ==
    ASSUME TypeOK, Signed, NEW r \in Runner, at[r] \in Task,
           NEW s \in Status, ~Claimed(s) => s.by = NoRunner, Post(r, s)
    PROVE  Signed'
<1>1. view[r].commit \in Commit
  BY DEF TypeOK, View
<1> QED
  BY <1>1, PostedTable DEF Signed, Post, TypeOK

\* What a runner does to its own work concerns no other runner's.
LEMMA OthersKept ==
    ASSUME Kept, NEW r \in Runner, OthersStay(r),
           \A q \in Runner \ {r} : \A c, t : <<q, c, t>> \in lost' => <<q, c, t>> \in lost,
           pc'[r] \in Claiming => Mine(r)' \notin lost'
    PROVE  Kept'
BY DEF Kept, OthersStay, Mine

\* Every step keeps both.
LEMMA StepKept ==
    ASSUME TypeOK, TypeOK', Signed, Kept, [Next]_vars
    PROVE  Signed' /\ Kept'
<1> USE DEF github, runners, history, past
<1>t. TypeOK
  OBVIOUS
<1>1. ASSUME NEW r \in Runner, StepOf(r) PROVE Signed' /\ Kept'
  <2>1. CASE Quiet(r)
    BY <2>1, OthersKept DEF Quiet, Signed
  <2>2. CASE GoesOn(r)
    BY <2>2, OthersKept DEF GoesOn, Signed, Kept, Mine
  <2>3. CASE Leaves(r)
    BY <2>3, OthersKept DEF Leaves, Signed
  <2>4. CASE Drops(r)
    <3>1. \A q \in Runner \ {r} : \A c, t : <<q, c, t>> \in lost' => <<q, c, t>> \in lost
      BY <2>4 DEF Drops, Orphan
    <3> QED
      BY <2>4, <3>1, OthersKept DEF Drops, Signed
  <2>5. ASSUME NEW kind \in Kind, Marks(r, kind) PROVE Signed' /\ Kept'
    <3>1. Anonymous(kind) \in Status /\ Anonymous(kind).by = NoRunner
      BY PostedStatuses DEF Anonymous
    <3>2. Signed'
      BY <2>5, <3>1, PostSigned DEF Marks
    <3> QED
      BY <2>5, <3>2, OthersKept DEF Marks
  <2>6. ASSUME NEW kind \in Kind, Holds(r, kind) PROVE Signed' /\ Kept'
    <3>1. Claim(kind, r) \in Status /\ Claimed(Claim(kind, r))
      BY <2>6, PostedStatuses DEF Holds, Claim, Claimed, Taken, Locked
    <3>2. Signed'
      BY <2>6, <3>1, PostSigned DEF Holds
    <3>3. Mine(r)' = Mine(r)
      BY <2>6 DEF Holds, Mine
    <3>4. Mine(r) \notin lost'
      BY <2>6 DEF Holds, Kept, Claiming
    <3>5. \A q \in Runner \ {r} : \A c, t : <<q, c, t>> \in lost' => <<q, c, t>> \in lost
      BY <2>6 DEF Holds
    <3> QED
      BY <2>6, <3>2, <3>3, <3>4, <3>5, OthersKept DEF Holds
  <2>7. ASSUME NEW kind \in Kind, Reports(r, kind) PROVE Signed' /\ Kept'
    <3>1. Anonymous(kind) \in Status /\ Anonymous(kind).by = NoRunner
      BY PostedStatuses DEF Anonymous
    <3>2. at[r] \in Task
      BY <2>7, <1>t DEF Reports, TypeOK, Claiming
    <3>3. Signed'
      BY <2>7, <3>1, <3>2, PostSigned DEF Reports
    <3> QED
      BY <2>7, <3>3, OthersKept DEF Reports
  <2> QED
    BY <1>1, <2>1, <2>2, <2>3, <2>4, <2>5, <2>6, <2>7 DEF StepOf
<1>2. CASE Push
  BY <1>2 DEF Push, Signed, Kept, Mine
<1>3. CASE AddRerunLabel
  BY <1>3 DEF AddRerunLabel, Signed, Kept, Mine
<1>4. ASSUME NEW t \in Task, OperatorRerun(t) PROVE Signed' /\ Kept'
  <2>1. Anonymous("unassigned") \in Status /\ Anonymous("unassigned").by = NoRunner
    BY PostedStatuses DEF Anonymous, Kind
  <2>2. Signed'
    BY <1>4, <1>t, <2>1, PostedTable DEF OperatorRerun, Signed, TypeOK
  <2> QED
    BY <1>4, <2>2 DEF OperatorRerun, Kept, Mine
<1>5. CASE Tick
  <2>1. \A c \in Commit, t \in Task :
          /\ status'[c][t].kind = status[c][t].kind
          /\ status'[c][t].by = status[c][t].by
    BY <1>5, <1>t, OlderStatus DEF Tick, TypeOK
  <2>2. \A r \in Runner : view'[r].commit = view[r].commit
    BY <1>5, <1>t DEF Tick, TypeOK, View
  <2>3. Signed'
    BY <2>1 DEF Signed, Claimed, Taken, Locked
  <2>4. Kept'
    <3>1. pc' = pc /\ at' = at /\ lost' = lost
      BY <1>5 DEF Tick
    <3>2. \A r \in Runner : Mine(r)' = Mine(r)
      BY <2>2, <3>1 DEF Mine
    <3> QED
      BY <3>1, <3>2 DEF Kept
  <2> QED
    BY <2>3, <2>4
<1>6. CASE UNCHANGED vars
  BY <1>6 DEF vars, Signed, Kept, Mine
<1> QED
  BY <1>1, <1>2, <1>3, <1>4, <1>5, <1>6, StepKinds DEF Next

-----------------------------------------------------------------------------
(* What the ledger shows of a step.                                        *)

Ledgers == <<LedgerJob, LedgerHolder>>

\* A status posted on the head is entered in the ledger.
LEMMA PostedOnHead ==
    ASSUME TypeOK, NEW r \in Runner, NEW s \in Status, at[r] \in Task,
           view[r].commit = head, head' = head, Post(r, s)
    PROVE  /\ LedgerJob' = [LedgerJob EXCEPT ![at[r]] = Standing(s)]
           /\ LedgerHolder' = [LedgerHolder EXCEPT ![at[r]] = s.by]
<1>1. status'[head] = [status[head] EXCEPT ![at[r]] = s]
  BY DEF TypeOK, Post
<1>2. status[head] \in [Task -> Status]
  BY DEF TypeOK
<1>3. \A t \in Task : status'[head][t] = IF t = at[r] THEN s ELSE status[head][t]
  BY <1>1, <1>2
<1> QED
  BY <1>3 DEF LedgerJob, LedgerHolder

\* A status posted on an older commit is not.
LEMMA PostedBehind ==
    ASSUME TypeOK, NEW r \in Runner, NEW s \in Status,
           view[r].commit # head, head' = head, Post(r, s)
    PROVE  UNCHANGED Ledgers
<1>1. status'[head] = status[head]
  BY DEF TypeOK, Post
<1> QED
  BY <1>1 DEF LedgerJob, LedgerHolder, Ledgers

\* Nor is what posts nothing.
LEMMA PostedNothing ==
    ASSUME UNCHANGED <<head, status>>
    PROVE  UNCHANGED Ledgers
BY DEF LedgerJob, LedgerHolder, Ledgers

\* The others stay at work.
LEMMA OthersWork ==
    ASSUME NEW r \in Runner, OthersStay(r), head' = head
    PROVE  \A q \in Runner \ {r}, t \in Task : WorkingOn(q, t)' <=> WorkingOn(q, t)
BY DEF OthersStay, WorkingOn

\* So does everybody, if runner r does.
LEMMA AllWork ==
    ASSUME NEW r \in Runner, OthersStay(r), head' = head,
           \A t \in Task : WorkingOn(r, t)' <=> WorkingOn(r, t)
    PROVE  LedgerWorkers' = LedgerWorkers
<1>1. \A q \in Runner, t \in Task : WorkingOn(q, t)' <=> WorkingOn(q, t)
  BY OthersWork
<1> QED
  BY <1>1 DEF LedgerWorkers

\* Runner r goes to work on a job of the head.
LEMMA Joins ==
    ASSUME NEW r \in Runner, OthersStay(r), head' = head, at[r] \in Task,
           \A t \in Task : WorkingOn(r, t)' <=> WorkingOn(r, t) \/ t = at[r]
    PROVE  LedgerWorkers' = [LedgerWorkers EXCEPT ![at[r]] = @ \cup {r}]
<1>1. \A t \in Task : LedgerWorkers'[t] =
          IF t = at[r] THEN LedgerWorkers[t] \cup {r} ELSE LedgerWorkers[t]
  BY OthersWork DEF LedgerWorkers
<1> QED
  BY <1>1 DEF LedgerWorkers

\* Runner r, at work on a job of the head, is done with it.
LEMMA Departs ==
    ASSUME TypeOK, NEW r \in Runner, OthersStay(r), head' = head,
           pc[r] \in Claiming, pc'[r] \notin Claiming, view[r].commit = head
    PROVE  /\ at[r] \in Task
           /\ r \in LedgerWorkers[at[r]]
           /\ LedgerWorkers' = [LedgerWorkers EXCEPT ![at[r]] = @ \ {r}]
<1>1. at[r] \in Task
  BY DEF TypeOK, Claiming
<1>2. \A t \in Task : WorkingOn(r, t) <=> t = at[r]
  BY DEF WorkingOn
<1>3. \A t \in Task : ~WorkingOn(r, t)'
  BY DEF WorkingOn
<1>4. \A t \in Task : LedgerWorkers'[t] =
          IF t = at[r] THEN LedgerWorkers[t] \ {r} ELSE LedgerWorkers[t]
  BY <1>2, <1>3, OthersWork DEF LedgerWorkers
<1> QED
  BY <1>1, <1>2, <1>4 DEF LedgerWorkers

\* Nobody notices a runner that is not at work on the head.
LEMMA Unnoticed ==
    ASSUME NEW r \in Runner, OthersStay(r), head' = head, pc'[r] \notin Claiming,
           pc[r] \notin Claiming \/ view[r].commit # head
    PROVE  LedgerWorkers' = LedgerWorkers
<1>1. \A t \in Task : ~WorkingOn(r, t) /\ ~WorkingOn(r, t)'
  BY DEF WorkingOn
<1> QED
  BY <1>1, AllWork

-----------------------------------------------------------------------------
(* Every step, as the ledger sees it.                                      *)

\* A runner does not leave a job of the head that still names it.
LEMMA LeavesReplaced ==
    ASSUME IInv, Signed, Kept, NEW r \in Runner, Leaves(r), view[r].commit = head
    PROVE  LedgerHolder[at[r]] # r
<1>1. at[r] \in Task /\ head \in Commit
  BY DEF IInv, TypeOK, Leaves
<1> SUFFICES ASSUME status[head][at[r]].by = r PROVE FALSE
  BY <1>1 DEF LedgerHolder
<1>2. Claimed(status[head][at[r]])
  BY <1>1, StatusAssumption DEF Signed
<1>3. Mine(r) = <<r, head, at[r]>> /\ Mine(r) \notin lost
  BY DEF Kept, Mine, Leaves, Claiming
<1>4. WorksOn(r, head, at[r], status[head][at[r]].kind)
  BY <1>1, <1>2, <1>3 DEF IInv, ClaimHasOwner
<1> QED
  BY <1>2, <1>4
     DEF Leaves, WorksOn, Executing, SameDescription, Polled, Claimed, Taken, Locked

\* The ledger does not change.
Unledgered == UNCHANGED <<LedgerJob, LedgerHolder, LedgerWorkers, disputed, disruptions>>

\* Job t is entered in the ledger anew.
Entered(t, standing, name) ==
    /\ LedgerJob' = [LedgerJob EXCEPT ![t] = standing]
    /\ LedgerHolder' = [LedgerHolder EXCEPT ![t] = name]
    /\ UNCHANGED disruptions

\* A step that posts nothing is a fault, the leaving of a claim, or not seen.
LEMMA UnpostedMaps ==
    ASSUME IInv, Signed, Kept, NEW r \in Runner, Quiet(r) \/ GoesOn(r) \/ Leaves(r) \/ Drops(r)
    PROVE  \/ Unledgered \/ Claims!Fault
           \/ at[r] \in Task /\ (Claims!Leave(r, at[r]) \/ Claims!Dispute(at[r]))
<1> USE DEF Ledgers, Unledgered
<1>t. TypeOK
  BY DEF IInv
<1>1. CASE Quiet(r)
  <2>1. UNCHANGED Ledgers /\ LedgerWorkers' = LedgerWorkers
    BY <1>1, PostedNothing, Unnoticed DEF Quiet
  <2>2. CASE UNCHANGED disputed
    BY <1>1, <2>1, <2>2 DEF Quiet, Claims!Fault
  <2>3. CASE disputed' = disputed \cup {at[r]} /\ at[r] \in Task
    BY <1>1, <2>1, <2>3 DEF Quiet, Claims!Fault, Claims!Dispute, Claims!Ordered
  <2> QED
    BY <1>1, <2>2, <2>3 DEF Quiet, Contested
<1>2. CASE GoesOn(r)
  <2>1. \A t \in Task : WorkingOn(r, t)' <=> WorkingOn(r, t)
    BY <1>2 DEF GoesOn, WorkingOn
  <2> QED
    BY <1>2, <2>1, PostedNothing, AllWork DEF GoesOn
<1>3. CASE Leaves(r)
  <2>1. UNCHANGED Ledgers /\ pc[r] \in Claiming
    BY <1>3, PostedNothing DEF Leaves, Claiming
  <2>2. CASE view[r].commit = head
    BY <1>3, <1>t, <2>1, <2>2, Departs, LeavesReplaced DEF Leaves, Claims!Leave
  <2>3. CASE view[r].commit # head
    BY <1>3, <2>1, <2>3, Unnoticed DEF Leaves
  <2> QED
    BY <2>2, <2>3
<1>4. CASE Drops(r)
  <2>1. UNCHANGED <<Ledgers, disputed>> /\ disruptions' = disruptions + 1
    BY <1>4, PostedNothing DEF Drops
  <2>2. CASE pc[r] \in Claiming /\ view[r].commit = head
    <3>1. at[r] \in Task /\ LedgerWorkers' = [LedgerWorkers EXCEPT ![at[r]] = @ \ {r}]
      BY <1>4, <1>t, <2>2, Departs DEF Drops
    <3> QED
      BY <2>1, <3>1 DEF Claims!Fault
  <2>3. CASE pc[r] \notin Claiming \/ view[r].commit # head
    <3>1. LedgerWorkers' = LedgerWorkers
      BY <1>4, <2>3, Unnoticed DEF Drops
    <3> QED
      BY <2>1, <3>1 DEF Claims!Fault
  <2> QED
    BY <2>2, <2>3
<1> QED
  BY <1>1, <1>2, <1>3, <1>4

\* A job offered, or marked as failed, on the head.
LEMMA MarksMaps ==
    ASSUME IInv, NEW r \in Runner, NEW kind \in Kind, Marks(r, kind)
    PROVE  \/ Unledgered
           \/ /\ view[r].commit = head /\ LedgerWorkers' = LedgerWorkers
              /\ disputed' \in {disputed, disputed \cup {at[r]}}
              /\ kind # "rerun" => UNCHANGED disputed
              /\ Entered(at[r], IF kind = "error" THEN "failed" ELSE "open", NoRunner)
<1>t. TypeOK
  BY DEF IInv
<1>1. Anonymous(kind) \in Status /\ Anonymous(kind).by = NoRunner
  BY PostedStatuses DEF Anonymous
<1>2. LedgerWorkers' = LedgerWorkers
  BY Unnoticed DEF Marks
<1>3. CASE view[r].commit = head
  <2>1. Standing(Anonymous(kind)) = IF kind = "error" THEN "failed" ELSE "open"
    BY DEF Marks, Standing, Anonymous, Missing, Available, Claimed, Taken, Locked, Succeeded,
       Failed
  <2> QED
    BY <1>t, <1>1, <1>2, <1>3, <2>1, PostedOnHead DEF Marks, Entered, Contested
<1>4. CASE view[r].commit # head
  BY <1>t, <1>1, <1>2, <1>4, PostedBehind DEF Marks, Unledgered, Ledgers, Contested
<1> QED
  BY <1>3, <1>4

\* A claim on the head.
LEMMA HoldsMaps ==
    ASSUME IInv, NEW r \in Runner, NEW kind \in Kind, Holds(r, kind)
    PROVE  \/ Unledgered
           \/ /\ view[r].commit = head
              /\ LedgerWorkers' = [LedgerWorkers EXCEPT ![at[r]] = @ \cup {r}]
              /\ Entered(at[r], "held", r) /\ UNCHANGED disputed
<1>t. TypeOK
  BY DEF IInv
<1>1. /\ Claim(kind, r) \in Status /\ Claim(kind, r).by = r
      /\ Standing(Claim(kind, r)) = "held"
  BY PostedStatuses
     DEF Holds, Claim, Standing, Missing, Available, Claimed, Taken, Locked, Succeeded, Failed
<1>2. CASE view[r].commit = head
  <2>1. \A t \in Task : WorkingOn(r, t)' <=> WorkingOn(r, t) \/ t = at[r]
    BY <1>2 DEF Holds, WorkingOn
  <2>2. LedgerWorkers' = [LedgerWorkers EXCEPT ![at[r]] = @ \cup {r}]
    BY <2>1, Joins DEF Holds
  <2> QED
    BY <1>t, <1>1, <1>2, <2>2, PostedOnHead DEF Holds, Entered
<1>3. CASE view[r].commit # head
  <2>1. \A t \in Task : WorkingOn(r, t)' <=> WorkingOn(r, t)
    BY <1>3 DEF Holds, WorkingOn
  <2>2. LedgerWorkers' = LedgerWorkers
    BY <2>1, AllWork DEF Holds
  <2> QED
    BY <1>t, <1>1, <1>3, <2>2, PostedBehind DEF Holds, Unledgered, Ledgers
<1> QED
  BY <1>2, <1>3

\* A result on the head.
LEMMA ReportsMaps ==
    ASSUME IInv, NEW r \in Runner, NEW kind \in Kind, Reports(r, kind)
    PROVE  \/ Unledgered
           \/ /\ view[r].commit = head /\ at[r] \in Task /\ r \in LedgerWorkers[at[r]]
              /\ LedgerWorkers' = [LedgerWorkers EXCEPT ![at[r]] = @ \ {r}]
              /\ Entered(at[r], IF kind = "success" THEN "passed" ELSE "failed", NoRunner)
              /\ UNCHANGED disputed
<1>t. TypeOK
  BY DEF IInv
<1>1. /\ Anonymous(kind) \in Status /\ Anonymous(kind).by = NoRunner
      /\ Standing(Anonymous(kind)) = IF kind = "success" THEN "passed" ELSE "failed"
  BY PostedStatuses
     DEF Reports, Anonymous, Standing, Missing, Available, Claimed, Taken, Locked, Succeeded, Failed
<1>2. CASE view[r].commit = head
  <2>1. /\ at[r] \in Task /\ r \in LedgerWorkers[at[r]]
        /\ LedgerWorkers' = [LedgerWorkers EXCEPT ![at[r]] = @ \ {r}]
    BY <1>t, <1>2, Departs DEF Reports, Claiming
  <2> QED
    BY <1>t, <1>1, <1>2, <2>1, PostedOnHead DEF Reports, Entered
<1>3. CASE view[r].commit # head
  BY <1>t, <1>1, <1>3, PostedBehind, Unnoticed DEF Reports, Unledgered, Ledgers
<1> QED
  BY <1>2, <1>3

\* What a runner does is a step of the ledger, or none.
LEMMA RunnerMaps ==
    ASSUME IInv, Signed, Kept, NEW r \in Runner, StepOf(r)
    PROVE  [Claims!Next]_(Claims!vars)
<1> USE DEF Unledgered, Claims!vars
<1>1. CASE Quiet(r) \/ GoesOn(r) \/ Leaves(r) \/ Drops(r)
  BY <1>1, UnpostedMaps DEF Claims!Next
<1>2. ASSUME NEW kind \in Kind, Marks(r, kind) PROVE [Claims!Next]_(Claims!vars)
  <2> DEFINE Mark(standing) == LedgerWorkers' = LedgerWorkers /\ Entered(at[r], standing, NoRunner)
  <2>1. CASE Mark("failed") /\ UNCHANGED disputed
    BY <1>2, <2>1 DEF Marks, Entered, Claims!Reject, Claims!Ordered, Claims!Next
  <2>2. CASE Mark("open") /\ UNCHANGED disputed
    BY <1>2, <2>2 DEF Marks, Entered, Claims!Offer, Claims!Ordered, Claims!Next
  <2>3. CASE Mark("open") /\ disputed' = disputed \cup {at[r]}
    BY <1>2, <2>3 DEF Marks, Entered, Claims!Overrule, Claims!Ordered, Claims!Next
  <2> QED
    BY <1>2, <2>1, <2>2, <2>3, MarksMaps
<1>3. ASSUME NEW kind \in Kind, Holds(r, kind) PROVE [Claims!Next]_(Claims!vars)
  <2>1. CASE /\ LedgerWorkers' = [LedgerWorkers EXCEPT ![at[r]] = @ \cup {r}]
             /\ Entered(at[r], "held", r) /\ UNCHANGED disputed
    <3>1. Claims!Hold(r, at[r])
      BY <2>1 DEF Entered, Claims!Hold, Claims!Ordered
    <3> QED
      BY <1>3, <3>1 DEF Holds, Claims!Next
  <2> QED
    BY <1>3, <2>1, HoldsMaps
<1>4. ASSUME NEW kind \in Kind, Reports(r, kind) PROVE [Claims!Next]_(Claims!vars)
  <2>1. ASSUME NEW result \in {"passed", "failed"}, Entered(at[r], result, NoRunner),
               at[r] \in Task, r \in LedgerWorkers[at[r]],
               LedgerWorkers' = [LedgerWorkers EXCEPT ![at[r]] = @ \ {r}], UNCHANGED disputed
        PROVE  [Claims!Next]_(Claims!vars)
    <3>1. Claims!Report(r, at[r])
      BY <2>1 DEF Entered, Claims!Report, Claims!Ordered
    <3> QED
      BY <2>1, <3>1 DEF Claims!Next
  <2> QED
    BY <1>4, <2>1, ReportsMaps
<1> QED
  BY <1>1, <1>2, <1>3, <1>4 DEF StepOf

\* A push opens a new ledger.
LEMMA PushMaps ==
    ASSUME IInv, TypeOK', Push
    PROVE  Claims!Renew
<1>t. TypeOK
  BY DEF IInv
<1>1. head' \in Commit /\ head' > head /\ head \in Nat /\ UNCHANGED <<status, runners>>
  BY <1>t, TaskAssumption DEF Push, TypeOK, Commit
<1>2. \A t \in Task : status'[head'][t] = NoStatus
  BY <1>1 DEF IInv, NoFutureStatus
<1>3. \A r \in Runner : view[r].commit # head'
  <2>1. \A r \in Runner : view[r].commit \in Nat /\ view[r].commit <= head
    BY <1>t, TaskAssumption DEF IInv, Ordered, TypeOK, View, Commit
  <2> QED
    BY <1>1, <2>1
<1>4. LedgerJob' = [t \in Task |-> "missing"]
  BY <1>2 DEF LedgerJob, Standing, NoStatus, Missing, Available, Claimed, Taken,
              Locked, Succeeded, Failed
<1>5. LedgerHolder' = [t \in Task |-> NoRunner]
  BY <1>2 DEF LedgerHolder, NoStatus
<1>6. LedgerWorkers' = [t \in Task |-> {}]
  BY <1>1, <1>3 DEF runners, LedgerWorkers, WorkingOn
<1> QED
  BY <1>4, <1>5, <1>6 DEF Push, Claims!Renew

\* Time changes nothing in it.
LEMMA TimeMaps ==
    ASSUME TypeOK, Tick \/ UNCHANGED vars
    PROVE  Unledgered
<1> USE DEF github, runners, history, past, Unledgered
<1>1. CASE Tick
  <2>1. head' = head /\ pc' = pc /\ at' = at /\ disputed' = disputed /\ disruptions' = disruptions
    BY <1>1 DEF Tick
  <2>2. \A t \in Task : /\ status'[head][t].kind = status[head][t].kind
                        /\ status'[head][t].by = status[head][t].by
    BY <1>1, OlderStatus DEF Tick, TypeOK
  <2>3. \A t \in Task : Standing(status'[head][t]) = Standing(status[head][t])
    BY <2>2 DEF Standing, Missing, Available, Claimed, Taken, Locked, Succeeded, Failed
  <2>4. \A r \in Runner : view'[r].commit = view[r].commit
    BY <1>1 DEF Tick, TypeOK, View
  <2>5. LedgerJob' = LedgerJob /\ LedgerHolder' = LedgerHolder
    BY <2>1, <2>2, <2>3 DEF LedgerJob, LedgerHolder
  <2>6. LedgerWorkers' = LedgerWorkers
    BY <2>1, <2>4 DEF LedgerWorkers, WorkingOn
  <2> QED
    BY <2>1, <2>5, <2>6
<1>2. CASE UNCHANGED vars
  <2>1. LedgerWorkers' = LedgerWorkers
    BY <1>2 DEF vars, LedgerWorkers, WorkingOn
  <2> QED
    BY <1>2, <2>1, PostedNothing DEF vars, Ledgers
<1> QED
  BY <1>1, <1>2

\* What an operator enters in the ledger.
LEMMA OperatorEnters ==
    ASSUME TypeOK, NEW t \in Task, OperatorRerun(t)
    PROVE  /\ LedgerWorkers' = LedgerWorkers
           /\ LedgerJob' = [LedgerJob EXCEPT ![t] = "open"]
           /\ LedgerHolder' = [LedgerHolder EXCEPT ![t] = NoRunner]
           /\ disruptions' = disruptions + 1
<1>1. LedgerWorkers' = LedgerWorkers
  BY DEF OperatorRerun, LedgerWorkers, WorkingOn
<1>2. /\ Standing(Anonymous("unassigned")) = "open"
      /\ Anonymous("unassigned").by = NoRunner
  BY DEF Standing, Anonymous, Missing, Available, Claimed, Taken, Locked, Succeeded, Failed
<1>3. \A u \in Task :
        status'[head][u] = IF u = t THEN Anonymous("unassigned") ELSE status[head][u]
  BY DEF OperatorRerun, TypeOK
<1>4. head' = head
  BY DEF OperatorRerun
<1>5. \A u \in Task : LedgerJob'[u] = IF u = t THEN "open" ELSE LedgerJob[u]
  BY <1>2, <1>3, <1>4 DEF LedgerJob
<1>6. \A u \in Task : LedgerHolder'[u] = IF u = t THEN NoRunner ELSE LedgerHolder[u]
  BY <1>2, <1>3, <1>4 DEF LedgerHolder
<1>7. /\ LedgerJob' = [LedgerJob EXCEPT ![t] = "open"]
      /\ LedgerHolder' = [LedgerHolder EXCEPT ![t] = NoRunner]
  BY <1>5, <1>6 DEF LedgerJob, LedgerHolder
<1> QED
  BY <1>1, <1>7 DEF OperatorRerun, Disrupt

\* What the operators do is a fault, and may put a job back on offer.
LEMMA PeopleMap ==
    ASSUME TypeOK, AddRerunLabel \/ \E t \in Task : OperatorRerun(t)
    PROVE  Claims!Fault \/ \E t \in Task : Claims!Offer(t) \/ Claims!Overrule(t)
<1>1. CASE AddRerunLabel
  <2>1. UNCHANGED <<LedgerWorkers, Ledgers, disputed>>
    BY <1>1, PostedNothing DEF AddRerunLabel, LedgerWorkers, WorkingOn, runners, past
  <2> QED
    BY <1>1, <2>1 DEF AddRerunLabel, Disrupt, Ledgers, Claims!Fault
<1>2. ASSUME NEW t \in Task, OperatorRerun(t) PROVE Claims!Offer(t) \/ Claims!Overrule(t)
  BY <1>2, OperatorEnters
     DEF OperatorRerun, Claims!Offer, Claims!Overrule, Claims!Ordered
<1> QED
  BY <1>1, <1>2

\* The ledger starts empty.
LEMMA InitMaps == Init => Claims!Init
<1> SUFFICES ASSUME Init PROVE Claims!Init
  OBVIOUS
<1>1. head \in Commit /\ \A t \in Task : status[head][t] = NoStatus
  BY TaskAssumption DEF Init, Commit
<1>2. LedgerJob = [t \in Task |-> "missing"]
  BY <1>1 DEF LedgerJob, Standing, NoStatus, Missing, Available, Claimed, Taken,
              Locked, Succeeded, Failed
<1>3. LedgerHolder = [t \in Task |-> NoRunner]
  BY <1>1 DEF LedgerHolder, NoStatus
<1>4. LedgerWorkers = [t \in Task |-> {}]
  BY DEF Init, LedgerWorkers, WorkingOn, Claiming
<1> QED
  BY <1>2, <1>3, <1>4 DEF Init, Claims!Init

-----------------------------------------------------------------------------
(* The theorem.                                                            *)

\* Claims are signed, and what a runner is at work on is not lost, throughout.
LEMMA KeptThroughout == Spec => [](Signed /\ Kept)
<1>1. Signed /\ Kept /\ IInv /\ IInv' /\ [Next]_vars => Signed' /\ Kept'
  BY StepKept DEF IInv
<1> QED
  BY <1>1, InitKept, InductiveInvariant, PTL DEF Spec

\* TaskClaim implements the ledger: whatever the interleaving, a runner that is
\* at work on a claim of the head, and meets no fault, stays at it until it
\* reports or another status has replaced the claim (Task.lock, Task.execute).
THEOREM ClaimsKept == Spec => KeepsClaims
<1>1. Signed /\ Kept /\ IInv /\ IInv' /\ [Next]_vars => [Claims!Next]_(Claims!vars)
  <2> SUFFICES ASSUME Signed, Kept, IInv, IInv', [Next]_vars
               PROVE  [Claims!Next]_(Claims!vars)
    OBVIOUS
  <2>1. TypeOK /\ TypeOK'
    BY DEF IInv
  <2>2. ASSUME NEW r \in Runner, Step(r) \/ Fault(r) PROVE [Claims!Next]_(Claims!vars)
    BY <2>1, <2>2, StepKinds, RunnerMaps
  <2>3. CASE Push
    BY <2>1, <2>3, PushMaps DEF Claims!Next
  <2>4. CASE AddRerunLabel \/ \E t \in Task : OperatorRerun(t)
    BY <2>1, <2>4, PeopleMap DEF Claims!Next
  <2>5. CASE Tick \/ UNCHANGED vars
    BY <2>1, <2>5, TimeMaps DEF Unledgered, Claims!vars
  <2> QED
    BY <2>2, <2>3, <2>4, <2>5 DEF Next
<1> QED
  BY <1>1, KeptThroughout, InitMaps, InductiveInvariant, PTL DEF Spec, KeepsClaims, Claims!Spec
=============================================================================

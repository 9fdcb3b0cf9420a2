-------------------------- MODULE TaskClaimProofs --------------------------
(***************************************************************************)
(* TaskClaim's safety, for any runners, jobs, timers, pushes and faults.   *)
(***************************************************************************)
EXTENDS TaskClaim, TLAPS

-----------------------------------------------------------------------------
(* Statuses.                                                               *)

\* Every status the runners post is one.
LEMMA PostedStatuses ==
    /\ NoStatus \in Status
    /\ \A kind \in Kind : Anonymous(kind) \in Status
    /\ \A kind \in Kind, r \in Runner : Claim(kind, r) \in Status
BY StatusAssumption DEF NoStatus, Anonymous, Claim, Status, Kind

\* Time changes nothing of a status but its age.
LEMMA OlderStatus ==
    ASSUME NEW s \in Status
    PROVE  /\ Older(s) \in Status
           /\ Older(s).kind = s.kind
           /\ Older(s).by = s.by
           /\ s = NoStatus => Older(s) = NoStatus
BY StatusAssumption DEF Older, Status, NoStatus, Claimed, Taken, Locked

\* Posting a status changes that status only.
LEMMA PostedTable ==
    ASSUME NEW f \in [Commit -> [Task -> Status]],
           NEW c \in Commit, NEW t \in Task, NEW s \in Status,
           NEW g, g = [f EXCEPT ![c][t] = s]
    PROVE  /\ g \in [Commit -> [Task -> Status]]
           /\ g[c][t] = s
           /\ \A d \in Commit, u \in Task : <<d, u>> # <<c, t>> => g[d][u] = f[d][u]
OBVIOUS

-----------------------------------------------------------------------------
(* Type correctness.                                                       *)

\* TypeOK holds initially.
LEMMA InitType == Init => TypeOK
<1> SUFFICES ASSUME Init PROVE TypeOK
  OBVIOUS
<1>1. NoView \in View /\ 0 \in Commit
  BY TaskAssumption, PostedStatuses DEF NoView, View, Commit
<1>2. status \in [Commit -> [Task -> Status]]
  BY PostedStatuses DEF Init
<1> QED
  BY <1>1, <1>2 DEF Init, TypeOK, PC, Kind

\* TypeOK is preserved by every step.
LEMMA StepType == TypeOK /\ [Next]_vars => TypeOK'
<1> SUFFICES ASSUME TypeOK, [Next]_vars PROVE TypeOK'
  OBVIOUS
<1> USE DEF TypeOK, github, runners, history, past
<1>v. NoView \in View /\ 0 \in Commit /\ "none" \in Kind
  BY TaskAssumption, PostedStatuses DEF NoView, View, Commit, Kind
<1> DEFINE LocalType ==
      /\ pc \in [Runner -> PC]
      /\ at \in [Runner -> Nat]
      /\ \A r \in Runner : pc[r] \notin {"idle", "unlabel", "scan", "down"} => at[r] \in Task
      /\ seen \in [Runner -> Kind]
      /\ built \in [Runner -> Commit]
<1>n. ASSUME NEW r \in Runner, NextTask(r) PROVE LocalType'
  BY <1>n, <1>v DEF NextTask, Goto, PC
<1>m. ASSUME NEW r \in Runner, NextTaskAfterOffer(r) PROVE LocalType'
  BY <1>m, <1>v DEF NextTaskAfterOffer, SeenBefore, Goto, PC
<1>c. ASSUME NEW r \in Runner, at[r] \in Task, disputed' = Contested(r)
      PROVE  disputed' \subseteq Task
  BY <1>c DEF Contested
<1>d. ASSUME NEW r \in Runner, Die(r)
      PROVE LocalType' /\ view' \in [Runner -> View] /\ sleep' \in [Runner -> Nat]
  BY <1>d, <1>v, TaskAssumption DEF Die, SleepThen, Goto, PC
<1>o. ASSUME NEW r \in Runner, Orphan(r) PROVE lost' \subseteq Runner \X Commit \X Task
  <2>1. view[r].commit \in Commit
    BY DEF View
  <2>2. CASE pc[r] \in Claiming
    <3>1. at[r] \in Task
      BY <2>2 DEF Claiming
    <3>2. <<r, view[r].commit, at[r]>> \in Runner \X Commit \X Task
      BY <2>1, <3>1
    <3> QED
      BY <1>o, <2>2, <3>2 DEF Orphan
  <2>3. CASE pc[r] \notin Claiming
    BY <1>o, <2>3 DEF Orphan
  <2> QED
    BY <2>2, <2>3
<1>g. ASSUME NEW r \in Runner, NEW p \in PC, Goto(r, p),
             p \notin {"idle", "unlabel", "scan", "down"} => at[r] \in Task,
             UNCHANGED at
      PROVE  /\ pc' \in [Runner -> PC]
             /\ (\A q \in Runner :
                   pc[q] \notin {"idle", "unlabel", "scan", "down"} => at[q] \in Task)'
  BY <1>g DEF Goto
<1> HIDE DEF NextTask, NextTaskAfterOffer, Die, Orphan, Goto
<1>1. ASSUME NEW r \in Runner, Query(r) PROVE TypeOK'
  BY <1>1 DEF Query, Goto, View, PC
<1>2. ASSUME NEW r \in Runner, RemoveRerunLabel(r) PROVE TypeOK'
  BY <1>2, <1>g DEF RemoveRerunLabel, PC
<1>3. ASSUME NEW r \in Runner, EndScan(r) PROVE TypeOK'
  BY <1>3, <1>v, TaskAssumption DEF EndScan, SleepThen, Goto, PC
<1>4. ASSUME NEW r \in Runner, CreateErrorStatus(r) PROVE TypeOK'
  <2>1. status' \in [Commit -> [Task -> Status]]
    BY <1>4, PostedStatuses, PostedTable, TaskAssumption
       DEF CreateErrorStatus, Post, Kind, View
  <2> QED
    BY <1>4, <2>1, <1>n DEF CreateErrorStatus
<1>5. ASSUME NEW r \in Runner, StalledRaises(r) PROVE TypeOK'
  BY <1>5, <1>d DEF StalledRaises
<1>6. ASSUME NEW r \in Runner, Skip(r) PROVE TypeOK'
  BY <1>6, <1>n DEF Skip
<1>7. ASSUME NEW r \in Runner, SetUnassigned(r) PROVE TypeOK'
  BY <1>7, <1>g, TaskAssumption DEF SetUnassigned, Considers, SleepThen, PC
<1>8. ASSUME NEW r \in Runner, SetUnassignedPoll(r) PROVE TypeOK'
  <2>0. disputed' \subseteq Task /\ UNCHANGED <<lost, late>> /\ disruptions' \in Nat
    BY <1>8 DEF SetUnassignedPoll, Awake, Disrupt
  <2>1. CASE NextTask(r)
    BY <1>8, <2>0, <2>1, <1>n DEF SetUnassignedPoll
  <2>2. CASE Goto(r, "unassign_write") /\ UNCHANGED <<at, seen, built>>
    <3>1. at[r] \in Task
      BY <1>8 DEF SetUnassignedPoll, Awake
    <3> QED
      BY <1>8, <2>0, <2>2, <3>1, <1>g DEF SetUnassignedPoll, PC
  <2> QED
    BY <1>8, <2>1, <2>2 DEF SetUnassignedPoll
<1>9. ASSUME NEW r \in Runner, SetUnassignedWrite(r) PROVE TypeOK'
  <2>1. status' \in [Commit -> [Task -> Status]]
    BY <1>9, PostedStatuses, PostedTable
       DEF SetUnassignedWrite, Awake, Post, Kind, View
  <2> QED
    BY <1>9, <2>1, <1>m DEF SetUnassignedWrite
<1>10. ASSUME NEW r \in Runner, SetRerun(r) PROVE TypeOK'
  BY <1>10, <1>g DEF SetRerun, Considers, PC
<1>11. ASSUME NEW r \in Runner, SetRerunPoll(r) PROVE TypeOK'
  <2>0. disputed' \subseteq Task
    BY <1>11, <1>c DEF SetRerunPoll, Awake
  <2>1. CASE NextTask(r)
    BY <1>11, <2>0, <2>1, <1>n DEF SetRerunPoll
  <2>2. CASE Goto(r, "rerun_write") /\ UNCHANGED <<at, seen, built>>
    <3>1. at[r] \in Task
      BY <1>11 DEF SetRerunPoll, Awake
    <3> QED
      BY <1>11, <2>0, <2>2, <3>1, <1>g DEF SetRerunPoll, PC
  <2> QED
    BY <1>11, <2>1, <2>2 DEF SetRerunPoll
<1>12. ASSUME NEW r \in Runner, SetRerunWrite(r) PROVE TypeOK'
  <2>1. status' \in [Commit -> [Task -> Status]]
    BY <1>12, PostedStatuses, PostedTable DEF SetRerunWrite, Awake, Post, Kind, View
  <2> QED
    BY <1>12, <1>c, <2>1, <1>m DEF SetRerunWrite, Awake
<1>13. ASSUME NEW r \in Runner, Lock(r) PROVE TypeOK'
  BY <1>13, <1>g, TaskAssumption DEF Lock, Considers, SleepThen, PC
<1>14. ASSUME NEW r \in Runner, LockPoll(r) PROVE TypeOK'
  <2>1. CASE NextTask(r)
    BY <1>14, <2>1, <1>n DEF LockPoll
  <2>2. CASE /\ Goto(r, "lock_write")
             /\ seen' = [seen EXCEPT ![r] = Polled(r).kind]
             /\ UNCHANGED <<at, built>>
    <3>1. at[r] \in Task
      BY <1>14 DEF LockPoll, Awake
    <3>2. Polled(r).kind \in Kind
      BY <3>1 DEF Polled, Status
    <3> QED
      BY <1>14, <2>2, <3>1, <3>2, <1>g DEF LockPoll, PC
  <2> QED
    BY <1>14, <2>1, <2>2 DEF LockPoll
<1>15. ASSUME NEW r \in Runner, LockWrite(r) PROVE TypeOK'
  <2>1. status' \in [Commit -> [Task -> Status]]
    BY <1>15, PostedStatuses, PostedTable DEF LockWrite, Awake, Post, Kind, View
  <2> QED
    BY <1>15, <2>1, <1>g, TaskAssumption DEF LockWrite, Awake, SleepThen, PC
<1>16. ASSUME NEW r \in Runner, LockVerify(r) PROVE TypeOK'
  <2>1. CASE NextTask(r)
    BY <1>16, <2>1, <1>n DEF LockVerify
  <2>2. CASE Goto(r, "lock_take") /\ UNCHANGED <<at, seen, built>>
    <3>1. at[r] \in Task
      BY <1>16 DEF LockVerify, Awake
    <3> QED
      BY <1>16, <2>2, <3>1, <1>g DEF LockVerify, PC
  <2> QED
    BY <1>16, <2>1, <2>2 DEF LockVerify
<1>17. ASSUME NEW r \in Runner, LockTake(r) PROVE TypeOK'
  <2>1. status' \in [Commit -> [Task -> Status]]
    BY <1>17, PostedStatuses, PostedTable DEF LockTake, Awake, Post, Kind, View
  <2> QED
    BY <1>17, <2>1, <1>g DEF LockTake, Awake, PC
<1>18. ASSUME NEW r \in Runner, ExecuteCheckout(r) PROVE TypeOK'
  BY <1>18, <1>g DEF ExecuteCheckout, Awake, SleepThen, PC
<1>19. ASSUME NEW r \in Runner, ExecuteFinish(r) PROVE TypeOK'
  BY <1>19, <1>g, TaskAssumption DEF ExecuteFinish, Awake, SleepThen, PC
<1>20. ASSUME NEW r \in Runner, ExecutePoll(r) PROVE TypeOK'
  <2>1. sleep' \in [Runner -> Nat]
    BY <1>20, TaskAssumption DEF ExecutePoll
  <2>2. CASE NextTask(r)
    BY <1>20, <2>2, <2>1, <1>n DEF ExecutePoll
  <2>3. CASE Goto(r, "report_write") /\ UNCHANGED <<at, seen, built>>
    <3>1. at[r] \in Task
      BY <1>20 DEF ExecutePoll, Awake
    <3> QED
      BY <1>20, <2>3, <2>1, <3>1, <1>g DEF ExecutePoll, PC
  <2> QED
    BY <1>20, <2>2, <2>3 DEF ExecutePoll
<1>21. ASSUME NEW r \in Runner, ExecuteWrite(r) PROVE TypeOK'
  <2>1. status' \in [Commit -> [Task -> Status]]
    <3>1. PICK outcome \in Outcomes : Post(r, Anonymous(outcome))
      BY <1>21 DEF ExecuteWrite
    <3>2. Anonymous(outcome) \in Status
      BY PostedStatuses, TaskAssumption DEF Kind
    <3> QED
      BY <1>21, <3>1, <3>2, PostedTable DEF ExecuteWrite, Awake, Post, View
  <2> QED
    BY <1>21, <2>1, <1>n DEF ExecuteWrite
<1>22. ASSUME NEW r \in Runner, Restart(r) PROVE TypeOK'
  BY <1>22, <1>g DEF Restart, PC
<1>23. ASSUME NEW r \in Runner, Crash(r) PROVE TypeOK'
  BY <1>23, <1>d, <1>o DEF Crash, Disrupt
<1>24. ASSUME NEW r \in Runner, PollFails(r) PROVE TypeOK'
  BY <1>24, <1>n, <1>o DEF PollFails, Disrupt
<1>25. ASSUME NEW r \in Runner, JobRaises(r) PROVE TypeOK'
  <2>1. sleep' \in [Runner -> Nat]
    BY <1>25, TaskAssumption DEF JobRaises
  <2> QED
    BY <1>25, <2>1, <1>n, <1>o DEF JobRaises, Disrupt
<1>26. CASE Push
  BY <1>26, TaskAssumption DEF Push, Commit
<1>27. CASE AddRerunLabel
  BY <1>27 DEF AddRerunLabel, Disrupt
<1>28. ASSUME NEW t \in Task, OperatorRerun(t) PROVE TypeOK'
  <2>1. status' \in [Commit -> [Task -> Status]]
    BY <1>28, PostedStatuses, PostedTable DEF OperatorRerun, Kind
  <2>2. seen' \in [Runner -> Kind]
    BY <1>28, <1>v DEF OperatorRerun, SeenBefore
  <2> QED
    BY <1>28, <2>1, <2>2 DEF OperatorRerun, Disrupt
<1>29. CASE Tick
  <2>1. status' \in [Commit -> [Task -> Status]]
    BY <1>29, OlderStatus DEF Tick
  <2>2. view' \in [Runner -> View]
    <3>1. \A r \in Runner : [t \in Task |-> Older(view[r].st[t])] \in [Task -> Status]
      BY OlderStatus DEF View
    <3> QED
      BY <1>29, <3>1 DEF Tick, View
  <2> QED
    BY <1>29, <2>1, <2>2 DEF Tick
<1>30. CASE UNCHANGED vars
  BY <1>30 DEF vars
<1> QED
  BY <1>1, <1>2, <1>3, <1>4, <1>5, <1>6, <1>7, <1>8, <1>9, <1>10, <1>11, <1>12,
     <1>13, <1>14, <1>15, <1>16, <1>17, <1>18, <1>19, <1>20, <1>21, <1>22, <1>23,
     <1>24, <1>25, <1>26, <1>27, <1>28, <1>29, <1>30
     DEF Next, Step, Fault

\* Type correctness: every variable keeps its type, and a runner that is about
\* to call GitHub about a job is at a job of the tasks file.
THEOREM TypeCorrect == Spec => []TypeOK
<1> QED
  BY InitType, StepType, PTL DEF Spec
-----------------------------------------------------------------------------
(* Commits only move on.                                                   *)

\* Nothing is posted on a commit before it is the head.
NoFutureStatus ==
    \A c \in Commit, t \in Task : c > head => status[c][t] = NoStatus

\* The head only moves away from the commit a runner saw; a job builds what was
\* the head between that moment and now.
Ordered ==
    \A r \in Runner :
        /\ view[r].commit <= head
        /\ pc[r] \in {"run", "report_poll", "report_write"} =>
              view[r].commit <= built[r] /\ built[r] <= head

\* A runner never works on a commit older than one it has abandoned a claim on.
LostBehind ==
    \A r \in Runner, c \in Commit, t \in Task :
        <<r, c, t>> \in lost =>
            /\ c <= head
            /\ pc[r] \notin {"idle", "down"} => c <= view[r].commit

\* The commits are ordered initially.
LEMMA InitOrder == Init => NoFutureStatus /\ Ordered /\ LostBehind
BY TaskAssumption DEF Init, NoFutureStatus, Ordered, LostBehind, NoView, Commit

\* Every step keeps them ordered.
LEMMA StepOrder ==
    ASSUME TypeOK, TypeOK', NoFutureStatus, Ordered, LostBehind, [Next]_vars
    PROVE  NoFutureStatus' /\ Ordered' /\ LostBehind'
<1> USE DEF github, runners, history, past
<1>c. Commit \subseteq Nat
  BY TaskAssumption DEF Commit
<1>1. ASSUME NEW r \in Runner, Query(r) PROVE NoFutureStatus' /\ Ordered' /\ LostBehind'
  BY <1>1, <1>c DEF Query, Awake, Goto, NoFutureStatus, Ordered, LostBehind, TypeOK, View,
     NoView
<1>2. ASSUME NEW r \in Runner, RemoveRerunLabel(r) PROVE NoFutureStatus' /\ Ordered' /\ LostBehind'
  BY <1>2, <1>c DEF RemoveRerunLabel, Awake, Goto, NoFutureStatus, Ordered, LostBehind,
     TypeOK, View, NoView
<1>3. ASSUME NEW r \in Runner, EndScan(r) PROVE NoFutureStatus' /\ Ordered' /\ LostBehind'
  BY <1>3, <1>c DEF EndScan, Awake, SleepThen, Goto, NoFutureStatus, Ordered, LostBehind,
     TypeOK, View, NoView
<1>4. ASSUME NEW r \in Runner, CreateErrorStatus(r) PROVE NoFutureStatus' /\ Ordered' /\ LostBehind'
  <2>1. NoFutureStatus'
    BY <1>4, <1>c DEF CreateErrorStatus, Post, NoFutureStatus, Ordered, TypeOK, View
  <2>2. Ordered' /\ LostBehind'
    BY <1>4, <1>c DEF CreateErrorStatus, Awake, NextTask, Goto, Ordered, LostBehind, TypeOK,
       View
  <2> QED
    BY <2>1, <2>2
<1>5. ASSUME NEW r \in Runner, StalledRaises(r) PROVE NoFutureStatus' /\ Ordered' /\ LostBehind'
  BY <1>5, <1>c DEF StalledRaises, Awake, Considers, Die, SleepThen, Goto, NoFutureStatus,
     Ordered, LostBehind, TypeOK, View, NoView
<1>6. ASSUME NEW r \in Runner, Skip(r) PROVE NoFutureStatus' /\ Ordered' /\ LostBehind'
  BY <1>6, <1>c DEF Skip, Awake, Considers, NextTask, Goto, NoFutureStatus, Ordered,
     LostBehind, TypeOK, View, NoView
<1>7. ASSUME NEW r \in Runner, SetUnassigned(r) PROVE NoFutureStatus' /\ Ordered' /\ LostBehind'
  BY <1>7, <1>c DEF SetUnassigned, Awake, Considers, SleepThen, Goto, NoFutureStatus, Ordered,
     LostBehind, TypeOK, View, NoView
<1>8. ASSUME NEW r \in Runner, SetUnassignedPoll(r) PROVE NoFutureStatus' /\ Ordered' /\ LostBehind'
  BY <1>8, <1>c DEF SetUnassignedPoll, Awake, NextTask, Goto, NoFutureStatus, Ordered,
     LostBehind, TypeOK, View, NoView
<1>9. ASSUME NEW r \in Runner, SetUnassignedWrite(r) PROVE NoFutureStatus' /\ Ordered' /\ LostBehind'
  <2>1. NoFutureStatus'
    BY <1>9, <1>c DEF SetUnassignedWrite, Post, NoFutureStatus, Ordered, TypeOK, View
  <2>2. Ordered' /\ LostBehind'
    BY <1>9, <1>c DEF SetUnassignedWrite, Awake, NextTaskAfterOffer, SeenBefore, Goto,
       Ordered, LostBehind, TypeOK, View
  <2> QED
    BY <2>1, <2>2
<1>10. ASSUME NEW r \in Runner, SetRerun(r) PROVE NoFutureStatus' /\ Ordered' /\ LostBehind'
  BY <1>10, <1>c DEF SetRerun, Awake, Considers, Goto, NoFutureStatus, Ordered, LostBehind,
     TypeOK, View, NoView
<1>11. ASSUME NEW r \in Runner, SetRerunPoll(r) PROVE NoFutureStatus' /\ Ordered' /\ LostBehind'
  BY <1>11, <1>c DEF SetRerunPoll, Awake, NextTask, Goto, NoFutureStatus, Ordered, LostBehind,
     TypeOK, View, NoView
<1>12. ASSUME NEW r \in Runner, SetRerunWrite(r) PROVE NoFutureStatus' /\ Ordered' /\ LostBehind'
  <2>1. NoFutureStatus'
    BY <1>12, <1>c DEF SetRerunWrite, Post, NoFutureStatus, Ordered, TypeOK, View
  <2>2. Ordered' /\ LostBehind'
    BY <1>12, <1>c DEF SetRerunWrite, Awake, NextTaskAfterOffer, SeenBefore, Goto, Ordered,
       LostBehind, TypeOK, View
  <2> QED
    BY <2>1, <2>2
<1>13. ASSUME NEW r \in Runner, Lock(r) PROVE NoFutureStatus' /\ Ordered' /\ LostBehind'
  BY <1>13, <1>c DEF Lock, Awake, Considers, SleepThen, Goto, NoFutureStatus, Ordered,
     LostBehind, TypeOK, View, NoView
<1>14. ASSUME NEW r \in Runner, LockPoll(r) PROVE NoFutureStatus' /\ Ordered' /\ LostBehind'
  BY <1>14, <1>c DEF LockPoll, Awake, NextTask, Goto, NoFutureStatus, Ordered, LostBehind,
     TypeOK, View, NoView
<1>15. ASSUME NEW r \in Runner, LockWrite(r) PROVE NoFutureStatus' /\ Ordered' /\ LostBehind'
  <2>1. NoFutureStatus'
    BY <1>15, <1>c DEF LockWrite, Post, NoFutureStatus, Ordered, TypeOK, View
  <2>2. Ordered' /\ LostBehind'
    BY <1>15, <1>c DEF LockWrite, Awake, SleepThen, Goto, Ordered, LostBehind, TypeOK, View
  <2> QED
    BY <2>1, <2>2
<1>16. ASSUME NEW r \in Runner, LockVerify(r) PROVE NoFutureStatus' /\ Ordered' /\ LostBehind'
  BY <1>16, <1>c DEF LockVerify, Awake, NextTask, Goto, NoFutureStatus, Ordered, LostBehind,
     TypeOK, View, NoView
<1>17. ASSUME NEW r \in Runner, LockTake(r) PROVE NoFutureStatus' /\ Ordered' /\ LostBehind'
  <2>1. NoFutureStatus'
    BY <1>17, <1>c DEF LockTake, Post, NoFutureStatus, Ordered, TypeOK, View
  <2>2. Ordered' /\ LostBehind'
    BY <1>17, <1>c DEF LockTake, Awake, Goto, Ordered, LostBehind, TypeOK, View
  <2> QED
    BY <2>1, <2>2
<1>18. ASSUME NEW r \in Runner, ExecuteCheckout(r) PROVE NoFutureStatus' /\ Ordered' /\ LostBehind'
  BY <1>18, <1>c DEF ExecuteCheckout, Awake, SleepThen, Goto, NoFutureStatus, Ordered,
     LostBehind, TypeOK, View, NoView
<1>19. ASSUME NEW r \in Runner, ExecuteFinish(r) PROVE NoFutureStatus' /\ Ordered' /\ LostBehind'
  BY <1>19, <1>c DEF ExecuteFinish, Awake, SleepThen, Goto, NoFutureStatus, Ordered,
     LostBehind, TypeOK, View, NoView
<1>20. ASSUME NEW r \in Runner, ExecutePoll(r) PROVE NoFutureStatus' /\ Ordered' /\ LostBehind'
  BY <1>20, <1>c DEF ExecutePoll, Awake, NextTask, Goto, NoFutureStatus, Ordered, LostBehind,
     TypeOK, View, NoView
<1>21. ASSUME NEW r \in Runner, ExecuteWrite(r) PROVE NoFutureStatus' /\ Ordered' /\ LostBehind'
  <2>1. NoFutureStatus'
    BY <1>21, <1>c DEF ExecuteWrite, Post, NoFutureStatus, Ordered, TypeOK, View
  <2>2. Ordered' /\ LostBehind'
    BY <1>21, <1>c DEF ExecuteWrite, Awake, NextTask, Goto, Ordered, LostBehind, TypeOK, View
  <2> QED
    BY <2>1, <2>2
<1>22. ASSUME NEW r \in Runner, Restart(r) PROVE NoFutureStatus' /\ Ordered' /\ LostBehind'
  BY <1>22, <1>c DEF Restart, Awake, Goto, NoFutureStatus, Ordered, LostBehind, TypeOK, View,
     NoView
<1>23. ASSUME NEW r \in Runner, Crash(r) PROVE NoFutureStatus' /\ Ordered' /\ LostBehind'
  BY <1>23, <1>c DEF Crash, Awake, Die, SleepThen, Goto, Orphan, Claiming, NoFutureStatus,
     Ordered, LostBehind, TypeOK, View, NoView
<1>24. ASSUME NEW r \in Runner, PollFails(r) PROVE NoFutureStatus' /\ Ordered' /\ LostBehind'
  BY <1>24, <1>c DEF PollFails, Awake, NextTask, Goto, Orphan, Claiming, NoFutureStatus,
     Ordered, LostBehind, TypeOK, View, NoView
<1>25. ASSUME NEW r \in Runner, JobRaises(r) PROVE NoFutureStatus' /\ Ordered' /\ LostBehind'
  BY <1>25, <1>c DEF JobRaises, Awake, NextTask, Goto, Orphan, Claiming, NoFutureStatus,
     Ordered, LostBehind, TypeOK, View, NoView
<1>26. CASE Push
  <2>1. /\ head \in Nat /\ head' = head + 1
        /\ UNCHANGED <<status, pc, view, built, lost>>
    BY <1>26, <1>c DEF Push, TypeOK
  <2>2. \A c \in Commit : c \in Nat
    BY <1>c
  <2>3. \A r \in Runner : view[r].commit \in Nat /\ built[r] \in Nat
    BY <1>c DEF TypeOK, View
  <2>4. NoFutureStatus'
    BY <2>1, <2>2 DEF NoFutureStatus
  <2>5. Ordered'
    BY <2>1, <2>3 DEF Ordered
  <2>6. LostBehind'
    BY <2>1, <2>2 DEF LostBehind
  <2> QED
    BY <2>4, <2>5, <2>6
<1>27. CASE AddRerunLabel
  BY <1>27 DEF AddRerunLabel, NoFutureStatus, Ordered, LostBehind
<1>28. ASSUME NEW t \in Task, OperatorRerun(t)
       PROVE NoFutureStatus' /\ Ordered' /\ LostBehind'
  BY <1>28, <1>c DEF OperatorRerun, NoFutureStatus, Ordered, LostBehind, TypeOK
<1>29. CASE Tick
  <2>1. NoFutureStatus'
    BY <1>29, OlderStatus DEF Tick, NoFutureStatus, TypeOK
  <2>2. \A r \in Runner : view'[r].commit = view[r].commit
    BY <1>29 DEF Tick, TypeOK, View
  <2> QED
    BY <1>29, <2>1, <2>2 DEF Tick, Ordered, LostBehind
<1>30. CASE UNCHANGED vars
  BY <1>30 DEF vars, NoFutureStatus, Ordered, LostBehind
<1> QED
  BY <1>1, <1>2, <1>3, <1>4, <1>5, <1>6, <1>7, <1>8, <1>9, <1>10, <1>11, <1>12,
     <1>13, <1>14, <1>15, <1>16, <1>17, <1>18, <1>19, <1>20, <1>21, <1>22, <1>23,
     <1>24, <1>25, <1>26, <1>27, <1>28, <1>29, <1>30
     DEF Next, Step, Fault
-----------------------------------------------------------------------------
(* Claims.                                                                 *)

\* What makes ClaimHasOwner and ReportMatchesBuild inductive.
IInv ==
    /\ TypeOK
    /\ NoFutureStatus /\ Ordered /\ LostBehind
    /\ ClaimHasOwner
    /\ ReportMatchesBuild

\* ClaimHasOwner, for one job.
Owned(t) ==
    LET s == status[head][t]
    IN  Claimed(s) => WorksOn(s.by, head, t, s.kind) \/ <<s.by, head, t>> \in lost

\* A step of r leaves the other runners alone.
OthersStay(r) ==
    \A q \in Runner \ {r} : pc'[q] = pc[q] /\ view'[q] = view[q] /\ at'[q] = at[q]

\* A status that stays as it is stays owned, if r keeps or loses its own claim.
LEMMA ClaimStays ==
    ASSUME NEW r \in Runner, NEW t \in Task, OthersStay(r), head' = head,
           status'[head][t] = status[head][t], lost \subseteq lost', Owned(t),
           WorksOn(r, head, t, status[head][t].kind) /\ status[head][t].by = r => Owned(t)'
    PROVE  Owned(t)'
BY DEF Owned, OthersStay, WorksOn

\* A runner that is not at a claiming stage works on nothing.
LEMMA NotClaiming ==
    ASSUME NEW r, pc[r] \notin Claiming, NEW c, NEW t, NEW kind
    PROVE  ~WorksOn(r, c, t, kind)
BY DEF WorksOn, Claiming, Executing

\* Every step leaves every claim on the head owned.
LEMMA StepClaims ==
    ASSUME IInv, TypeOK', [Next]_vars
    PROVE  ClaimHasOwner'
<1> USE DEF github, runners, history, past
<1> SUFFICES ASSUME NEW t \in Task PROVE Owned(t)'
  BY DEF ClaimHasOwner, Owned
<1>t. TypeOK /\ Owned(t) /\ head \in Commit
  BY DEF IInv, TypeOK, ClaimHasOwner, Owned
<1>q. ASSUME NEW r \in Runner, pc[r] \notin Claiming, OthersStay(r), head' = head,
             status' = status, lost \subseteq lost'
      PROVE  Owned(t)'
  BY <1>q, <1>t, ClaimStays, NotClaiming
<1>p. ASSUME NEW r \in Runner, NEW s \in Status, ~Claimed(s), Post(r, s), OthersStay(r),
             head' = head, UNCHANGED lost, at[r] \in Task,
             pc[r] \notin Claiming \/ pc[r] = "report_write"
      PROVE  Owned(t)'
  <2>1. view[r].commit \in Commit
    BY <1>t DEF TypeOK, View
  <2>2. CASE view[r].commit = head /\ at[r] = t
    BY <1>p, <1>t, <2>1, <2>2, PostedTable DEF Post, Owned, TypeOK
  <2>3. CASE ~(view[r].commit = head /\ at[r] = t)
    <3>1. status'[head][t] = status[head][t]
      BY <1>p, <1>t, <2>1, <2>3, PostedTable DEF Post, TypeOK
    <3>2. ~WorksOn(r, head, t, status[head][t].kind)
      BY <1>p, <2>3, NotClaiming DEF WorksOn
    <3> QED
      BY <1>p, <1>t, <3>1, <3>2, ClaimStays
  <2> QED
    BY <2>2, <2>3
<1>1. ASSUME NEW r \in Runner, Query(r) PROVE Owned(t)'
  <2>1. OthersStay(r) /\ pc[r] \notin Claiming
    BY <1>1, <1>t DEF Query, Awake, Goto, OthersStay, Claiming, TypeOK
  <2> QED
    BY <1>1, <1>q, <2>1 DEF Query
<1>2. ASSUME NEW r \in Runner, RemoveRerunLabel(r) PROVE Owned(t)'
  <2>1. OthersStay(r) /\ pc[r] \notin Claiming
    BY <1>2, <1>t DEF RemoveRerunLabel, Awake, Goto, OthersStay, Claiming, TypeOK
  <2> QED
    BY <1>2, <1>q, <2>1 DEF RemoveRerunLabel
<1>3. ASSUME NEW r \in Runner, EndScan(r) PROVE Owned(t)'
  <2>1. OthersStay(r) /\ pc[r] \notin Claiming
    BY <1>3, <1>t DEF EndScan, Awake, SleepThen, Goto, OthersStay, Claiming, TypeOK
  <2> QED
    BY <1>3, <1>q, <2>1 DEF EndScan
<1>4. ASSUME NEW r \in Runner, StalledRaises(r) PROVE Owned(t)'
  <2>1. OthersStay(r) /\ pc[r] \notin Claiming
    BY <1>4, <1>t DEF StalledRaises, Awake, Considers, Die, SleepThen, Goto, OthersStay,
       Claiming, TypeOK
  <2> QED
    BY <1>4, <1>q, <2>1 DEF StalledRaises
<1>5. ASSUME NEW r \in Runner, Skip(r) PROVE Owned(t)'
  <2>1. OthersStay(r) /\ pc[r] \notin Claiming
    BY <1>5, <1>t DEF Skip, Awake, Considers, NextTask, Goto, OthersStay, Claiming, TypeOK
  <2> QED
    BY <1>5, <1>q, <2>1 DEF Skip
<1>6. ASSUME NEW r \in Runner, SetUnassigned(r) PROVE Owned(t)'
  <2>1. OthersStay(r) /\ pc[r] \notin Claiming
    BY <1>6, <1>t DEF SetUnassigned, Awake, Considers, SleepThen, Goto, OthersStay, Claiming,
       TypeOK
  <2> QED
    BY <1>6, <1>q, <2>1 DEF SetUnassigned
<1>7. ASSUME NEW r \in Runner, SetUnassignedPoll(r) PROVE Owned(t)'
  <2>1. OthersStay(r) /\ pc[r] \notin Claiming
    BY <1>7, <1>t DEF SetUnassignedPoll, Awake, NextTask, Goto, OthersStay, Claiming, TypeOK
  <2> QED
    BY <1>7, <1>q, <2>1 DEF SetUnassignedPoll
<1>8. ASSUME NEW r \in Runner, SetRerun(r) PROVE Owned(t)'
  <2>1. OthersStay(r) /\ pc[r] \notin Claiming
    BY <1>8, <1>t DEF SetRerun, Awake, Considers, Goto, OthersStay, Claiming, TypeOK
  <2> QED
    BY <1>8, <1>q, <2>1 DEF SetRerun
<1>9. ASSUME NEW r \in Runner, SetRerunPoll(r) PROVE Owned(t)'
  <2>1. OthersStay(r) /\ pc[r] \notin Claiming
    BY <1>9, <1>t DEF SetRerunPoll, Awake, NextTask, Goto, OthersStay, Claiming, TypeOK
  <2> QED
    BY <1>9, <1>q, <2>1 DEF SetRerunPoll
<1>10. ASSUME NEW r \in Runner, Lock(r) PROVE Owned(t)'
  <2>1. OthersStay(r) /\ pc[r] \notin Claiming
    BY <1>10, <1>t DEF Lock, Awake, Considers, SleepThen, Goto, OthersStay, Claiming, TypeOK
  <2> QED
    BY <1>10, <1>q, <2>1 DEF Lock
<1>11. ASSUME NEW r \in Runner, LockPoll(r) PROVE Owned(t)'
  <2>1. OthersStay(r) /\ pc[r] \notin Claiming
    BY <1>11, <1>t DEF LockPoll, Awake, NextTask, Goto, OthersStay, Claiming, TypeOK
  <2> QED
    BY <1>11, <1>q, <2>1 DEF LockPoll
<1>12. ASSUME NEW r \in Runner, Restart(r) PROVE Owned(t)'
  <2>1. OthersStay(r) /\ pc[r] \notin Claiming
    BY <1>12, <1>t DEF Restart, Awake, Goto, OthersStay, Claiming, TypeOK
  <2> QED
    BY <1>12, <1>q, <2>1 DEF Restart
<1>13. ASSUME NEW r \in Runner, CreateErrorStatus(r) PROVE Owned(t)'
  <2>1. OthersStay(r) /\ pc[r] \notin Claiming
    BY <1>13, <1>t DEF CreateErrorStatus, Awake, NextTask, Goto, OthersStay, Claiming, TypeOK
  <2>2. Anonymous("error") \in Status /\ ~Claimed(Anonymous("error"))
    BY PostedStatuses, TaskAssumption DEF Kind, Anonymous, Claimed, Taken, Locked
  <2>3. at[r] \in Task
    BY <1>13, <1>t, TaskAssumption DEF CreateErrorStatus, Awake, TypeOK
  <2> QED
    BY <1>13, <1>p, <2>1, <2>2, <2>3 DEF CreateErrorStatus
<1>14. ASSUME NEW r \in Runner, SetUnassignedWrite(r) PROVE Owned(t)'
  <2>1. OthersStay(r) /\ pc[r] \notin Claiming
    BY <1>14, <1>t DEF SetUnassignedWrite, Awake, NextTaskAfterOffer, SeenBefore, Goto,
       OthersStay, Claiming, TypeOK
  <2>2. Anonymous("unassigned") \in Status /\ ~Claimed(Anonymous("unassigned"))
    BY PostedStatuses DEF Kind, Anonymous, Claimed, Taken, Locked
  <2>3. at[r] \in Task
    BY <1>14, <1>t DEF SetUnassignedWrite, Awake, TypeOK
  <2> QED
    BY <1>14, <1>p, <2>1, <2>2, <2>3 DEF SetUnassignedWrite
<1>15. ASSUME NEW r \in Runner, SetRerunWrite(r) PROVE Owned(t)'
  <2>1. OthersStay(r) /\ pc[r] \notin Claiming
    BY <1>15, <1>t DEF SetRerunWrite, Awake, NextTaskAfterOffer, SeenBefore, Goto, OthersStay,
       Claiming, TypeOK
  <2>2. Anonymous("rerun") \in Status /\ ~Claimed(Anonymous("rerun"))
    BY PostedStatuses DEF Kind, Anonymous, Claimed, Taken, Locked
  <2>3. at[r] \in Task
    BY <1>15, <1>t DEF SetRerunWrite, Awake, TypeOK
  <2> QED
    BY <1>15, <1>p, <2>1, <2>2, <2>3 DEF SetRerunWrite
<1>16. ASSUME NEW r \in Runner, ExecuteWrite(r) PROVE Owned(t)'
  <2>0. PICK outcome \in Outcomes : Post(r, Anonymous(outcome))
    BY <1>16 DEF ExecuteWrite
  <2>1. OthersStay(r) /\ pc[r] = "report_write"
    BY <1>16, <1>t DEF ExecuteWrite, Awake, NextTask, Goto, OthersStay, Claiming, TypeOK
  <2>2. Anonymous(outcome) \in Status /\ ~Claimed(Anonymous(outcome))
    BY PostedStatuses, TaskAssumption DEF Kind, Anonymous, Claimed, Taken, Locked
  <2>3. at[r] \in Task
    BY <1>16, <1>t, TaskAssumption DEF ExecuteWrite, Awake, TypeOK
  <2> QED
    BY <1>16, <1>p, <2>0, <2>1, <2>2, <2>3 DEF ExecuteWrite
<1>17. ASSUME NEW r \in Runner, LockWrite(r) PROVE Owned(t)'
  <2>1. OthersStay(r) /\ at[r] \in Task /\ view[r].commit \in Commit /\ head' = head
    BY <1>17, <1>t DEF LockWrite, Awake, SleepThen, Goto, OthersStay, TypeOK, View
  <2>2. /\ Claim("locked", r) \in Status
        /\ Claim("locked", r).by = r /\ Claim("locked", r).kind = "locked"
    BY PostedStatuses DEF Kind, Claim
  <2>3. CASE view[r].commit = head /\ at[r] = t
    <3>1. status'[head][t] = Claim("locked", r)
      BY <1>17, <1>t, <2>1, <2>2, <2>3, PostedTable DEF LockWrite, Post, TypeOK
    <3>2. pc'[r] = "lock_verify" /\ view'[r] = view[r] /\ at'[r] = at[r]
      BY <1>17, <1>t DEF LockWrite, SleepThen, Goto, TypeOK
    <3> QED
      BY <2>1, <2>2, <2>3, <3>1, <3>2 DEF Owned, WorksOn, Executing
  <2>4. CASE ~(view[r].commit = head /\ at[r] = t)
    <3>1. status'[head][t] = status[head][t]
      BY <1>17, <1>t, <2>1, <2>2, <2>4, PostedTable DEF LockWrite, Post, TypeOK
    <3>2. ~WorksOn(r, head, t, status[head][t].kind)
      BY <2>4 DEF WorksOn
    <3>3. \A q : <<q, head, t>> \in lost => <<q, head, t>> \in lost'
      BY <1>17, <2>4 DEF LockWrite
    <3> QED
      BY <1>t, <2>1, <3>1, <3>2, <3>3 DEF Owned, OthersStay, WorksOn
  <2> QED
    BY <2>3, <2>4
<1>18. ASSUME NEW r \in Runner, LockTake(r) PROVE Owned(t)'
  <2>1. OthersStay(r) /\ at[r] \in Task /\ view[r].commit \in Commit /\ head' = head
    BY <1>18, <1>t DEF LockTake, Awake, Goto, OthersStay, TypeOK, View
  <2>2. /\ Claim("taken", r) \in Status
        /\ Claim("taken", r).by = r /\ Claim("taken", r).kind = "taken"
    BY PostedStatuses DEF Kind, Claim
  <2>3. CASE view[r].commit = head /\ at[r] = t
    <3>1. status'[head][t] = Claim("taken", r)
      BY <1>18, <1>t, <2>1, <2>2, <2>3, PostedTable DEF LockTake, Post, TypeOK
    <3>2. pc'[r] = "checkout" /\ view'[r] = view[r] /\ at'[r] = at[r]
      BY <1>18, <1>t DEF LockTake, Goto, TypeOK
    <3> QED
      BY <2>1, <2>2, <2>3, <3>1, <3>2 DEF Owned, WorksOn, Executing
  <2>4. CASE ~(view[r].commit = head /\ at[r] = t)
    <3>1. status'[head][t] = status[head][t]
      BY <1>18, <1>t, <2>1, <2>2, <2>4, PostedTable DEF LockTake, Post, TypeOK
    <3>2. ~WorksOn(r, head, t, status[head][t].kind)
      BY <2>4 DEF WorksOn
    <3>3. \A q : <<q, head, t>> \in lost => <<q, head, t>> \in lost'
      BY <1>18, <2>4 DEF LockTake
    <3> QED
      BY <1>t, <2>1, <3>1, <3>2, <3>3 DEF Owned, OthersStay, WorksOn
  <2> QED
    BY <2>3, <2>4
<1>19. ASSUME NEW r \in Runner, LockVerify(r) PROVE Owned(t)'
  <2>1. OthersStay(r)
    BY <1>19, <1>t DEF LockVerify, NextTask, Goto, OthersStay, TypeOK
  <2>2. ASSUME WorksOn(r, head, t, status[head][t].kind), status[head][t].by = r,
               Claimed(status[head][t])
        PROVE  WorksOn(r, head, t, status[head][t].kind)'
    <3>1. SameDescription(Polled(r), "locked", r)
      BY <1>19, <2>2
         DEF LockVerify, Awake, WorksOn, Executing, Polled, SameDescription, Claimed, Taken, Locked
    <3> QED
      BY <1>19, <1>t, <2>2, <3>1
         DEF LockVerify, Awake, Goto, WorksOn, Executing, Polled, SameDescription, TypeOK
  <2> QED
    BY <1>19, <1>t, <2>1, <2>2, ClaimStays DEF LockVerify, Owned
<1>20. ASSUME NEW r \in Runner, ExecutePoll(r) PROVE Owned(t)'
  <2>1. OthersStay(r)
    BY <1>20, <1>t DEF ExecutePoll, NextTask, Goto, OthersStay, TypeOK
  <2>2. ASSUME WorksOn(r, head, t, status[head][t].kind), status[head][t].by = r,
               Claimed(status[head][t])
        PROVE  WorksOn(r, head, t, status[head][t].kind)'
    <3>1. SameDescription(Polled(r), "taken", r)
      BY <1>20, <2>2
         DEF ExecutePoll, Awake, WorksOn, Executing, Polled, SameDescription, Claimed, Taken, Locked
    <3> QED
      BY <1>20, <1>t, <2>2, <3>1
         DEF ExecutePoll, Awake, Goto, WorksOn, Executing, Polled, SameDescription, TypeOK
  <2> QED
    BY <1>20, <1>t, <2>1, <2>2, ClaimStays DEF ExecutePoll, Owned
<1>21. ASSUME NEW r \in Runner, ExecuteCheckout(r) PROVE Owned(t)'
  <2>1. OthersStay(r)
    BY <1>21, <1>t DEF ExecuteCheckout, SleepThen, Goto, OthersStay, TypeOK
  <2>2. ASSUME WorksOn(r, head, t, status[head][t].kind)
        PROVE  WorksOn(r, head, t, status[head][t].kind)'
    BY <1>21, <1>t, <2>2 DEF ExecuteCheckout, Awake, SleepThen, Goto, WorksOn, Executing, TypeOK
  <2> QED
    BY <1>21, <1>t, <2>1, <2>2, ClaimStays DEF ExecuteCheckout, Owned
<1>22. ASSUME NEW r \in Runner, ExecuteFinish(r) PROVE Owned(t)'
  <2>1. OthersStay(r)
    BY <1>22, <1>t DEF ExecuteFinish, SleepThen, Goto, OthersStay, TypeOK
  <2>2. ASSUME WorksOn(r, head, t, status[head][t].kind)
        PROVE  WorksOn(r, head, t, status[head][t].kind)'
    BY <1>22, <1>t, <2>2 DEF ExecuteFinish, Awake, SleepThen, Goto, WorksOn, Executing, TypeOK
  <2> QED
    BY <1>22, <1>t, <2>1, <2>2, ClaimStays DEF ExecuteFinish, Owned
<1>23. ASSUME NEW r \in Runner, Crash(r) PROVE Owned(t)'
  <2>1. OthersStay(r)
    BY <1>23, <1>t DEF Crash, Die, SleepThen, Goto, OthersStay, TypeOK
  <2>2. lost \subseteq lost'
    BY <1>23 DEF Crash, Orphan
  <2>3. ASSUME WorksOn(r, head, t, status[head][t].kind)
        PROVE  <<r, head, t>> \in lost'
    <3>1. pc[r] \in Claiming
      BY <2>3, NotClaiming
    <3> QED
      BY <1>23, <2>3, <3>1 DEF Crash, Orphan, WorksOn
  <2> QED
    BY <1>23, <1>t, <2>1, <2>2, <2>3, ClaimStays DEF Crash, Owned
<1>24. ASSUME NEW r \in Runner, PollFails(r) PROVE Owned(t)'
  <2>1. OthersStay(r)
    BY <1>24, <1>t DEF PollFails, NextTask, Goto, OthersStay, TypeOK
  <2>2. lost \subseteq lost'
    BY <1>24 DEF PollFails, Orphan
  <2>3. ASSUME WorksOn(r, head, t, status[head][t].kind)
        PROVE  <<r, head, t>> \in lost'
    <3>1. pc[r] \in Claiming
      BY <2>3, NotClaiming
    <3> QED
      BY <1>24, <2>3, <3>1 DEF PollFails, Orphan, WorksOn
  <2> QED
    BY <1>24, <1>t, <2>1, <2>2, <2>3, ClaimStays DEF PollFails, Owned
<1>25. ASSUME NEW r \in Runner, JobRaises(r) PROVE Owned(t)'
  <2>1. OthersStay(r)
    BY <1>25, <1>t DEF JobRaises, NextTask, Goto, OthersStay, TypeOK
  <2>2. lost \subseteq lost'
    BY <1>25 DEF JobRaises, Orphan
  <2>3. ASSUME WorksOn(r, head, t, status[head][t].kind)
        PROVE  <<r, head, t>> \in lost'
    <3>1. pc[r] \in Claiming
      BY <2>3, NotClaiming
    <3> QED
      BY <1>25, <2>3, <3>1 DEF JobRaises, Orphan, WorksOn
  <2> QED
    BY <1>25, <1>t, <2>1, <2>2, <2>3, ClaimStays DEF JobRaises, Owned
<1>26. CASE Push
  <2>1. head' \in Commit /\ head' > head /\ status' = status
    BY <1>26, <1>t, TaskAssumption DEF Push, TypeOK, Commit
  <2>2. status'[head'][t] = NoStatus
    BY <2>1 DEF IInv, NoFutureStatus
  <2> QED
    BY <2>2 DEF Owned, Claimed, Taken, Locked, NoStatus
<1>27. CASE AddRerunLabel
  BY <1>27, <1>t DEF AddRerunLabel, Owned, WorksOn
<1>28. ASSUME NEW u \in Task, OperatorRerun(u) PROVE Owned(t)'
  <2>1. Anonymous("unassigned") \in Status /\ ~Claimed(Anonymous("unassigned"))
    BY PostedStatuses DEF Kind, Anonymous, Claimed, Taken, Locked
  <2>2. CASE u = t
    BY <1>28, <1>t, <2>1, <2>2, PostedTable DEF OperatorRerun, Owned, TypeOK
  <2>3. CASE u # t
    <3>1. status'[head][t] = status[head][t]
      BY <1>28, <1>t, <2>1, <2>3, PostedTable DEF OperatorRerun, TypeOK
    <3> QED
      BY <1>28, <1>t, <3>1 DEF OperatorRerun, Owned, WorksOn
  <2> QED
    BY <2>2, <2>3
<1>29. CASE Tick
  <2>1. status[head][t] \in Status /\ status'[head][t] = Older(status[head][t])
    BY <1>29, <1>t DEF Tick, TypeOK
  <2>2. /\ status'[head][t].kind = status[head][t].kind
        /\ status'[head][t].by = status[head][t].by
    BY <2>1, OlderStatus
  <2>3. \A r \in Runner : view'[r].commit = view[r].commit
    BY <1>29, <1>t DEF Tick, TypeOK, View
  <2> QED
    BY <1>29, <1>t, <2>2, <2>3 DEF Tick, Owned, WorksOn, Claimed, Taken, Locked
<1>30. CASE UNCHANGED vars
  BY <1>30, <1>t DEF vars, Owned, WorksOn
<1> QED
  BY <1>1, <1>2, <1>3, <1>4, <1>5, <1>6, <1>7, <1>8, <1>9, <1>10, <1>11, <1>12,
     <1>13, <1>14, <1>15, <1>16, <1>17, <1>18, <1>19, <1>20, <1>21, <1>22,
     <1>23, <1>24, <1>25, <1>26, <1>27, <1>28, <1>29, <1>30
     DEF Next, Step, Fault

\* A report is only about the commit that was built: the claim that the last
\* poll confirms is on the head, so the head is the commit of the snapshot, and
\* what was built lies between the two.
LEMMA StepReports ==
    ASSUME IInv, TypeOK', [Next]_vars
    PROVE  ReportMatchesBuild'
<1> USE DEF github, runners, history, past
<1> SUFFICES ASSUME NEW r \in Runner, pc'[r] = "report_write"
             PROVE  built'[r] = view'[r].commit
  BY DEF ReportMatchesBuild
<1>t. TypeOK /\ Commit \subseteq Nat
  BY TaskAssumption DEF IInv, Commit
<1>1. ASSUME ExecutePoll(r) PROVE built'[r] = view'[r].commit
  <2>1. /\ pc[r] = "report_poll" /\ at[r] \in Task
        /\ Taken(status[head][at[r]]) /\ status[head][at[r]].by = r
        /\ UNCHANGED <<built, view>>
    BY <1>1, <1>t
       DEF ExecutePoll, Awake, NextTask, Goto, Polled, SameDescription, Taken, TypeOK
  <2>2. view[r].commit = head \/ <<r, head, at[r]>> \in lost
    BY <2>1 DEF IInv, ClaimHasOwner, Claimed, WorksOn
  <2>3. view[r].commit <= built[r] /\ built[r] <= head
    BY <2>1 DEF IInv, Ordered
  <2>4. view[r].commit \in Nat /\ built[r] \in Nat /\ head \in Nat /\ head \in Commit
    BY <1>t DEF TypeOK, View
  <2>5. <<r, head, at[r]>> \in lost => head <= view[r].commit
    BY <2>1, <2>4 DEF IInv, LostBehind
  <2>6. head <= view[r].commit
    BY <2>2, <2>4, <2>5
  <2> QED
    BY <2>1, <2>6, <2>3, <2>4
<1>2. ASSUME ~ExecutePoll(r)
      PROVE  /\ pc[r] = "report_write"
             /\ built'[r] = built[r] /\ view'[r].commit = view[r].commit
  <2> DEFINE Same == /\ pc[r] = "report_write"
                    /\ built'[r] = built[r] /\ view'[r].commit = view[r].commit
  <2> SUFFICES Same
    OBVIOUS
  <2>1. ASSUME NEW q \in Runner, Query(q) PROVE Same
    BY <1>t, <2>1 DEF Query, Goto, TypeOK
  <2>2. ASSUME NEW q \in Runner, RemoveRerunLabel(q) PROVE Same
    BY <1>t, <2>2 DEF RemoveRerunLabel, Goto, TypeOK
  <2>3. ASSUME NEW q \in Runner, EndScan(q) PROVE Same
    BY <1>t, <2>3 DEF EndScan, SleepThen, Goto, TypeOK
  <2>4. ASSUME NEW q \in Runner, CreateErrorStatus(q) PROVE Same
    BY <1>t, <2>4 DEF CreateErrorStatus, NextTask, Goto, TypeOK
  <2>5. ASSUME NEW q \in Runner, StalledRaises(q) PROVE Same
    BY <1>t, <2>5 DEF StalledRaises, Considers, Die, SleepThen, Goto, TypeOK
  <2>6. ASSUME NEW q \in Runner, Skip(q) PROVE Same
    BY <1>t, <2>6 DEF Skip, Considers, NextTask, Goto, TypeOK
  <2>7. ASSUME NEW q \in Runner, SetUnassigned(q) PROVE Same
    BY <1>t, <2>7 DEF SetUnassigned, Considers, SleepThen, Goto, TypeOK
  <2>8. ASSUME NEW q \in Runner, SetUnassignedPoll(q) PROVE Same
    BY <1>t, <2>8 DEF SetUnassignedPoll, NextTask, Goto, TypeOK
  <2>9. ASSUME NEW q \in Runner, SetUnassignedWrite(q) PROVE Same
    BY <1>t, <2>9 DEF SetUnassignedWrite, NextTaskAfterOffer, SeenBefore, Goto, TypeOK
  <2>10. ASSUME NEW q \in Runner, SetRerun(q) PROVE Same
    BY <1>t, <2>10 DEF SetRerun, Considers, Goto, TypeOK
  <2>11. ASSUME NEW q \in Runner, SetRerunPoll(q) PROVE Same
    BY <1>t, <2>11 DEF SetRerunPoll, NextTask, Goto, TypeOK
  <2>12. ASSUME NEW q \in Runner, SetRerunWrite(q) PROVE Same
    BY <1>t, <2>12 DEF SetRerunWrite, NextTaskAfterOffer, SeenBefore, Goto, TypeOK
  <2>13. ASSUME NEW q \in Runner, Lock(q) PROVE Same
    BY <1>t, <2>13 DEF Lock, Considers, SleepThen, Goto, TypeOK
  <2>14. ASSUME NEW q \in Runner, LockPoll(q) PROVE Same
    BY <1>t, <2>14 DEF LockPoll, NextTask, Goto, TypeOK
  <2>15. ASSUME NEW q \in Runner, LockWrite(q) PROVE Same
    BY <1>t, <2>15 DEF LockWrite, SleepThen, Goto, TypeOK
  <2>16. ASSUME NEW q \in Runner, LockVerify(q) PROVE Same
    BY <1>t, <2>16 DEF LockVerify, NextTask, Goto, TypeOK
  <2>17. ASSUME NEW q \in Runner, LockTake(q) PROVE Same
    BY <1>t, <2>17 DEF LockTake, Goto, TypeOK
  <2>18. ASSUME NEW q \in Runner, ExecuteCheckout(q) PROVE Same
    BY <1>t, <2>18 DEF ExecuteCheckout, SleepThen, Goto, TypeOK
  <2>19. ASSUME NEW q \in Runner, ExecuteFinish(q) PROVE Same
    BY <1>t, <2>19 DEF ExecuteFinish, SleepThen, Goto, TypeOK
  <2>20. ASSUME NEW q \in Runner, ExecutePoll(q) PROVE Same
    <3>1. q # r
      BY <1>2, <2>20
    <3> QED
      BY <1>t, <2>20, <3>1 DEF ExecutePoll, NextTask, Goto, TypeOK
  <2>21. ASSUME NEW q \in Runner, ExecuteWrite(q) PROVE Same
    BY <1>t, <2>21 DEF ExecuteWrite, NextTask, Goto, TypeOK
  <2>22. ASSUME NEW q \in Runner, Restart(q) PROVE Same
    BY <1>t, <2>22 DEF Restart, Goto, TypeOK
  <2>23. ASSUME NEW q \in Runner, Crash(q) PROVE Same
    BY <1>t, <2>23 DEF Crash, Die, SleepThen, Goto, TypeOK
  <2>24. ASSUME NEW q \in Runner, PollFails(q) PROVE Same
    BY <1>t, <2>24 DEF PollFails, NextTask, Goto, TypeOK
  <2>25. ASSUME NEW q \in Runner, JobRaises(q) PROVE Same
    BY <1>t, <2>25 DEF JobRaises, NextTask, Goto, TypeOK
  <2>26. CASE Push
    BY <2>26 DEF Push
  <2>27. CASE AddRerunLabel
    BY <2>27 DEF AddRerunLabel
  <2>28. ASSUME NEW t \in Task, OperatorRerun(t) PROVE Same
    BY <2>28 DEF OperatorRerun
  <2>29. CASE Tick
    BY <1>t, <2>29 DEF Tick, TypeOK, View
  <2>30. CASE UNCHANGED vars
    BY <2>30 DEF vars
  <2> QED
    BY <2>1, <2>2, <2>3, <2>4, <2>5, <2>6, <2>7, <2>8, <2>9, <2>10, <2>11, <2>12,
     <2>13, <2>14, <2>15, <2>16, <2>17, <2>18, <2>19, <2>20, <2>21, <2>22,
     <2>23, <2>24, <2>25, <2>26, <2>27, <2>28, <2>29, <2>30 DEF Next, Step, Fault
<1> QED
  BY <1>1, <1>2 DEF IInv, ReportMatchesBuild

-----------------------------------------------------------------------------
(* The invariant and what it says of the runners.                          *)

\* IInv is inductive.
THEOREM InductiveInvariant == Spec => []IInv
<1>1. Init => IInv
  <2> SUFFICES ASSUME Init PROVE IInv
    OBVIOUS
  <2>1. 0 \in Commit /\ head = 0
    BY TaskAssumption DEF Init, Commit
  <2>2. ClaimHasOwner
    BY <2>1 DEF Init, ClaimHasOwner, Claimed, Taken, Locked, NoStatus
  <2>3. ReportMatchesBuild
    BY DEF Init, ReportMatchesBuild
  <2> QED
    BY <2>2, <2>3, InitType, InitOrder DEF IInv
<1>2. IInv /\ [Next]_vars => IInv'
  BY StepType, StepOrder, StepClaims, StepReports DEF IInv
<1> QED
  BY <1>1, <1>2, PTL DEF Spec

\* No claim on the head is ever without a runner at work on it, faults aside.
THEOREM ClaimsOwned == Spec => []ClaimHasOwner
<1>1. IInv => ClaimHasOwner
  BY DEF IInv
<1> QED
  BY <1>1, InductiveInvariant, PTL

\* However runners and pushes interleave, a result is only ever posted on the
\* commit it is the result of.
THEOREM ReportsMatchBuilds == Spec => []ReportMatchesBuild
<1>1. IInv => ReportMatchesBuild
  BY DEF IInv
<1> QED
  BY <1>1, InductiveInvariant, PTL
=============================================================================

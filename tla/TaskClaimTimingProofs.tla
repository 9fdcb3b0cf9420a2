----------------------- MODULE TaskClaimTimingProofs -----------------------
(***************************************************************************)
(* What the timers of Task.lock and of Status.stalled achieve, for any     *)
(* number of runners and jobs, any sleeps, pushes, faults and stale        *)
(* claims: of the runners that find the present offer of a job at most     *)
(* one executes it, results stay, the runners keep an orderly ledger, and  *)
(* a stale claim is a lost one or that of a job beyond its timeout.        *)
(*                                                                         *)
(* Runners are prompt: nothing but the sleeps and the jobs takes time.  A  *)
(* runner then polls and posts at one instant, which the others share.     *)
(***************************************************************************)
EXTENDS ClaimRefinementProofs

\* Time stands still between a poll and the call after it, and the waits of
\* Task.lock take some time.
Timely == Prompt /\ PollSleep > 0 /\ RaceTimeout > 0

-----------------------------------------------------------------------------
(* The invariant.                                                          *)

\* A runner has found a job of its snapshot free, and goes for it.
Seeking == {"lock_poll", "lock_write"} \cup Claiming

\* Runner r has polled the present offer of its job.
Invited(r) == seen[r] \in {"unassigned", "rerun"}

\* What a runner has polled, it posts at once.
Immediate ==
    \A r \in Runner :
        pc[r] \in {"unassign_write", "rerun_write", "lock_write", "lock_take", "checkout",
                   "report_write"}
            => sleep[r] = 0

\* Runners are at work on jobs that are defined, free in the snapshot and whose
\* requirements it meets, and set for rerun those that are neither free nor missing.
Judged ==
    \A r \in Runner :
        /\ pc[r] \notin {"idle", "unlabel", "scan", "down"} => at[r] \notin Malformed
        /\ pc[r] \in Seeking => Available(Viewed(r)) /\ CheckDependencies(r)
        /\ pc[r] \in {"rerun_poll", "rerun_write"} =>
              ~Missing(Viewed(r)) /\ ~Available(Viewed(r))

\* What a snapshot of the head says is out of date in some ways only: a status that was
\* there is there, a success is one unless the job is disputed.
Known ==
    \A r \in Runner, t \in Task :
        view[r].commit = head =>
            /\ ~Missing(view[r].st[t]) => ~Missing(status[head][t])
            /\ Succeeded(view[r].st[t]) => Succeeded(status[head][t]) \/ t \in disputed

\* A job that is not defined has no status but an error, or an operator's.
MalformedStay ==
    \A c \in Commit, t \in Malformed :
        status[c][t] \in {NoStatus, Anonymous("error"), Anonymous("unassigned")}

\* The status that runner r polled on the head, as far as it has not changed since.
Found(r) ==
    LET kind == Polled(r).kind IN
    /\ at[r] \notin disputed =>
          /\ pc[r] = "unassign_write" => kind \in {"none", "unassigned"}
          /\ pc[r] = "rerun_write" => kind \notin {"none", "success"}
          /\ pc[r] \in {"lock_write", "lock_take"} =>
                kind \in {"unassigned", "rerun", "locked", "taken"}
          /\ pc[r] = "report_write" => SameDescription(Polled(r), "taken", r)
    /\ pc[r] \in Claiming /\ Invited(r) => ~Available(Polled(r))

AllFound == \A r \in Runner : view[r].commit = head => Found(r)

\* While a runner is about to post the first status of a job, no snapshot has a later one.
Unseen ==
    \A q, r \in Runner :
        /\ pc[q] = "unassign_write" /\ at[q] \notin disputed
        /\ view[q].commit = head /\ view[r].commit = head
        => view[r].st[at[q]].kind \in {"none", "unassigned"}

Together(q, r) == q # r /\ view[q].commit = head /\ view[r].commit = head /\ at[q] = at[r]

\* Runner r could report at this instant.
Reporting(r) ==
    \/ pc[r] = "report_write"
    \/ /\ pc[r] = "report_poll" \/ (pc[r] = "run" /\ sleep[r] = 0)
       /\ SameDescription(Polled(r), "taken", r)

\* Runner q is about to post: how far the other runners at that job may be.
Apart(q, r) ==
    /\ at[q] \notin disputed =>
          /\ pc[q] = "unassign_write" =>
                /\ pc[r] \notin Claiming \cup {"lock_write"}
                /\ pc[r] = "lock_poll" => sleep[r] > 0
          /\ pc[q] \in {"rerun_write", "lock_write", "lock_take"} => ~Reporting(r)
    /\ pc[q] = "lock_write" /\ Invited(q) /\ pc[r] \in Claiming /\ Invited(r) =>
          pc[r] = "lock_verify" /\ sleep[r] > 0

AllApart == \A q, r \in Runner : Together(q, r) => Apart(q, r)

\* Runner r has won the job that it is at, or would if it looked now.
Winning(r) ==
    \/ pc[r] \in {"lock_take"} \cup Executing
    \/ pc[r] = "lock_verify" /\ view[r].commit = head /\ SameDescription(Polled(r), "locked", r)

\* Of the runners that found the present offer of a job, one wins.
OneWins ==
    \A q, r \in Runner :
        /\ q # r /\ view[q].commit = view[r].commit /\ at[q] = at[r]
        /\ Invited(q) /\ Invited(r)
        => ~(Winning(q) /\ Winning(r))

TimedInv ==
    /\ Immediate /\ Judged /\ Known /\ MalformedStay
    /\ AllFound /\ Unseen /\ AllApart /\ OneWins

\* It holds initially.
LEMMA InitTimed == Init => TimedInv
<1> SUFFICES ASSUME Init PROVE TimedInv
  OBVIOUS
<1>1. head \in Commit /\ \A t \in Task : NoView.st[t] = NoStatus
  BY TaskAssumption DEF Init, Commit, NoView
<1>2. Immediate
  BY DEF Init, Immediate
<1>3. Judged
  BY DEF Init, Judged, Seeking, Claiming
<1>4. Known
  BY <1>1 DEF Init, Known, NoStatus, Missing, Succeeded
<1>5. MalformedStay
  BY TaskAssumption DEF Init, MalformedStay
<1>6. AllFound /\ Unseen /\ AllApart /\ OneWins
  BY DEF Init, AllFound, Found, Unseen, AllApart, Apart, OneWins, Winning, Executing, Claiming
<1> QED
  BY <1>2, <1>3, <1>4, <1>5, <1>6 DEF TimedInv

-----------------------------------------------------------------------------
(* The kinds of steps, with what the timers need to know of them.          *)

\* Runner r alone does something.  Others may learn of no more than a new offer.
Alone(r) ==
    /\ head' = head /\ disputed \subseteq disputed'
    /\ \A q \in Runner \ {r} :
          /\ pc'[q] = pc[q] /\ view'[q] = view[q] /\ at'[q] = at[q] /\ sleep'[q] = sleep[q]
          /\ seen'[q] \in {seen[q], "none"}

\* Runner r turns away from its job, or to the scan.
Parks(r) ==
    /\ Alone(r) /\ status' = status
    /\ pc'[r] \in {"idle", "unlabel", "scan", "down", "unassign_poll"}
    /\ pc'[r] = "unassign_poll" => at'[r] \notin Malformed
    /\ \/ view'[r] \in {view[r], NoView}
       \/ view'[r].commit = head /\ view'[r].st = status[head]

\* Runner r goes on, awake, with its job.
Moves(r, from, to) ==
    /\ Alone(r) /\ status' = status
    /\ view'[r] = view[r] /\ at'[r] = at[r] /\ at[r] \in Task
    /\ pc[r] = from /\ sleep[r] = 0 /\ pc'[r] = to

\* Runner r, awake, posts s.
Puts(r, s, from, to) ==
    /\ Alone(r) /\ Post(r, s) /\ view'[r] = view[r] /\ at[r] \in Task
    /\ pc[r] = from /\ sleep[r] = 0 /\ pc'[r] = to

\* Nobody who has claimed runner r's job has polled the offer that r posts.
Reoffers(r) ==
    \A q \in Runner \ {r} :
        pc[q] \in Claiming /\ view[q].commit = view[r].commit /\ at[q] = at[r]
            => seen'[q] = "none"

Works(r) ==
    \/ /\ Moves(r, "unassign_poll", "unassign_write") /\ sleep'[r] = 0
       /\ view[r].commit = head => Missing(Polled(r)) \/ at[r] \in disputed'
    \/ /\ Moves(r, "scan", "rerun_poll") /\ at[r] \notin Malformed
       /\ ~Missing(Viewed(r)) /\ ~Available(Viewed(r))
    \/ /\ Moves(r, "rerun_poll", "rerun_write") /\ Rerunnable(Polled(r))
       /\ disputed' = Contested(r) /\ sleep'[r] = 0
    \/ /\ Moves(r, "scan", "lock_poll") /\ at[r] \notin Malformed
       /\ Available(Viewed(r)) /\ CheckDependencies(r) /\ sleep'[r] = PollSleep
    \/ /\ Moves(r, "lock_poll", "lock_write") /\ Lockable(Polled(r))
       /\ seen'[r] = Polled(r).kind /\ sleep'[r] = 0
    \/ /\ Moves(r, "lock_verify", "lock_take") /\ SameDescription(Polled(r), "locked", r)
       /\ seen'[r] = seen[r] /\ sleep'[r] = 0
    \/ Moves(r, "checkout", "run") /\ seen'[r] = seen[r] /\ sleep'[r] = 1
    \/ Moves(r, "run", "report_poll") /\ seen'[r] = seen[r]
    \/ /\ Moves(r, "report_poll", "report_write") /\ SameDescription(Polled(r), "taken", r)
       /\ seen'[r] = seen[r] /\ sleep'[r] = 0

Writes(r) ==
    \/ Puts(r, Anonymous("error"), "scan", "scan") /\ at[r] \in Malformed
    \/ Puts(r, Anonymous("unassigned"), "unassign_write", "scan") /\ Reoffers(r)
    \/ Puts(r, Anonymous("rerun"), "rerun_write", "scan") /\ Reoffers(r)
    \/ /\ Puts(r, Claim("locked", r), "lock_write", "lock_verify")
       /\ at'[r] = at[r] /\ seen'[r] = seen[r] /\ sleep'[r] = RaceTimeout
    \/ /\ Puts(r, Claim("taken", r), "lock_take", "checkout")
       /\ at'[r] = at[r] /\ seen'[r] = seen[r] /\ sleep'[r] = 0
    \/ \E outcome \in Outcomes : Puts(r, Anonymous(outcome), "report_write", "scan")

\* Every step of a runner is of one of these kinds.
LEMMA TimedKinds ==
    ASSUME TypeOK, Judged, NEW r \in Runner, Step(r) \/ Fault(r)
    PROVE  Parks(r) \/ Works(r) \/ Writes(r)
<1> USE DEF github, runners, history, past, Alone
<1>t. TypeOK
  OBVIOUS
<1>m. pc[r] \notin {"idle", "unlabel", "scan", "down"} => at[r] \notin Malformed
  BY DEF Judged
<1>1. CASE Query(r)
  BY <1>1, <1>t DEF Query, Awake, Goto, TypeOK, Parks
<1>2. CASE RemoveRerunLabel(r)
  BY <1>2, <1>t DEF RemoveRerunLabel, Awake, Goto, TypeOK, Parks
<1>3. CASE EndScan(r)
  BY <1>3, <1>t DEF EndScan, Awake, SleepThen, Goto, TypeOK, Parks
<1>4. CASE CreateErrorStatus(r)
  <2>1. at[r] \in Task
    BY <1>4, TaskAssumption DEF CreateErrorStatus
  <2>2. Puts(r, Anonymous("error"), "scan", "scan")
    BY <1>4, <1>t, <2>1 DEF CreateErrorStatus, Awake, NextTask, Goto, TypeOK, Puts
  <2> QED
    BY <1>4, <2>2 DEF CreateErrorStatus, Writes
<1>5. CASE StalledRaises(r)
  BY <1>5, <1>t DEF StalledRaises, Considers, Awake, Die, SleepThen, Goto, TypeOK, Parks
<1>6. CASE Skip(r)
  BY <1>6, <1>t DEF Skip, Considers, Awake, NextTask, Goto, TypeOK, Parks
<1>7. CASE SetUnassigned(r)
  BY <1>7, <1>t DEF SetUnassigned, Considers, Awake, SleepThen, Goto, TypeOK, Parks
<1>8. CASE SetUnassignedPoll(r)
  <2>1. CASE Missing(Polled(r)) /\ pc' = [pc EXCEPT ![r] = "unassign_write"] /\ UNCHANGED <<at, seen, disputed>>
    BY <1>8, <1>t, <2>1 DEF SetUnassignedPoll, Awake, Goto, TypeOK, Moves, Works
  <2>2. CASE NextTask(r) /\ UNCHANGED disputed
    BY <1>8, <1>t, <2>2 DEF SetUnassignedPoll, Awake, NextTask, Goto, TypeOK, Parks
  <2>3. CASE /\ pc' = [pc EXCEPT ![r] = "unassign_write"] /\ UNCHANGED <<at, seen>>
             /\ disputed' = IF view[r].commit = head /\ ~Missing(Polled(r))
                               THEN disputed \cup {at[r]} ELSE disputed
    BY <1>8, <1>t, <2>3 DEF SetUnassignedPoll, Awake, Goto, TypeOK, Moves, Works
  <2> QED
    BY <1>8, <2>1, <2>2, <2>3 DEF SetUnassignedPoll, Goto
<1>9. CASE SetUnassignedWrite(r)
  <2>1. Reoffers(r)
    BY <1>9 DEF SetUnassignedWrite, NextTaskAfterOffer, SeenBefore, Reoffers
  <2> QED
    BY <1>9, <1>t, <2>1
       DEF SetUnassignedWrite, Awake, NextTaskAfterOffer, SeenBefore, Goto, TypeOK, Puts, Writes
<1>10. CASE SetRerun(r)
  <2>1. ~Missing(Viewed(r)) /\ ~Available(Viewed(r))
    BY <1>10 DEF SetRerun, WantsRerun, Failed, Stalled, Taken, Locked, Missing, Available
  <2> QED
    BY <1>10, <1>t, <2>1 DEF SetRerun, Considers, Awake, Goto, TypeOK, Moves, Works
<1>11. CASE SetRerunPoll(r)
  <2>1. CASE /\ Rerunnable(Polled(r)) /\ Goto(r, "rerun_write")
             /\ disputed' = Contested(r) /\ UNCHANGED <<at, seen>>
    BY <1>11, <1>t, <2>1 DEF SetRerunPoll, Awake, Goto, TypeOK, Contested, Moves, Works
  <2>2. CASE NextTask(r) /\ UNCHANGED disputed
    BY <1>11, <1>t, <2>2 DEF SetRerunPoll, Awake, NextTask, Goto, TypeOK, Parks
  <2> QED
    BY <1>11, <2>1, <2>2 DEF SetRerunPoll
<1>12. CASE SetRerunWrite(r)
  <2>1. Reoffers(r)
    BY <1>12 DEF SetRerunWrite, NextTaskAfterOffer, SeenBefore, Reoffers
  <2> QED
    BY <1>12, <1>t, <2>1
       DEF SetRerunWrite, Awake, NextTaskAfterOffer, SeenBefore, Goto, TypeOK, Contested,
           Puts, Writes
<1>13. CASE Lock(r)
  BY <1>13, <1>t DEF Lock, Considers, MayLock, Awake, SleepThen, Goto, TypeOK, Moves, Works
<1>14. CASE LockPoll(r)
  <2>1. CASE /\ Lockable(Polled(r)) /\ Goto(r, "lock_write")
             /\ seen' = [seen EXCEPT ![r] = Polled(r).kind] /\ UNCHANGED at
    BY <1>14, <1>t, <2>1 DEF LockPoll, Awake, Goto, TypeOK, Moves, Works
  <2>2. CASE NextTask(r)
    BY <1>14, <1>t, <2>2 DEF LockPoll, Awake, NextTask, Goto, TypeOK, Parks
  <2> QED
    BY <1>14, <2>1, <2>2 DEF LockPoll
<1>15. CASE LockWrite(r)
  BY <1>15, <1>t, TaskAssumption DEF LockWrite, Awake, SleepThen, Goto, TypeOK, Puts, Writes
<1>16. CASE LockVerify(r)
  <2>1. CASE SameDescription(Polled(r), "locked", r)
    BY <1>16, <1>t, <2>1 DEF LockVerify, Awake, Goto, TypeOK, Moves, Works
  <2>2. CASE ~SameDescription(Polled(r), "locked", r)
    BY <1>16, <1>t, <2>2 DEF LockVerify, Awake, NextTask, Goto, TypeOK, Parks
  <2> QED
    BY <2>1, <2>2
<1>17. CASE LockTake(r)
  BY <1>17, <1>t DEF LockTake, Awake, Goto, TypeOK, Puts, Writes
<1>18. CASE ExecuteCheckout(r)
  BY <1>18, <1>t DEF ExecuteCheckout, Awake, SleepThen, Goto, TypeOK, Moves, Works
<1>19. CASE ExecuteFinish(r)
  BY <1>19, <1>t DEF ExecuteFinish, Awake, SleepThen, Goto, TypeOK, Moves, Works
<1>20. CASE ExecutePoll(r)
  <2>1. CASE SameDescription(Polled(r), "taken", r)
    BY <1>20, <1>t, <2>1 DEF ExecutePoll, Awake, Goto, TypeOK, Moves, Works
  <2>2. CASE ~SameDescription(Polled(r), "taken", r)
    BY <1>20, <1>t, <2>2 DEF ExecutePoll, Awake, NextTask, Goto, TypeOK, Parks
  <2> QED
    BY <2>1, <2>2
<1>21. CASE ExecuteWrite(r)
  <2>1. PICK outcome \in Outcomes : Post(r, Anonymous(outcome))
    BY <1>21 DEF ExecuteWrite
  <2>2. Puts(r, Anonymous(outcome), "report_write", "scan")
    BY <1>21, <1>t, <2>1 DEF ExecuteWrite, Awake, NextTask, Goto, TypeOK, Puts
  <2> QED
    BY <2>2 DEF Writes
<1>22. CASE Restart(r)
  BY <1>22, <1>t DEF Restart, Awake, Goto, TypeOK, Parks
<1>23. CASE Crash(r)
  BY <1>23, <1>t DEF Crash, Die, SleepThen, Goto, TypeOK, Parks
<1>24. CASE PollFails(r)
  BY <1>24, <1>t DEF PollFails, NextTask, Goto, TypeOK, Parks
<1>25. CASE JobRaises(r)
  BY <1>25, <1>t DEF JobRaises, NextTask, Goto, TypeOK, Parks
<1> QED
  BY <1>1, <1>2, <1>3, <1>4, <1>5, <1>6, <1>7, <1>8, <1>9, <1>10, <1>11, <1>12, <1>13,
     <1>14, <1>15, <1>16, <1>17, <1>18, <1>19, <1>20, <1>21, <1>22, <1>23, <1>24, <1>25
     DEF Step, Fault

-----------------------------------------------------------------------------
(* What every runner can tell of the others.                               *)

\* What a runner does, by kind.
Does(r) == Parks(r) \/ Works(r) \/ Writes(r)

\* A post changes one status.
LEMMA PutsOne ==
    ASSUME TypeOK, NEW r \in Runner, NEW s, NEW from, NEW to, Puts(r, s, from, to)
    PROVE  \A c \in Commit, t \in Task :
              status'[c][t] = IF c = view[r].commit /\ t = at[r] THEN s ELSE status[c][t]
BY DEF TypeOK, View, Puts, Post

\* A lock on the head that names a runner which verifies it is the one it has posted.
LEMMA LockIsOwn ==
    ASSUME IInv, NEW r \in Runner, pc[r] = "lock_verify", SameDescription(Polled(r), "locked", r)
    PROVE  view[r].commit = head
<1>i. TypeOK /\ Ordered /\ LostBehind
  BY DEF IInv
<1>t. at[r] \in Task /\ head \in Commit /\ view[r].commit \in Commit
  BY <1>i DEF TypeOK, View
<1>n. Commit \subseteq Nat
  BY TaskAssumption DEF Commit
<1>1. WorksOn(r, head, at[r], "locked") \/ <<r, head, at[r]>> \in lost
  BY <1>t DEF IInv, ClaimHasOwner, SameDescription, Polled, Claimed, Locked
<1>2. CASE WorksOn(r, head, at[r], "locked")
  BY <1>2 DEF WorksOn
<1>3. CASE <<r, head, at[r]>> \in lost
  <2>1. head <= view[r].commit /\ view[r].commit <= head
    BY <1>3, <1>i, <1>t DEF LostBehind, Ordered
  <2>2. head \in Nat /\ view[r].commit \in Nat
    BY <1>t, <1>n
  <2> QED
    BY <2>1, <2>2
<1> QED
  BY <1>1, <1>2, <1>3

\* What a runner is about to post on a job that is not disputed replaces no success.
LEMMA WriteOverNoSuccess ==
    ASSUME TypeOK, Judged, MalformedStay, AllFound, NEW r \in Runner, Writes(r),
           view[r].commit = head, at[r] \notin disputed
    PROVE  at[r] \in Task /\ ~Succeeded(status[head][at[r]])
<1>1. at[r] \in Task /\ head \in Commit
  BY DEF Writes, Puts, TypeOK
<1>2. CASE at[r] \in Malformed
  BY <1>1, <1>2 DEF MalformedStay, Succeeded, NoStatus, Anonymous
<1>3. CASE at[r] \notin Malformed
  <2>1. pc[r] \in {"unassign_write", "rerun_write", "lock_write", "lock_take", "report_write"}
    BY <1>3 DEF Writes, Puts
  <2>2. Found(r)
    BY DEF AllFound
  <2> QED
    BY <1>1, <2>1, <2>2 DEF Found, Polled, Succeeded, SameDescription
<1> QED
  BY <1>1, <1>2, <1>3

\* What is posted says that the job is there.
LEMMA WriteShows ==
    ASSUME TypeOK, NEW r \in Runner, Writes(r)
    PROVE  /\ at[r] \in Task
           /\ \E s \in Status :
                 /\ ~Missing(s)
                 /\ s.by \in {r, NoRunner}
                 /\ s.kind \in {"locked", "taken"} <=> s.by = r
                 /\ \A c \in Commit, t \in Task :
                       status'[c][t] = IF c = view[r].commit /\ t = at[r] THEN s ELSE status[c][t]
<1> DEFINE Shows(s) ==
              /\ s \in Status /\ ~Missing(s)
              /\ s.by \in {r, NoRunner}
              /\ s.kind \in {"locked", "taken"} <=> s.by = r
<1>k. {"unassigned", "rerun", "error", "success", "failure", "locked", "taken"} \subseteq Kind
  BY DEF Kind
<1>1. Shows(Anonymous("error")) /\ Shows(Anonymous("unassigned")) /\ Shows(Anonymous("rerun"))
  BY <1>k, PostedStatuses, StatusAssumption DEF Anonymous, Missing
<1>2. Shows(Claim("locked", r)) /\ Shows(Claim("taken", r))
  BY <1>k, PostedStatuses, StatusAssumption DEF Claim, Missing
<1>3. \A outcome \in Outcomes : Shows(Anonymous(outcome))
  <2>1. Outcomes \subseteq {"success", "failure", "error"}
    BY TaskAssumption
  <2> QED
    BY <1>k, <2>1, PostedStatuses, StatusAssumption DEF Anonymous, Missing
<1>4. PICK s, from, to : Shows(s) /\ Puts(r, s, from, to)
  BY <1>1, <1>2, <1>3 DEF Writes
<1> HIDE DEF Shows
<1>5. \A c \in Commit, t \in Task :
          status'[c][t] = IF c = view[r].commit /\ t = at[r] THEN s ELSE status[c][t]
  BY <1>4, PutsOne
<1> QED
  BY <1>4, <1>5 DEF Shows, Puts

-----------------------------------------------------------------------------
(* A runner's step keeps every part of the invariant.                      *)

\* What was polled is posted at once.
LEMMA DoesImmediate ==
    ASSUME Immediate, NEW r \in Runner, Does(r)
    PROVE  Immediate'
<1>1. CASE Parks(r)
  BY <1>1 DEF Parks, Alone, Immediate
<1>2. CASE Works(r)
  BY <1>2 DEF Works, Moves, Alone, Immediate
<1>3. CASE Writes(r)
  BY <1>3 DEF Writes, Puts, Alone, Immediate
<1> QED
  BY <1>1, <1>2, <1>3 DEF Does

\* A runner goes for a job that its snapshot shows free, and sets for rerun another.
LEMMA DoesJudged ==
    ASSUME Judged, NEW r \in Runner, Does(r)
    PROVE  Judged'
<1>o. \A q \in Runner \ {r} :
        /\ pc'[q] = pc[q] /\ at'[q] = at[q]
        /\ Viewed(q)' = Viewed(q) /\ CheckDependencies(q)' = CheckDependencies(q)
  BY DEF Does, Parks, Works, Writes, Moves, Puts, Alone, Viewed, CheckDependencies
<1>1. SUFFICES
        /\ pc'[r] \notin {"idle", "unlabel", "scan", "down"} => at'[r] \notin Malformed
        /\ pc'[r] \in Seeking => Available(Viewed(r))' /\ CheckDependencies(r)'
        /\ pc'[r] \in {"rerun_poll", "rerun_write"} =>
              ~Missing(Viewed(r))' /\ ~Available(Viewed(r))'
  BY <1>o DEF Judged, Missing, Available
<1>2. CASE Parks(r)
  BY <1>2 DEF Parks, Seeking, Claiming
<1>3. ASSUME view'[r] = view[r], at'[r] = at[r]
      PROVE  /\ Available(Viewed(r))' = Available(Viewed(r))
             /\ Missing(Viewed(r))' = Missing(Viewed(r))
             /\ CheckDependencies(r)' = CheckDependencies(r)
  BY <1>3 DEF Viewed, CheckDependencies, Available, Missing
<1>4. CASE Works(r)
  BY <1>3, <1>4 DEF Works, Moves, Judged, Seeking, Claiming
<1>5. CASE Writes(r)
  BY <1>3, <1>5 DEF Writes, Puts, Judged, Seeking, Claiming
<1> QED
  BY <1>2, <1>4, <1>5 DEF Does

\* What a snapshot shows as there, or as a success, is so on the head.
LEMMA DoesKnown ==
    ASSUME TypeOK, TypeOK', Judged, Known, MalformedStay, AllFound, NEW r \in Runner, Does(r)
    PROVE  Known' /\ MalformedStay'
<1>h. head' = head /\ head \in Commit /\ disputed \subseteq disputed'
  BY DEF Does, Parks, Works, Writes, Moves, Puts, Alone, TypeOK
<1>n. \A t \in Task : NoView.st[t] = NoStatus
  BY DEF NoView
<1>1. CASE Parks(r)
  <2>1. status' = status /\ \A q \in Runner \ {r} : view'[q] = view[q]
    BY <1>1 DEF Parks, Alone
  <2>2. view'[r] \in {view[r], NoView} \/ view'[r].st = status[head]
    BY <1>1 DEF Parks
  <2>3. MalformedStay'
    BY <2>1 DEF MalformedStay
  <2>4. Known'
    BY <1>h, <1>n, <2>1, <2>2 DEF Known, NoStatus, Missing, Succeeded
  <2> QED
    BY <2>3, <2>4
<1>2. CASE Works(r)
  <2>1. status' = status /\ \A q \in Runner : view'[q] = view[q]
    BY <1>2 DEF Works, Moves, Alone
  <2>2. Known'
    BY <1>h, <2>1 DEF Known
  <2> QED
    BY <2>1, <2>2 DEF MalformedStay
<1>3. CASE Writes(r)
  <2>1. \A q \in Runner : view'[q] = view[q]
    BY <1>3 DEF Writes, Puts, Alone
  <2>2. at[r] \in Task /\ \E s \in Status :
            /\ ~Missing(s)
            /\ \A c \in Commit, t \in Task :
                  status'[c][t] = IF c = view[r].commit /\ t = at[r] THEN s ELSE status[c][t]
    BY <1>3, WriteShows
  <2>3. view[r].commit = head /\ at[r] \notin disputed => ~Succeeded(status[head][at[r]])
    BY <1>3, WriteOverNoSuccess
  <2>4. Known'
    BY <1>h, <2>1, <2>2, <2>3 DEF Known
  <2>5. MalformedStay'
    <3>1. CASE at[r] \in Malformed
      <4>1. Puts(r, Anonymous("error"), "scan", "scan")
        BY <1>3, <3>1 DEF Writes, Puts, Judged
      <4>2. \A c \in Commit, t \in Task : status'[c][t] \in {Anonymous("error"), status[c][t]}
        BY <4>1, PutsOne
      <4> QED
        BY <4>2, TaskAssumption DEF MalformedStay
    <3>2. CASE at[r] \notin Malformed
      BY <2>2, <3>2, TaskAssumption DEF MalformedStay
    <3> QED
      BY <3>1, <3>2
  <2> QED
    BY <2>4, <2>5
<1> QED
  BY <1>1, <1>2, <1>3 DEF Does

\* A snapshot is of the statuses of now.
LEMMA DoesUnseen ==
    ASSUME TypeOK, Known, AllFound, Unseen, NEW r \in Runner, Does(r)
    PROVE  Unseen'
<1>h. head' = head /\ head \in Commit /\ disputed \subseteq disputed'
  BY DEF Does, Parks, Works, Writes, Moves, Puts, Alone, TypeOK
<1>n. \A t \in Task : NoView.st[t].kind = "none"
  BY DEF NoView, NoStatus
<1>v. \A p \in Runner :
        \/ view'[p] \in {view[p], NoView}
        \/ p = r /\ pc'[r] # "unassign_write" /\ view'[p].st = status[head]
  BY DEF Does, Parks, Works, Writes, Moves, Puts, Alone
<1> SUFFICES ASSUME NEW q \in Runner, NEW p \in Runner,
                    pc'[q] = "unassign_write", at'[q] \notin disputed',
                    view'[q].commit = head, view'[p].commit = head
             PROVE  view'[p].st[at'[q]].kind \in {"none", "unassigned"}
  BY <1>h DEF Unseen
<1>1. CASE q # r
  <2>1. pc[q] = "unassign_write" /\ at'[q] = at[q] /\ view'[q] = view[q] /\ at[q] \in Task
    BY <1>1 DEF Does, Parks, Works, Writes, Moves, Puts, Alone, TypeOK
  <2>2. status[head][at[q]].kind \in {"none", "unassigned"}
    BY <1>h, <2>1 DEF AllFound, Found, Polled
  <2> QED
    BY <1>h, <1>n, <1>v, <2>1, <2>2 DEF Unseen
<1>2. CASE q = r
  <2>1. Moves(r, "unassign_poll", "unassign_write") /\ Missing(Polled(r))
    BY <1>2 DEF Does, Parks, Works, Writes, Moves, Puts
  <2>2. view'[p] = view[p] /\ at'[q] = at[q] /\ at[q] \in Task
    BY <1>2, <2>1 DEF Moves, Alone
  <2>3. Missing(view[p].st[at[q]])
    BY <1>2, <2>1, <2>2 DEF Known, Missing, Polled
  <2> QED
    BY <2>2, <2>3 DEF Missing
<1> QED
  BY <1>1, <1>2

\* A runner that would report on the head has its claim.
LEMMA ReportingLive ==
    ASSUME TypeOK, Kept, NEW r \in Runner, pc[r] \in Claiming, view[r].commit = head,
           SameDescription(Polled(r), "taken", r)
    PROVE  Live(at[r])
BY DEF TypeOK, Kept, Mine, SameDescription, Polled, Live, Claimed, Taken

\* What a runner polled stays as it was, as far as it depends on it.
LEMMA DoesFound ==
    ASSUME TypeOK, Judged, AllFound, Unseen, AllApart, NEW r \in Runner, Does(r)
    PROVE  AllFound'
<1>h. head' = head /\ head \in Commit /\ disputed \subseteq disputed'
  BY DEF Does, Parks, Works, Writes, Moves, Puts, Alone, TypeOK
<1> SUFFICES ASSUME NEW q \in Runner, view'[q].commit = head PROVE Found(q)'
  BY <1>h DEF AllFound
<1>1. CASE Parks(r)
  <2>1. CASE q = r
    BY <1>1, <2>1 DEF Parks, Found, Claiming
  <2>2. CASE q # r
    BY <1>1, <1>h, <2>2 DEF Parks, Alone, AllFound, Found, Polled, Invited
  <2> QED
    BY <2>1, <2>2
<1>2. CASE Works(r)
  <2>1. CASE q = r
    <3>1. view[r].commit = head /\ Polled(r)' = Polled(r) /\ at'[r] = at[r]
      BY <1>2, <2>1 DEF Works, Moves, Alone, Polled
    <3>2. Found(r)
      BY <3>1 DEF AllFound
    <3> QED
      BY <1>2, <1>h, <2>1, <3>1, <3>2
         DEF Works, Moves, Found, Claiming, Missing, Lockable, Available, Locked, Invited,
             Rerunnable, Succeeded, SameDescription
  <2>2. CASE q # r
    BY <1>2, <1>h, <2>2 DEF Works, Moves, Alone, AllFound, Found, Polled, Invited
  <2> QED
    BY <2>1, <2>2
<1>3. CASE Writes(r)
  <2>1. \A p \in Runner \ {r} : pc'[p] = pc[p] /\ at'[p] = at[p] /\ (Invited(p)' => Invited(p))
    BY <1>3 DEF Writes, Puts, Alone, Invited
  <2>2. view'[q] = view[q]
    BY <1>3 DEF Writes, Puts, Alone
  <2>3. CASE q # r /\ ~(view[r].commit = head /\ at[r] = at[q])
    <3>1. CASE at[q] \in Task
      <4>1. status'[head][at[q]] = status[head][at[q]]
        BY <1>3, <1>h, <2>3, <3>1, WriteShows
      <4> QED
        BY <1>h, <2>1, <2>2, <2>3, <4>1 DEF AllFound, Found, Polled
    <3>2. CASE at[q] \notin Task
      <4>1. pc'[q] \in {"idle", "unlabel", "scan", "down"}
        BY <2>1, <2>3, <3>2 DEF TypeOK
      <4> QED
        BY <4>1 DEF Found, Claiming
    <3> QED
      BY <3>1, <3>2
  <2>4. CASE q # r /\ view[r].commit = head /\ at[r] = at[q]
    <3>1. Apart(q, r) /\ Apart(r, q) /\ Found(q) /\ Found(r)
      BY <2>2, <2>4 DEF Together, AllApart, AllFound
    <3>2. Polled(q) = Polled(r) /\ pc'[q] = pc[q] /\ at'[q] = at[q]
      BY <2>1, <2>4 DEF Polled
    <3>3. at'[q] \notin disputed' => at[q] \notin disputed /\ at[r] \notin disputed
      BY <1>h, <2>4, <3>2
    <3>4. CASE Puts(r, Anonymous("error"), "scan", "scan") /\ at[r] \in Malformed
      <4>1. pc'[q] \in {"idle", "unlabel", "scan", "down"}
        BY <2>4, <3>2, <3>4 DEF Judged
      <4> QED
        BY <4>1 DEF Found, Claiming
    <3>5. CASE Puts(r, Anonymous("unassigned"), "unassign_write", "scan") /\ Reoffers(r)
      <4>1. Polled(q)'.kind = "unassigned"
        BY <1>h, <2>4, <3>2, <3>5, PutsOne DEF Puts, Polled, Anonymous
      <4>2. pc[q] \in Claiming => ~Invited(q)'
        BY <2>2, <2>4, <3>5 DEF Reoffers, Invited
      <4>3. at'[q] \notin disputed' => pc[q] # "report_write"
        BY <3>1, <3>3, <3>5 DEF Puts, Apart, Claiming
      <4> QED
        BY <3>2, <4>1, <4>2, <4>3 DEF Found
    <3>6. CASE Puts(r, Anonymous("rerun"), "rerun_write", "scan") /\ Reoffers(r)
      <4>1. Polled(q)'.kind = "rerun"
        BY <1>h, <2>4, <3>2, <3>6, PutsOne DEF Puts, Polled, Anonymous
      <4>2. pc[q] \in Claiming => ~Invited(q)'
        BY <2>2, <2>4, <3>6 DEF Reoffers, Invited
      <4>3. at'[q] \notin disputed' => pc[q] # "report_write"
        BY <3>1, <3>3, <3>6 DEF Puts, Apart, Reporting
      <4>4. at'[q] \notin disputed' => pc[q] # "unassign_write"
        <5>1. ~Missing(Viewed(r)) /\ ~Available(Viewed(r))
          BY <3>6 DEF Puts, Judged
        <5>2. pc[q] = "unassign_write" /\ at[q] \notin disputed =>
                view[r].st[at[q]].kind \in {"none", "unassigned"}
          BY <2>2, <2>4 DEF Unseen
        <5> QED
          BY <2>4, <3>3, <5>1, <5>2 DEF Viewed, Missing, Available
      <4> QED
        BY <3>2, <4>1, <4>2, <4>3, <4>4 DEF Found
    <3>7. ASSUME NEW kind \in {"locked", "taken"}, Polled(q)' = Claim(kind, r),
                 pc[r] \in {"lock_write", "lock_take"}
          PROVE  Found(q)'
      <4>1. at'[q] \notin disputed' => pc[q] \notin {"unassign_write", "report_write"}
        BY <3>1, <3>3, <3>7 DEF Apart, Claiming, Reporting
      <4> QED
        BY <3>2, <3>7, <4>1 DEF Found, Claim, Available
    <3>8. CASE Puts(r, Claim("locked", r), "lock_write", "lock_verify")
      <4>1. Polled(q)' = Claim("locked", r)
        BY <1>h, <2>4, <3>2, <3>8, PutsOne DEF Puts, Polled
      <4> QED
        BY <3>7, <3>8, <4>1 DEF Puts
    <3>9. CASE Puts(r, Claim("taken", r), "lock_take", "checkout")
      <4>1. Polled(q)' = Claim("taken", r)
        BY <1>h, <2>4, <3>2, <3>9, PutsOne DEF Puts, Polled
      <4> QED
        BY <3>7, <3>9, <4>1 DEF Puts
    <3>10. ASSUME NEW outcome \in Outcomes, Puts(r, Anonymous(outcome), "report_write", "scan")
           PROVE  Found(q)'
      <4>1. Polled(q)'.kind = outcome
        BY <1>h, <2>4, <3>2, <3>10, PutsOne DEF Puts, Polled, Anonymous
      <4>2. outcome \in {"success", "failure", "error"}
        BY TaskAssumption
      <4>3. at'[q] \notin disputed' =>
              pc[q] \notin {"unassign_write", "rerun_write", "lock_write", "lock_take"}
        BY <3>1, <3>3, <3>10 DEF Puts, Apart, Claiming, Reporting
      <4>4. at'[q] \notin disputed' => pc[q] # "report_write"
        BY <2>4, <3>1, <3>2, <3>3, <3>10 DEF Puts, Found, SameDescription
      <4> QED
        BY <3>2, <4>1, <4>2, <4>3, <4>4 DEF Found, Available
    <3> QED
      BY <1>3, <3>4, <3>5, <3>6, <3>8, <3>9, <3>10 DEF Writes
  <2>5. CASE q = r
    <3>1. CASE pc'[r] = "scan"
      BY <2>5, <3>1 DEF Found, Claiming
    <3>2. CASE Puts(r, Claim("locked", r), "lock_write", "lock_verify") /\ at'[r] = at[r]
      <4>1. Polled(q)' = Claim("locked", r)
        BY <1>h, <2>2, <2>5, <3>2, PutsOne DEF Puts, Polled
      <4> QED
        BY <2>5, <3>2, <4>1 DEF Puts, Found, Claim, Available
    <3>3. CASE Puts(r, Claim("taken", r), "lock_take", "checkout") /\ at'[r] = at[r]
      <4>1. Polled(q)' = Claim("taken", r)
        BY <1>h, <2>2, <2>5, <3>3, PutsOne DEF Puts, Polled
      <4> QED
        BY <2>5, <3>3, <4>1 DEF Puts, Found, Claim, Available
    <3> QED
      BY <1>3, <3>1, <3>2, <3>3 DEF Writes, Puts
  <2> QED
    BY <2>3, <2>4, <2>5
<1> QED
  BY <1>1, <1>2, <1>3 DEF Does

\* Nobody but r finds its own claim in what r posts.
LEMMA WriteNamesOnlySelf ==
    ASSUME TypeOK, NEW r \in Runner, Writes(r), NEW q \in Runner \ {r}, NEW kind, at[q] \in Task,
           SameDescription(Polled(q)', kind, q)
    PROVE  SameDescription(Polled(q), kind, q)
<1>1. head' = head /\ at'[q] = at[q] /\ head \in Commit
  BY DEF Writes, Puts, Alone, TypeOK
<1>2. status'[head][at[q]] = status[head][at[q]] \/ status'[head][at[q]].by \in {r, NoRunner}
  BY <1>1, WriteShows
<1> QED
  BY <1>1, <1>2, StatusAssumption DEF SameDescription, Polled

\* The runners at one job of the head stay as far apart as their timers put them.
LEMMA DoesApart ==
    ASSUME Timely, TypeOK, Kept, Judged, Known, AllFound, AllApart, NEW r \in Runner, Does(r)
    PROVE  AllApart'
<1>h. head' = head /\ head \in Commit /\ disputed \subseteq disputed'
  BY DEF Does, Parks, Works, Writes, Moves, Puts, Alone, TypeOK
<1>o. \A p \in Runner \ {r} :
        /\ pc'[p] = pc[p] /\ at'[p] = at[p] /\ view'[p] = view[p] /\ sleep'[p] = sleep[p]
        /\ Invited(p)' => Invited(p)
  BY DEF Does, Parks, Works, Writes, Moves, Puts, Alone, Invited
<1>t. PollSleep > 0 /\ RaceTimeout > 0
  BY DEF Timely
<1>w. \A p \in Runner \ {r} : Reporting(p)' => Reporting(p)
  <2> SUFFICES ASSUME NEW p \in Runner \ {r}, Reporting(p)', pc[p] # "report_write"
               PROVE  SameDescription(Polled(p), "taken", p)
    BY <1>o DEF Reporting
  <2>1. pc[p] \in {"report_poll", "run"} /\ SameDescription(Polled(p)', "taken", p)
    BY <1>o DEF Reporting
  <2>2. CASE status' = status
    BY <1>h, <1>o, <2>1, <2>2 DEF Polled
  <2>3. CASE Writes(r)
    <3>1. at[p] \in Task
      BY <2>1 DEF TypeOK
    <3> QED
      BY <2>1, <2>3, <3>1, WriteNamesOnlySelf
  <2> QED
    BY <2>2, <2>3 DEF Does, Parks, Works, Moves
<1> SUFFICES ASSUME NEW q \in Runner, NEW p \in Runner, Together(q, p)' PROVE Apart(q, p)'
  BY DEF AllApart
<1>g. q # p /\ view'[q].commit = head /\ view'[p].commit = head /\ at'[q] = at'[p]
  BY <1>h DEF Together
<1>1. CASE q # r /\ p # r
  <2>1. Apart(q, p)
    BY <1>o, <1>g, <1>1 DEF Together, AllApart
  <2> QED
    BY <1>h, <1>o, <1>w, <1>1, <2>1 DEF Apart
<1>2. CASE q = r
  <2>1. CASE Parks(r) \/ Writes(r)
    BY <1>2, <2>1 DEF Parks, Writes, Puts, Apart
  <2>2. CASE Works(r)
    <3>1. /\ Found(p) /\ Polled(p) = Polled(r) /\ at[p] = at[r] /\ at'[r] = at[r]
          /\ at[p] \in Task /\ view[p].commit = head /\ view[r].commit = head
      BY <1>h, <1>o, <1>g, <1>2, <2>2 DEF Works, Moves, AllFound, Polled
    <3>2. pc'[p] = pc[p] /\ (Reporting(p)' => Reporting(p)) /\ (Invited(p)' => Invited(p))
      BY <1>g, <1>o, <1>w, <1>2
    <3>3. ASSUME Reporting(p), at'[r] \notin disputed'
          PROVE  SameDescription(Polled(p), "taken", p)
      BY <1>h, <3>1, <3>3 DEF Reporting, Found
    <3>4. CASE Moves(r, "unassign_poll", "unassign_write") /\ pc'[r] = "unassign_write"
      <4>1. ASSUME at'[r] \notin disputed' PROVE pc[p] \notin Seeking
        <5> SUFFICES ASSUME pc[p] \in Seeking PROVE FALSE
          OBVIOUS
        <5>1. Available(Viewed(p))
          BY DEF Judged
        <5>2. ~Missing(Polled(p))
          BY <3>1, <5>1 DEF Known, Viewed, Polled, Available, Missing
        <5>3. Missing(Polled(r))
          BY <2>2, <3>1, <3>4, <4>1 DEF Works, Moves
        <5> QED
          BY <3>1, <5>2, <5>3
      <4> QED
        BY <1>2, <3>2, <3>4, <4>1 DEF Apart, Seeking
    <3>5. CASE Moves(r, "rerun_poll", "rerun_write") /\ disputed' = Contested(r)
      <4>1. ASSUME at'[r] \notin disputed' PROVE ~Reporting(p)
        <5> SUFFICES ASSUME Reporting(p) PROVE FALSE
          OBVIOUS
        <5>1. Live(at[p])
          BY <3>1, <3>3, <4>1, ReportingLive DEF Reporting, Claiming
        <5> QED
          BY <3>1, <3>5, <4>1, <5>1 DEF Contested
      <4> QED
        BY <1>2, <3>2, <3>5, <4>1 DEF Apart, Moves
    <3>6. CASE /\ Moves(r, "lock_poll", "lock_write") /\ Lockable(Polled(r))
               /\ seen'[r] = Polled(r).kind
      <4>1. ASSUME at'[r] \notin disputed' PROVE ~Reporting(p)
        BY <3>1, <3>3, <3>6, <4>1 DEF Lockable, Available, Locked, SameDescription
      <4>2. Invited(r)' => ~(pc[p] \in Claiming /\ Invited(p))
        BY <3>1, <3>6 DEF Invited, Found, Available
      <4> QED
        BY <1>2, <3>2, <3>6, <4>1, <4>2 DEF Apart, Moves
    <3>7. CASE Moves(r, "lock_verify", "lock_take") /\ SameDescription(Polled(r), "locked", r)
      <4>1. ASSUME at'[r] \notin disputed' PROVE ~Reporting(p)
        BY <3>1, <3>3, <3>7, <4>1 DEF SameDescription
      <4> QED
        BY <1>2, <3>2, <3>7, <4>1 DEF Apart, Moves
    <3>8. CASE pc'[r] \notin {"unassign_write", "rerun_write", "lock_write", "lock_take"}
      BY <1>2, <3>8 DEF Apart
    <3> QED
      BY <2>2, <3>4, <3>5, <3>6, <3>7, <3>8 DEF Works, Moves
  <2> QED
    BY <2>1, <2>2 DEF Does
<1>3. CASE p = r
  <2>1. CASE pc'[r] \in {"idle", "unlabel", "scan", "down", "unassign_poll", "rerun_poll",
                         "rerun_write", "unassign_write"}
    BY <1>3, <2>1 DEF Apart, Claiming, Reporting
  <2>2. CASE pc'[r] \notin {"idle", "unlabel", "scan", "down", "unassign_poll", "rerun_poll",
                            "rerun_write", "unassign_write"}
    <3>k. (Works(r) \/ Writes(r)) /\ view'[r] = view[r] /\ at'[r] = at[r] /\ at[r] \in Task
      BY <2>2 DEF Does, Parks, Works, Writes, Moves, Puts
    <3>1. Apart(q, r)
      BY <1>h, <1>o, <1>g, <1>3, <3>k DEF Together, AllApart
    <3>2. /\ pc'[q] = pc[q] /\ at'[q] = at[q] /\ (Invited(q)' => Invited(q))
          /\ at'[q] \notin disputed' => at[q] \notin disputed
      BY <1>g, <1>h, <1>o, <1>3
    <3>3. CASE Works(r)
      <4>1. Polled(r)' = Polled(r)
        BY <1>h, <3>k, <3>3 DEF Works, Moves, Polled
      <4>2. Reporting(r)' => Reporting(r)
        BY <3>3, <4>1 DEF Works, Moves, Reporting
      <4>3. ASSUME pc[q] = "unassign_write", at[q] \notin disputed
            PROVE  /\ pc'[r] \notin Claiming \cup {"lock_write"}
                   /\ pc'[r] = "lock_poll" => sleep'[r] > 0
        BY <1>t, <3>1, <3>3, <4>3 DEF Works, Moves, Apart, Claiming
      <4>4. ASSUME pc[q] = "lock_write", Invited(q), pc'[r] \in Claiming, Invited(r)'
            PROVE  FALSE
        <5>1. pc[r] \in Claiming /\ Invited(r) /\ sleep[r] = 0
          BY <3>3, <4>4 DEF Works, Moves, Claiming, Invited
        <5> QED
          BY <3>1, <4>4, <5>1 DEF Apart
      <4> QED
        BY <1>3, <3>1, <3>2, <4>2, <4>3, <4>4 DEF Apart
    <3>4. CASE Writes(r)
      <4>1. ~Reporting(r)' /\ pc'[r] \in {"lock_verify", "checkout"}
        BY <2>2, <3>4 DEF Writes, Puts, Reporting
      <4>2. pc[r] \in {"lock_write", "lock_take"} /\ sleep[r] = 0
        BY <2>2, <3>4 DEF Writes, Puts
      <4>3. ~(pc[q] = "unassign_write" /\ at[q] \notin disputed)
        BY <3>1, <4>2 DEF Apart, Claiming
      <4>4. ASSUME pc[q] = "lock_write", Invited(q), Invited(r)'
            PROVE  pc'[r] = "lock_verify" /\ sleep'[r] > 0
        <5>1. Invited(r)
          BY <2>2, <3>4, <4>4 DEF Writes, Puts, Invited
        <5>2. pc[r] # "lock_take"
          BY <3>1, <4>4, <5>1 DEF Apart, Claiming
        <5> QED
          BY <1>t, <2>2, <3>4, <5>2 DEF Writes, Puts
      <4> QED
        BY <1>3, <3>2, <4>1, <4>3, <4>4 DEF Apart
    <3> QED
      BY <3>k, <3>3, <3>4
  <2> QED
    BY <2>1, <2>2
<1> QED
  BY <1>1, <1>2, <1>3

\* A second runner never wins what another one has won.
LEMMA DoesOneWins ==
    ASSUME IInv, AllApart, OneWins, NEW r \in Runner, Does(r)
    PROVE  OneWins'
<1>t. TypeOK
  BY DEF IInv
<1>h. head' = head /\ head \in Commit
  BY <1>t DEF Does, Parks, Works, Writes, Moves, Puts, Alone, TypeOK
<1>o. \A p \in Runner \ {r} :
        pc'[p] = pc[p] /\ at'[p] = at[p] /\ view'[p] = view[p] /\ (Invited(p)' => Invited(p))
  BY DEF Does, Parks, Works, Writes, Moves, Puts, Alone, Invited
<1>w. \A p \in Runner \ {r} : Winning(p)' => Winning(p)
  <2> SUFFICES ASSUME NEW p \in Runner \ {r}, Winning(p)', pc[p] = "lock_verify" PROVE Winning(p)
    BY <1>o DEF Winning
  <2>1. view[p].commit = head /\ SameDescription(Polled(p)', "locked", p) /\ at[p] \in Task
    BY <1>h, <1>o, <1>t DEF Winning, Executing, TypeOK
  <2>2. SameDescription(Polled(p), "locked", p)
    <3>1. CASE status' = status
      BY <1>h, <1>o, <2>1, <3>1 DEF Polled
    <3>2. CASE Writes(r)
      BY <1>t, <2>1, <3>2, WriteNamesOnlySelf
    <3> QED
      BY <3>1, <3>2 DEF Does, Parks, Works, Moves
  <2> QED
    BY <2>1, <2>2 DEF Winning
<1>s. Winning(r)' => /\ view'[r] = view[r] /\ at'[r] = at[r] /\ seen'[r] = seen[r]
                     /\ at[r] \in Task
                     /\ Winning(r) \/ (Puts(r, Claim("locked", r), "lock_write", "lock_verify")
                                       /\ view[r].commit = head)
  <2> SUFFICES ASSUME Winning(r)'
               PROVE  /\ view'[r] = view[r] /\ at'[r] = at[r] /\ seen'[r] = seen[r]
                      /\ at[r] \in Task
                      /\ Winning(r) \/ (Puts(r, Claim("locked", r), "lock_write", "lock_verify")
                                        /\ view[r].commit = head)
    OBVIOUS
  <2>1. ~Parks(r)
    BY DEF Parks, Winning, Executing
  <2>2. CASE Works(r)
    <3>1. pc'[r] \in {"lock_take"} \cup Executing
      BY <2>2 DEF Works, Moves, Winning, Executing
    <3>2. pc[r] = "lock_verify" => view[r].commit = head
      BY <2>2, LockIsOwn DEF Works, Moves
    <3> QED
      BY <2>2, <3>1, <3>2 DEF Works, Moves, Winning, Executing
  <2>3. CASE Writes(r)
    <3>1. pc'[r] # "scan"
      BY DEF Winning, Executing
    <3>2. CASE Puts(r, Claim("locked", r), "lock_write", "lock_verify") /\ at'[r] = at[r] /\ seen'[r] = seen[r]
      <4>1. view'[r].commit = head
        BY <1>h, <3>2 DEF Puts, Winning, Executing
      <4> QED
        BY <3>2, <4>1 DEF Puts
    <3>3. CASE Puts(r, Claim("taken", r), "lock_take", "checkout") /\ at'[r] = at[r] /\ seen'[r] = seen[r]
      BY <3>3 DEF Puts, Winning
    <3> QED
      BY <2>3, <3>1, <3>2, <3>3 DEF Writes, Puts
  <2> QED
    BY <2>1, <2>2, <2>3 DEF Does
<1>1. ASSUME NEW p \in Runner \ {r}, view'[r].commit = view'[p].commit, at'[r] = at'[p],
             Invited(r)', Invited(p)', Winning(r)', Winning(p)'
      PROVE  FALSE
  <2>1. Winning(p) /\ Invited(p) /\ Invited(r)
    BY <1>o, <1>s, <1>w, <1>1 DEF Invited
  <2>2. CASE Winning(r)
    BY <1>o, <1>s, <1>1, <2>1, <2>2 DEF OneWins
  <2>3. CASE Puts(r, Claim("locked", r), "lock_write", "lock_verify") /\ view[r].commit = head
    <3>1. Together(r, p) /\ Apart(r, p)
      BY <1>o, <1>s, <1>1, <2>3 DEF Together, AllApart
    <3>2. pc[p] = "lock_verify"
      BY <1>o, <1>s, <1>1, <2>1, <2>3, <3>1 DEF Apart, Puts, Winning, Claiming, Executing
    <3>3. Polled(p)' = Claim("locked", r)
      BY <1>h, <1>o, <1>s, <1>t, <1>1, <2>3, PutsOne DEF Polled
    <3>4. SameDescription(Polled(p)', "locked", p)
      BY <1>o, <1>1, <3>2 DEF Winning, Executing
    <3> QED
      BY <3>3, <3>4 DEF SameDescription, Claim
  <2> QED
    BY <1>s, <1>1, <2>2, <2>3
<1>2. ASSUME NEW q \in Runner \ {r}, NEW p \in Runner \ {r}, q # p, view'[q].commit = view'[p].commit,
             at'[q] = at'[p], Invited(q)', Invited(p)', Winning(q)', Winning(p)'
      PROVE  FALSE
  BY <1>o, <1>w, <1>2 DEF OneWins
<1> QED
  BY <1>1, <1>2 DEF OneWins

-----------------------------------------------------------------------------
(* The clock, the author and the operators keep it too.                    *)

\* Time passes only while nobody is between a poll and its post.
LEMMA TickTimed ==
    ASSUME Timely, TypeOK, TimedInv, Tick
    PROVE  TimedInv'
<1> USE DEF TimedInv
<1>1. /\ head' = head /\ pc' = pc /\ at' = at /\ seen' = seen /\ disputed' = disputed
      /\ head \in Commit
  BY DEF Tick, TypeOK
<1>2. \A r \in Runner :
        pc[r] \notin {"unassign_write", "rerun_write", "lock_write", "lock_take", "checkout",
                      "report_write"}
  <2>1. \A r \in Runner : ~Busy(r)
    BY DEF Tick, Timely
  <2> QED
    BY <2>1 DEF Immediate, Busy
<1>3. \A c \in Commit, t \in Task :
        /\ status'[c][t].kind = status[c][t].kind
        /\ status'[c][t].by = status[c][t].by
  BY OlderStatus DEF Tick, TypeOK
<1>4. \A r \in Runner :
        /\ view'[r].commit = view[r].commit
        /\ \A t \in Task : view'[r].st[t].kind = view[r].st[t].kind
  BY OlderStatus DEF Tick, TypeOK, View
<1>5. Immediate'
  BY <1>1, <1>2 DEF Immediate
<1>6. Judged'
  <2>1. ASSUME NEW r \in Runner, pc[r] \in Seeking \cup {"rerun_poll", "rerun_write"}
        PROVE  /\ Viewed(r)'.kind = Viewed(r).kind
               /\ CheckDependencies(r)' = CheckDependencies(r)
    <3>1. at[r] \in Task /\ Requires[at[r]] \subseteq Task
      BY <2>1, TaskAssumption DEF TypeOK, Seeking, Claiming
    <3>2. view'[r].st[at[r]].kind = view[r].st[at[r]].kind
      BY <1>4, <3>1
    <3> QED
      BY <1>1, <1>4, <3>1, <3>2 DEF Viewed, CheckDependencies, Succeeded
  <2> QED
    BY <1>1, <2>1 DEF Judged, Missing, Available
<1>7. Known'
  BY <1>1, <1>3, <1>4 DEF Known, Missing, Succeeded
<1>8. MalformedStay'
  <2>1. \A s \in {NoStatus, Anonymous("error"), Anonymous("unassigned")} : Older(s) = s
    BY DEF Older, NoStatus, Anonymous, Claimed, Taken, Locked
  <2> QED
    BY <2>1, TaskAssumption DEF Tick, MalformedStay
<1>9. \A r \in Runner : at[r] \in Task =>
        Polled(r)'.kind = Polled(r).kind /\ Polled(r)'.by = Polled(r).by
  BY <1>1, <1>3 DEF Polled
<1>10. AllFound'
  <2> SUFFICES ASSUME NEW r \in Runner, view'[r].commit = head PROVE Found(r)'
    BY <1>1 DEF AllFound
  <2>1. Found(r)
    BY <1>4 DEF AllFound
  <2>2. pc[r] \in Claiming => at[r] \in Task
    BY DEF TypeOK, Claiming
  <2> QED
    BY <1>1, <1>2, <1>9, <2>1, <2>2 DEF Found, Available, Invited
<1>11. Unseen' /\ AllApart'
  BY <1>1, <1>2 DEF Unseen, AllApart, Apart
<1>12. OneWins'
  <2>1. ASSUME NEW r \in Runner, Winning(r)' PROVE Winning(r)
    <3>1. pc[r] = "lock_verify" => at[r] \in Task
      BY DEF TypeOK
    <3> QED
      BY <1>1, <1>4, <1>9, <2>1, <3>1 DEF Winning, SameDescription, Executing
  <2> QED
    BY <1>1, <1>4, <2>1 DEF OneWins, Invited
<1> QED
  BY <1>5, <1>6, <1>7, <1>8, <1>10, <1>11, <1>12

\* After a push nobody is at work on the head.
LEMMA PushTimed ==
    ASSUME TypeOK, Ordered, TimedInv, Push
    PROVE  TimedInv'
<1> USE DEF TimedInv, github, runners
<1>1. UNCHANGED <<status, pc, view, at, seen, sleep>>
  BY DEF Push
<1>2. \A r \in Runner : view'[r].commit # head'
  <2>1. Commit \subseteq Nat
    BY TaskAssumption DEF Commit
  <2>2. \A r \in Runner : view[r].commit \in Nat /\ view[r].commit <= head /\ head \in Nat
    BY <2>1 DEF Ordered, TypeOK, View
  <2> QED
    BY <1>1, <2>2 DEF Push
<1>3. Immediate' /\ MalformedStay'
  BY <1>1 DEF Immediate, MalformedStay
<1>4. Judged'
  BY <1>1 DEF Judged, Viewed, CheckDependencies
<1>5. Known' /\ AllFound' /\ Unseen' /\ AllApart'
  BY <1>2 DEF Known, AllFound, Unseen, AllApart, Together
<1>6. \A r \in Runner : Winning(r)' => Winning(r)
  BY <1>1, <1>2 DEF Winning
<1>7. OneWins'
  BY <1>1, <1>6 DEF OneWins, Invited
<1> QED
  BY <1>3, <1>4, <1>5, <1>7

\* An operator who offers a job makes it disputed, unless it is nobody's.
LEMMA OperatorTimed ==
    ASSUME TypeOK, Kept, TimedInv, NEW t \in Task, OperatorRerun(t)
    PROVE  TimedInv'
<1> USE DEF TimedInv
<1>1. /\ UNCHANGED <<head, pc, view, at, sleep>> /\ disputed \subseteq disputed'
      /\ head \in Commit
      /\ Live(t) \/ Succeeded(status[head][t]) => t \in disputed'
  BY DEF OperatorRerun, TypeOK
<1>2. \A c \in Commit, u \in Task :
        status'[c][u] = IF c = head /\ u = t THEN Anonymous("unassigned") ELSE status[c][u]
  BY DEF OperatorRerun, TypeOK
<1>3. \A r \in Runner :
        /\ Invited(r)' => Invited(r)
        /\ pc[r] \in Claiming /\ view[r].commit = head /\ at[r] = t => ~Invited(r)'
  BY DEF OperatorRerun, SeenBefore, Invited
<1>4. Immediate' /\ Judged'
  BY <1>1 DEF Immediate, Judged, Viewed, CheckDependencies
<1>5. Known'
  BY <1>1, <1>2 DEF Known, Missing, Anonymous
<1>6. MalformedStay'
  BY <1>2, TaskAssumption DEF MalformedStay
<1>7. ASSUME NEW r \in Runner
      PROVE  Polled(r)' = Polled(r) \/ Polled(r)'.kind = "unassigned" \/ at[r] \notin Task
  BY <1>1, <1>2 DEF Polled, Anonymous
<1>8. AllFound'
  <2> SUFFICES ASSUME NEW r \in Runner, view[r].commit = head PROVE Found(r)'
    BY <1>1 DEF AllFound
  <2>1. CASE at[r] \in Task /\ at[r] # t
    BY <1>1, <1>2, <1>3, <2>1 DEF AllFound, Found, Polled
  <2>2. CASE at[r] = t
    <3>1. Polled(r)'.kind = "unassigned"
      BY <1>1, <1>2, <2>2 DEF Polled, Anonymous
    <3>2. ASSUME pc[r] = "report_write" PROVE at[r] \in disputed'
      <4>1. at[r] \notin disputed => SameDescription(Polled(r), "taken", r)
        BY <3>2 DEF AllFound, Found
      <4>2. at[r] \notin disputed => Live(t)
        BY <2>2, <3>2, <4>1, ReportingLive DEF Claiming
      <4> QED
        BY <1>1, <2>2, <4>2
    <3> QED
      BY <1>1, <1>3, <2>2, <3>1, <3>2 DEF Found
  <2>3. CASE at[r] \notin Task
    BY <1>1, <2>3 DEF TypeOK, Found, Claiming
  <2> QED
    BY <2>1, <2>2, <2>3
<1>9. Unseen'
  BY <1>1 DEF Unseen
<1>10. AllApart'
  <2>1. ASSUME NEW r \in Runner, Reporting(r)' PROVE Reporting(r)
    BY <1>1, <1>7, <2>1 DEF Reporting, SameDescription, TypeOK
  <2> QED
    BY <1>1, <1>3, <2>1 DEF AllApart, Apart, Together
<1>11. OneWins'
  <2>1. ASSUME NEW r \in Runner, Winning(r)' PROVE Winning(r)
    BY <1>1, <1>7, <2>1 DEF Winning, Executing, SameDescription, TypeOK
  <2> QED
    BY <1>1, <1>3, <2>1 DEF OneWins
<1> QED
  BY <1>4, <1>5, <1>6, <1>8, <1>9, <1>10, <1>11

\* Every step keeps the invariant.
LEMMA StepTimed ==
    ASSUME Timely, IInv, TypeOK', Kept, TimedInv, [Next]_vars
    PROVE  TimedInv'
<1>t. TypeOK /\ Ordered
  BY DEF IInv
<1>1. ASSUME NEW r \in Runner, Step(r) \/ Fault(r) PROVE TimedInv'
  <2>1. Does(r)
    BY <1>t, <1>1, TimedKinds DEF TimedInv, Does
  <2>2. Immediate' /\ Judged' /\ Unseen'
    BY <1>t, <2>1, DoesImmediate, DoesJudged, DoesUnseen DEF TimedInv
  <2>3. Known' /\ MalformedStay' /\ AllFound'
    BY <1>t, <2>1, DoesKnown, DoesFound DEF TimedInv
  <2>4. AllApart' /\ OneWins'
    BY <1>t, <2>1, DoesApart, DoesOneWins DEF TimedInv
  <2> QED
    BY <2>2, <2>3, <2>4 DEF TimedInv
<1>2. CASE Push
  BY <1>t, <1>2, PushTimed
<1>3. CASE Tick
  BY <1>t, <1>3, TickTimed
<1>4. CASE \E t \in Task : OperatorRerun(t)
  BY <1>t, <1>4, OperatorTimed
<1>5. CASE AddRerunLabel \/ UNCHANGED vars
  <2>1. UNCHANGED <<head, status, runners, past>>
    BY <1>5 DEF AddRerunLabel, vars, github, history
  <2> USE <2>1 DEF runners, past
  <2>2. Immediate' /\ MalformedStay'
    BY DEF TimedInv, Immediate, MalformedStay
  <2>3. Judged' /\ Known' /\ Unseen'
    BY DEF TimedInv, Judged, Known, Unseen, Viewed, CheckDependencies
  <2>4. AllFound' /\ AllApart' /\ OneWins'
    BY DEF TimedInv, AllFound, Found, AllApart, Apart, Together, Reporting, OneWins,
           Winning, Polled, Invited
  <2> QED
    BY <2>2, <2>3, <2>4 DEF TimedInv
<1> QED
  BY <1>1, <1>2, <1>3, <1>4, <1>5 DEF Next

-----------------------------------------------------------------------------
(* What the invariant says of the runners and of the statuses.             *)

\* A result stays unless its job is disputed, but that a failed job may be offered.
LEMMA StepFinal ==
    ASSUME IInv, TimedInv, [Next]_vars
    PROVE  \A t \in Task :
              head' = head /\ t \notin disputed' =>
                  /\ Succeeded(status[head][t]) => status'[head][t] = status[head][t]
                  /\ Failed(status[head][t]) =>
                        status'[head][t] = status[head][t] \/ Available(status'[head][t])
<1> DEFINE Stays(t) ==
             /\ Succeeded(status[head][t]) => status'[head][t] = status[head][t]
             /\ Failed(status[head][t]) =>
                   status'[head][t] = status[head][t] \/ Available(status'[head][t])
<1>t. TypeOK /\ head \in Commit
  BY DEF IInv, TypeOK
<1>1. ASSUME NEW r \in Runner, Step(r) \/ Fault(r), NEW t \in Task, t \notin disputed'
      PROVE  Stays(t)
  <2>1. Does(r)
    BY <1>t, <1>1, TimedKinds DEF TimedInv, Does
  <2>2. CASE Writes(r) /\ view[r].commit = head /\ at[r] = t
    <3>1. t \notin disputed /\ Found(r)
      BY <1>1, <2>2 DEF Writes, Puts, Alone, TimedInv, AllFound
    <3>2. ~Succeeded(status[head][t])
      BY <1>t, <2>2, <3>1, WriteOverNoSuccess DEF TimedInv
    <3>3. CASE Puts(r, Anonymous("error"), "scan", "scan") /\ t \in Malformed
      <4>1. status'[head][t] = Anonymous("error")
        BY <1>t, <2>2, <3>3, PutsOne
      <4>2. Failed(status[head][t]) => status[head][t] = Anonymous("error")
        BY <1>t, <3>3 DEF TimedInv, MalformedStay, Failed, NoStatus, Anonymous
      <4> QED
        BY <3>2, <4>1, <4>2
    <3>4. ASSUME NEW kind \in {"unassigned", "rerun"}, NEW from, NEW to,
                 Puts(r, Anonymous(kind), from, to)
          PROVE  Stays(t)
      <4>1. status'[head][t] = Anonymous(kind)
        BY <1>t, <2>2, <3>4, PutsOne
      <4> QED
        BY <3>2, <4>1 DEF Anonymous, Available
    <3>5. CASE pc[r] \in {"lock_write", "lock_take", "report_write"}
      BY <2>2, <3>1, <3>2, <3>5 DEF Found, Polled, Failed, SameDescription
    <3> QED
      BY <2>2, <3>3, <3>4, <3>5 DEF Writes, Puts
  <2>3. CASE Writes(r) /\ ~(view[r].commit = head /\ at[r] = t)
    BY <1>t, <2>3, WriteShows
  <2>4. CASE Parks(r) \/ Works(r)
    BY <2>4 DEF Parks, Works, Moves
  <2> QED
    BY <2>1, <2>2, <2>3, <2>4 DEF Does
<1>2. CASE Push
  <2>1. head' # head
    BY <1>2, <1>t, TaskAssumption DEF Push, Commit
  <2> QED
    BY <2>1
<1>3. ASSUME NEW u \in Task, OperatorRerun(u), NEW t \in Task, t \notin disputed'
      PROVE  Stays(t)
  <2>1. status'[head][t] = IF t = u THEN Anonymous("unassigned") ELSE status[head][t]
    BY <1>3, <1>t DEF OperatorRerun, TypeOK
  <2>2. Available(Anonymous("unassigned"))
    BY DEF Available, Anonymous
  <2>3. t = u => ~Succeeded(status[head][t])
    BY <1>3 DEF OperatorRerun
  <2> QED
    BY <2>1, <2>2, <2>3
<1>4. CASE Tick
  BY <1>4, <1>t DEF Tick, Older, Claimed, Taken, Locked, Succeeded, Failed
<1>5. CASE AddRerunLabel \/ UNCHANGED vars
  BY <1>5 DEF AddRerunLabel, vars, github
<1> QED
  BY <1>1, <1>2, <1>3, <1>4, <1>5 DEF Next

\* The jobs that a runner's job requires have passed, unless they are disputed.
LEMMA KnownDependencies ==
    ASSUME TypeOK, Judged, Known, NEW r \in Runner, pc[r] \in Seeking, view[r].commit = head
    PROVE  \A d \in Requires[at[r]] :
              d \in Task /\ (Succeeded(status[head][d]) \/ d \in disputed)
<1>1. at[r] \in Task /\ Requires[at[r]] \subseteq Task
  BY TaskAssumption DEF TypeOK, Seeking, Claiming
<1>2. CheckDependencies(r)
  BY DEF Judged
<1> QED
  BY <1>1, <1>2 DEF CheckDependencies, Known

\* The holder of a job whose claim is not live is gone.
LEMMA DeadAbandoned ==
    ASSUME TypeOK, Kept, NEW t \in Task, Claimed(status[head][t]), ~Live(t)
    PROVE  Ledger!Abandoned(t)
<1>1. LedgerJob[t] = "held" /\ LedgerHolder[t] = status[head][t].by
  BY DEF LedgerJob, LedgerHolder, Standing, Claimed, Taken, Locked, Missing, Available,
         Succeeded, Failed
<1>2. <<status[head][t].by, head, t>> \in lost
  BY DEF Live
<1>3. ASSUME NEW r \in LedgerWorkers[t] PROVE r # status[head][t].by
  BY <1>2 DEF LedgerWorkers, WorkingOn, Kept, Mine
<1> QED
  BY <1>1, <1>3 DEF Ledger!Abandoned

\* A job that may be offered in an orderly way: one that has no success and no live claim.
LEMMA OrderlyOffer ==
    ASSUME TypeOK, Kept, NEW t \in Task, ~Live(t), ~Succeeded(status[head][t])
    PROVE  LedgerJob[t] \in {"missing", "open", "failed"} \/ Ledger!Abandoned(t)
<1>1. CASE Claimed(status[head][t])
  BY <1>1, DeadAbandoned
<1>2. CASE ~Claimed(status[head][t])
  <2>1. status[head][t].kind \in Kind
    BY DEF TypeOK, Status
  <2> QED
    BY <1>2, <2>1 DEF Kind, LedgerJob, Standing, Missing, Available, Claimed, Taken, Locked,
                      Succeeded, Failed
<1> QED
  BY <1>1, <1>2

\* A live claim holds its job.
LEMMA LiveHeld ==
    ASSUME NEW t \in Task, Live(t)
    PROVE  LedgerJob[t] = "held"
BY DEF Live, LedgerJob, Standing, Claimed, Taken, Locked, Missing, Available, Succeeded, Failed

\* What a runner does is a step of an orderly ledger, or none.
LEMMA RunnerMapsOrderly ==
    ASSUME IInv, Signed, Kept, TimedInv, NEW r \in Runner, StepOf(r)
    PROVE  [Ledger!Next]_(Ledger!vars)
<1> USE DEF Unledgered, Ledger!vars
<1>t. TypeOK
  BY DEF IInv
<1>f. view[r].commit = head => Found(r)
  BY DEF TimedInv, AllFound
<1>j. at[r] \in Task => /\ LedgerJob[at[r]] = Standing(Polled(r))
                        /\ LedgerHolder[at[r]] = Polled(r).by
  BY DEF LedgerJob, LedgerHolder, Polled
<1>1. CASE Quiet(r) \/ GoesOn(r) \/ Leaves(r) \/ Drops(r)
  <2>1. CASE Unledgered \/ Claims!Fault
    BY <2>1 DEF Claims!Fault, Ledger!Fault, Ledger!Next
  <2>2. CASE at[r] \in Task /\ Claims!Leave(r, at[r])
    BY <2>2 DEF Claims!Leave, Ledger!Leave, Ledger!Next
  <2>3. CASE at[r] \in Task /\ Claims!Dispute(at[r])
    <3>1. CASE disputed' = disputed
      BY <2>3, <3>1 DEF Claims!Dispute
    <3>2. CASE disputed' # disputed
      <4>1. disputed' = Contested(r) \/ disruptions' = disruptions + 1
        BY <1>1, <3>2 DEF Quiet, GoesOn, Leaves, Drops
      <4>2. disruptions' = disruptions /\ disruptions \in Nat
        BY <1>t, <2>3 DEF Claims!Dispute, TypeOK
      <4>3. Live(at[r])
        BY <3>2, <4>1, <4>2 DEF Contested
      <4>4. Ledger!Dispute(at[r])
        BY <2>3, <4>3, LiveHeld DEF Claims!Dispute, Ledger!Dispute
      <4> QED
        BY <2>3, <4>4 DEF Ledger!Next
    <3> QED
      BY <3>1, <3>2
  <2> QED
    BY <1>1, <2>1, <2>2, <2>3, UnpostedMaps
<1>2. ASSUME NEW kind \in Kind, Marks(r, kind) PROVE [Ledger!Next]_(Ledger!vars)
  <2> SUFFICES ASSUME view[r].commit = head, LedgerWorkers' = LedgerWorkers,
                      Entered(at[r], IF kind = "error" THEN "failed" ELSE "open", NoRunner)
               PROVE  [Ledger!Next]_(Ledger!vars)
    BY <1>2, MarksMaps
  <2>1. CASE kind = "error" /\ at[r] \in Malformed /\ UNCHANGED disputed
    <3>1. Polled(r) \in {NoStatus, Anonymous("error"), Anonymous("unassigned")} /\ at[r] \in Task
      BY <1>t, <2>1, TaskAssumption DEF TimedInv, MalformedStay, Polled, TypeOK
    <3>2. LedgerJob[at[r]] \in {"missing", "open", "failed"}
      BY <1>j, <3>1 DEF Standing, NoStatus, Anonymous, Missing, Available, Claimed, Taken,
                        Locked, Succeeded, Failed
    <3>3. Ledger!Reject(at[r])
      BY <2>1, <3>2 DEF Entered, Ledger!Reject
    <3> QED
      BY <3>1, <3>3 DEF Ledger!Next
  <2>2. CASE kind = "unassigned" /\ pc[r] = "unassign_write" /\ UNCHANGED disputed
    <3>1. at[r] \notin disputed => LedgerJob[at[r]] \in {"missing", "open"}
      BY <1>2, <1>f, <1>j, <2>2
         DEF Marks, Found, Standing, Missing, Available, Claimed, Taken, Locked, Succeeded, Failed
    <3>2. Ledger!Offer(at[r])
      BY <2>2, <3>1 DEF Entered, Ledger!Offer, Ledger!Ordered
    <3> QED
      BY <1>2, <3>2 DEF Marks, Ledger!Next
  <2>3. CASE kind = "rerun" /\ pc[r] = "rerun_write" /\ disputed' = Contested(r)
    <3>1. at[r] \in Task
      BY <1>2 DEF Marks
    <3>2. CASE Live(at[r])
      <4>1. Ledger!Overrule(at[r])
        BY <2>3, <3>1, <3>2, LiveHeld DEF Contested, Entered, Ledger!Overrule
      <4> QED
        BY <3>1, <4>1 DEF Ledger!Next
    <3>3. CASE ~Live(at[r])
      <4>1. at[r] \notin disputed => ~Succeeded(status[head][at[r]])
        BY <1>f, <2>3 DEF Found, Polled, Succeeded
      <4>2. at[r] \notin disputed =>
              LedgerJob[at[r]] \in {"missing", "open", "failed"} \/ Ledger!Abandoned(at[r])
        BY <1>t, <3>1, <3>3, <4>1, OrderlyOffer
      <4>3. Ledger!Offer(at[r])
        BY <2>3, <3>3, <4>2 DEF Contested, Entered, Ledger!Offer, Ledger!Ordered
      <4> QED
        BY <3>1, <4>3 DEF Ledger!Next
    <3> QED
      BY <3>2, <3>3
  <2> QED
    BY <1>2, <2>1, <2>2, <2>3 DEF Marks
<1>3. ASSUME NEW kind \in Kind, Holds(r, kind) PROVE [Ledger!Next]_(Ledger!vars)
  <2> SUFFICES ASSUME view[r].commit = head, Entered(at[r], "held", r),
                      LedgerWorkers' = [LedgerWorkers EXCEPT ![at[r]] = @ \cup {r}]
               PROVE  [Ledger!Next]_(Ledger!vars)
    BY <1>3, HoldsMaps
  <2>1. at[r] \notin disputed => Polled(r).kind \in {"unassigned", "rerun", "locked", "taken"}
    BY <1>3, <1>f DEF Holds, Found
  <2>2. at[r] \notin disputed => LedgerJob[at[r]] \in {"open", "held"}
    BY <1>3, <1>j, <2>1
       DEF Holds, Standing, Missing, Available, Claimed, Taken, Locked, Succeeded, Failed
  <2>3. \A d \in Requires[at[r]] :
            d \in Task /\ (Succeeded(status[head][d]) \/ d \in disputed)
    BY <1>3, <1>t, KnownDependencies DEF Holds, TimedInv, Seeking, Claiming
  <2>4. \A d \in Requires[at[r]] : LedgerJob[d] = "passed" \/ d \in disputed
    BY <2>3 DEF LedgerJob, Standing, Missing, Available, Claimed, Taken, Locked, Succeeded,
       Failed
  <2>5. Ledger!Hold(r, at[r])
    BY <1>3, <2>2, <2>4 DEF Holds, Entered, Ledger!Hold, Ledger!Ordered
  <2> QED
    BY <1>3, <2>5 DEF Holds, Ledger!Next
<1>4. ASSUME NEW kind \in Kind, Reports(r, kind) PROVE [Ledger!Next]_(Ledger!vars)
  <2> SUFFICES ASSUME view[r].commit = head, at[r] \in Task, r \in LedgerWorkers[at[r]],
                      LedgerWorkers' = [LedgerWorkers EXCEPT ![at[r]] = @ \ {r}],
                      NEW result \in {"passed", "failed"}, Entered(at[r], result, NoRunner)
               PROVE  [Ledger!Next]_(Ledger!vars)
    BY <1>4, ReportsMaps
  <2>1. at[r] \notin disputed => SameDescription(Polled(r), "taken", r)
    BY <1>4, <1>f DEF Reports, Found
  <2>2. at[r] \notin disputed => LedgerJob[at[r]] = "held" /\ LedgerHolder[at[r]] = r
    BY <1>j, <2>1
       DEF SameDescription, Standing, Missing, Available, Claimed, Taken, Locked,
           Succeeded, Failed
  <2>3. Ledger!Report(r, at[r])
    BY <1>4, <2>2 DEF Reports, Entered, Ledger!Report, Ledger!Ordered
  <2> QED
    BY <2>3 DEF Ledger!Next
<1> QED
  BY <1>1, <1>2, <1>3, <1>4 DEF StepOf

\* What the operators do is a step of an orderly ledger.
LEMMA PeopleMapOrderly ==
    ASSUME TypeOK, Kept, AddRerunLabel \/ \E t \in Task : OperatorRerun(t)
    PROVE  Ledger!Next
<1>1. CASE AddRerunLabel
  <2>1. UNCHANGED <<LedgerWorkers, Ledgers, disputed>>
    BY <1>1, PostedNothing DEF AddRerunLabel, LedgerWorkers, WorkingOn, runners, past
  <2> QED
    BY <1>1, <2>1 DEF AddRerunLabel, Disrupt, Ledgers, Ledger!Fault, Ledger!Next
<1>2. ASSUME NEW t \in Task, OperatorRerun(t) PROVE Ledger!Offer(t) \/ Ledger!Overrule(t)
  <2>1. CASE Live(t) \/ Succeeded(status[head][t])
    BY <1>2, <2>1, OperatorEnters DEF OperatorRerun, Ledger!Overrule
  <2>2. CASE ~Live(t) /\ ~Succeeded(status[head][t])
    <3>1. disputed' = disputed
      BY <1>2, <2>2 DEF OperatorRerun
    <3> QED
      BY <1>2, <2>2, <3>1, OperatorEnters, OrderlyOffer DEF Ledger!Offer
  <2> QED
    BY <2>1, <2>2
<1> QED
  BY <1>1, <1>2 DEF Ledger!Next

-----------------------------------------------------------------------------
(* The theorems.                                                           *)

\* The invariant holds throughout, whatever the faults and however stale the claims.
THEOREM TimedInvariant ==
    ASSUME Timely
    PROVE  Spec => []TimedInv
<1>1. IInv /\ IInv' /\ Signed /\ Kept /\ TimedInv /\ [Next]_vars => TimedInv'
  BY StepTimed DEF IInv
<1> QED
  BY <1>1, InitTimed, InductiveInvariant, KeptThroughout, PTL DEF Spec

\* Of any number of prompt runners that find the present offer of a job when they poll
\* it in Task.lock, at most one executes it: each locks the job at the instant of its
\* poll, and RACE_TIMEOUT then lets the others overwrite the lock.  It does not say
\* that no other runner executes the job: one that found it locked, or has it from
\* before it was offered again, may.
THEOREM OneRunnerWins ==
    ASSUME Timely
    PROVE  Spec => []SoleWinner
<1>1. TimedInv => SoleWinner
  BY DEF TimedInv, OneWins, SoleWinner, Invited, Winning
<1> QED
  BY <1>1, TimedInvariant, PTL

\* While a job of prompt runners executes on the head, the jobs it requires are in the
\* success state there, although Task.check_dependencies has looked at the snapshot
\* only, unless such a job was offered under the runner that had it.
THEOREM DependenciesStay ==
    ASSUME Timely
    PROVE  Spec => []DependenciesHold
<1>1. IInv /\ TimedInv => DependenciesHold
  BY KnownDependencies DEF IInv, TimedInv, DependenciesHold, Seeking, Claiming, Executing
<1> QED
  BY <1>1, TimedInvariant, InductiveInvariant, PTL

\* A job that has a result on the head keeps it, however many prompt runners lock,
\* execute and report, but that a failed job may be offered anew; only of a job that was
\* put on offer while its claim was live, or after its success, nothing is said.
THEOREM ResultsStay ==
    ASSUME Timely
    PROVE  Spec => ResultIsFinal
<1>1. IInv /\ TimedInv /\ [Next]_vars =>
        [\A t \in Task :
            LET old == status[head][t]
                new == status'[head][t]
            IN  head' = head /\ t \notin disputed' =>
                  /\ Succeeded(old) => new = old
                  /\ Failed(old) => new = old \/ Available(new)]_vars
  BY StepFinal
<1> QED
  BY <1>1, TimedInvariant, InductiveInvariant, PTL DEF Spec, ResultIsFinal

\* Prompt runners keep an orderly ledger through every fault and take-over: only the
\* runner a claim names reports, no job is claimed before those it requires have passed,
\* results stay, and a claim is offered anew only when its runner is gone, until the job
\* is put on offer under the runner that has it.
THEOREM LedgerKept ==
    ASSUME Timely
    PROVE  Spec => KeepsLedger
<1>1. Signed /\ Kept /\ IInv /\ IInv' /\ TimedInv /\ [Next]_vars
        => [Ledger!Next]_(Ledger!vars)
  <2> SUFFICES ASSUME Signed, Kept, IInv, IInv', TimedInv, [Next]_vars
               PROVE  [Ledger!Next]_(Ledger!vars)
    OBVIOUS
  <2>1. TypeOK /\ TypeOK'
    BY DEF IInv
  <2>2. ASSUME NEW r \in Runner, Step(r) \/ Fault(r) PROVE [Ledger!Next]_(Ledger!vars)
    BY <2>1, <2>2, StepKinds, RunnerMapsOrderly
  <2>3. CASE Push
    BY <2>1, <2>3, PushMaps DEF Claims!Renew, Ledger!Renew, Ledger!Next
  <2>4. CASE AddRerunLabel \/ \E t \in Task : OperatorRerun(t)
    BY <2>1, <2>4, PeopleMapOrderly
  <2>5. CASE Tick \/ UNCHANGED vars
    BY <2>1, <2>5, TimeMaps DEF Unledgered, Ledger!vars
  <2> QED
    BY <2>2, <2>3, <2>4, <2>5 DEF Next
<1>2. Init => Ledger!Init
  BY InitMaps DEF Claims!Init, Ledger!Init
<1> QED
  BY <1>1, <1>2, InductiveInvariant, KeptThroughout, TimedInvariant, PTL
     DEF Spec, KeepsLedger, Ledger!Spec

-----------------------------------------------------------------------------
(* How old the claims of runners at work get, whatever faults and pushes   *)
(* happen and however long the jobs execute.                               *)

\* Runners are prompt, and the waits before a poll fit into what a claim is given
\* before it is stale: 13 s into 240 s, and 17 s into 60 s and 240 s.
WaitsFit ==
    /\ Prompt
    /\ PollSleep < ExtraTime
    /\ RaceTimeout < LockTimeout + ExtraTime

\* The status of runner r's job on the commit of its snapshot.
Own(r) == status[view[r].commit][at[r]]

\* How old the claim of runner r is, as long as no other status has replaced it and the
\* job is not beyond its timeout.
Fresh(r) ==
    LET age == Own(r).age IN
    /\ SameDescription(Own(r), "locked", r) =>
          /\ pc[r] = "lock_verify" => age + sleep[r] <= RaceTimeout
          /\ pc[r] = "lock_take" => age <= RaceTimeout /\ sleep[r] = 0
    /\ SameDescription(Own(r), "taken", r) /\ Timeout[at[r]] > 0 /\ r \notin late =>
          /\ pc[r] = "checkout" => age = 0 /\ sleep[r] = 0
          /\ pc[r] = "run" => age <= Timeout[at[r]]
          /\ pc[r] = "report_poll" => age + sleep[r] <= Timeout[at[r]] + PollSleep
          /\ pc[r] = "report_write" => age <= Timeout[at[r]] + PollSleep /\ sleep[r] = 0

AllFresh == \A r \in Runner : Fresh(r)

OthersSleep(r) ==
    /\ OthersStay(r) /\ late' = late
    /\ \A q \in Runner \ {r} : sleep'[q] = sleep[q]

\* Runner r has no claim after the step, and posts none.
Unclaims(r) ==
    /\ OthersSleep(r) /\ pc'[r] \notin Claiming
    /\ status' = status \/ (at[r] \in Task /\ \E kind \in Kind : Post(r, Anonymous(kind)))

\* Runner r posts a claim and goes on with it.
Stakes(r, kind, to) ==
    /\ OthersSleep(r) /\ view'[r] = view[r] /\ at'[r] = at[r] /\ at[r] \in Task
    /\ Post(r, Claim(kind, r)) /\ pc'[r] = to

\* Runner r, awake, goes on with the job it has claimed.
Proceeds(r, from, to, time) ==
    /\ OthersSleep(r) /\ view'[r] = view[r] /\ at'[r] = at[r] /\ at[r] \in Task
    /\ status' = status
    /\ pc[r] = from /\ sleep[r] = 0 /\ pc'[r] = to /\ sleep'[r] = time

Ages(r) ==
    \/ Unclaims(r)
    \/ Stakes(r, "locked", "lock_verify") /\ sleep'[r] = RaceTimeout
    \/ Stakes(r, "taken", "checkout") /\ sleep'[r] = 0
    \/ Proceeds(r, "lock_verify", "lock_take", 0)
    \/ Proceeds(r, "checkout", "run", 1)
    \/ Proceeds(r, "run", "report_poll", PollSleep)
    \/ Proceeds(r, "report_poll", "report_write", 0)

\* Every step of a runner is of one of these kinds.
LEMMA AgeKinds ==
    ASSUME TypeOK, NEW r \in Runner, Step(r) \/ Fault(r)
    PROVE  Ages(r)
<1> USE DEF github, runners, history, past, OthersSleep, OthersStay
<1>t. TypeOK
  OBVIOUS
<1>k. {"unassigned", "rerun", "error", "success", "failure"} \subseteq Kind
  BY DEF Kind
<1>1. CASE Query(r)
  BY <1>1, <1>t DEF Query, Awake, Goto, TypeOK, Claiming, Unclaims, Ages
<1>2. CASE RemoveRerunLabel(r)
  BY <1>2, <1>t DEF RemoveRerunLabel, Awake, Goto, TypeOK, Claiming, Unclaims, Ages
<1>3. CASE EndScan(r)
  BY <1>3, <1>t DEF EndScan, Awake, SleepThen, Goto, TypeOK, Claiming, Unclaims, Ages
<1>4. CASE CreateErrorStatus(r)
  BY <1>4, <1>t, <1>k, TaskAssumption DEF CreateErrorStatus, Awake, NextTask, Goto, TypeOK,
     Claiming, Unclaims, Ages
<1>5. CASE StalledRaises(r)
  BY <1>5, <1>t DEF StalledRaises, Considers, Awake, Die, SleepThen, Goto, TypeOK, Claiming,
     Unclaims, Ages
<1>6. CASE Skip(r)
  BY <1>6, <1>t DEF Skip, Considers, Awake, NextTask, Goto, TypeOK, Claiming, Unclaims, Ages
<1>7. CASE SetUnassigned(r)
  BY <1>7, <1>t DEF SetUnassigned, Considers, Awake, SleepThen, Goto, TypeOK, Claiming,
     Unclaims, Ages
<1>8. CASE SetUnassignedPoll(r)
  BY <1>8, <1>t DEF SetUnassignedPoll, Awake, NextTask, Goto, TypeOK, Claiming, Unclaims, Ages
<1>9. CASE SetUnassignedWrite(r)
  BY <1>9, <1>t, <1>k, TaskAssumption DEF SetUnassignedWrite, Awake, NextTaskAfterOffer, Goto,
     TypeOK, Claiming, Unclaims, Ages
<1>10. CASE SetRerun(r)
  BY <1>10, <1>t DEF SetRerun, Considers, Awake, Goto, TypeOK, Claiming, Unclaims, Ages
<1>11. CASE SetRerunPoll(r)
  BY <1>11, <1>t DEF SetRerunPoll, Awake, NextTask, Goto, TypeOK, Claiming, Unclaims, Ages
<1>12. CASE SetRerunWrite(r)
  BY <1>12, <1>t, <1>k, TaskAssumption DEF SetRerunWrite, Awake, NextTaskAfterOffer, Goto,
     TypeOK, Claiming, Unclaims, Ages
<1>13. CASE Lock(r)
  BY <1>13, <1>t DEF Lock, Considers, Awake, SleepThen, Goto, TypeOK, Claiming, Unclaims, Ages
<1>14. CASE LockPoll(r)
  BY <1>14, <1>t DEF LockPoll, Awake, NextTask, Goto, TypeOK, Claiming, Unclaims, Ages
<1>15. CASE LockWrite(r)
  BY <1>15, <1>t, TaskAssumption DEF LockWrite, Awake, SleepThen, Goto, TypeOK, Stakes, Ages
<1>16. CASE LockVerify(r)
  <2>1. CASE SameDescription(Polled(r), "locked", r)
    BY <1>16, <1>t, <2>1 DEF LockVerify, Awake, Goto, TypeOK, Proceeds, Ages
  <2>2. CASE ~SameDescription(Polled(r), "locked", r)
    BY <1>16, <1>t, <2>2 DEF LockVerify, Awake, NextTask, Goto, TypeOK, Claiming, Unclaims, Ages
  <2> QED
    BY <2>1, <2>2
<1>17. CASE LockTake(r)
  BY <1>17, <1>t, TaskAssumption DEF LockTake, Awake, Goto, TypeOK, Stakes, Ages
<1>18. CASE ExecuteCheckout(r)
  BY <1>18, <1>t, TaskAssumption DEF ExecuteCheckout, Awake, SleepThen, Goto, TypeOK,
     Proceeds, Ages
<1>19. CASE ExecuteFinish(r)
  BY <1>19, <1>t, TaskAssumption DEF ExecuteFinish, Awake, SleepThen, Goto, TypeOK, Proceeds,
     Ages
<1>20. CASE ExecutePoll(r)
  <2>1. CASE SameDescription(Polled(r), "taken", r)
    BY <1>20, <1>t, <2>1 DEF ExecutePoll, Awake, Goto, TypeOK, Proceeds, Ages
  <2>2. CASE ~SameDescription(Polled(r), "taken", r)
    BY <1>20, <1>t, <2>2 DEF ExecutePoll, Awake, NextTask, Goto, TypeOK, Claiming, Unclaims,
       Ages
  <2> QED
    BY <2>1, <2>2
<1>21. CASE ExecuteWrite(r)
  BY <1>21, <1>t, <1>k, TaskAssumption DEF ExecuteWrite, Awake, NextTask, Goto, TypeOK,
     Claiming, Unclaims, Ages
<1>22. CASE Restart(r)
  BY <1>22, <1>t DEF Restart, Awake, Goto, TypeOK, Claiming, Unclaims, Ages
<1>23. CASE Crash(r)
  BY <1>23, <1>t DEF Crash, Die, SleepThen, Goto, TypeOK, Claiming, Unclaims, Ages
<1>24. CASE PollFails(r)
  BY <1>24, <1>t DEF PollFails, NextTask, Goto, TypeOK, Claiming, Unclaims, Ages
<1>25. CASE JobRaises(r)
  BY <1>25, <1>t DEF JobRaises, NextTask, Goto, TypeOK, Claiming, Unclaims, Ages
<1> QED
  BY <1>1, <1>2, <1>3, <1>4, <1>5, <1>6, <1>7, <1>8, <1>9, <1>10, <1>11, <1>12, <1>13,
     <1>14, <1>15, <1>16, <1>17, <1>18, <1>19, <1>20, <1>21, <1>22, <1>23, <1>24, <1>25
     DEF Step, Fault

\* A runner's step leaves every claim fresh.
LEMMA AgesFresh ==
    ASSUME TypeOK, AllFresh, NEW r \in Runner, Ages(r)
    PROVE  AllFresh'
<1>c. \A q \in Runner : view[q].commit \in Commit
  BY DEF TypeOK, View
<1>l. late' = late
  BY DEF Ages, Unclaims, Stakes, Proceeds, OthersSleep
<1>p. \A q \in Runner \ {r} :
        /\ pc'[q] = pc[q] /\ view'[q] = view[q] /\ at'[q] = at[q] /\ sleep'[q] = sleep[q]
  BY DEF Ages, Unclaims, Stakes, Proceeds, OthersSleep, OthersStay
<1>1. ASSUME NEW q \in Runner \ {r} PROVE Fresh(q)'
  <2>1. CASE pc[q] \notin Claiming
    BY <1>p, <2>1 DEF Fresh, Claiming
  <2>2. CASE pc[q] \in Claiming
    <3>1. at[q] \in Task
      BY <2>2 DEF TypeOK, Claiming
    <3>2. Own(q)' = Own(q) \/ Own(q)'.by \in {r, NoRunner}
      <4>1. CASE status' = status
        BY <1>p, <4>1 DEF Own
      <4>2. ASSUME NEW s \in Status, s.by \in {r, NoRunner}, at[r] \in Task, Post(r, s)
            PROVE  Own(q)' = Own(q) \/ Own(q)'.by \in {r, NoRunner}
        <5>1. status'[view[q].commit][at[q]] \in {s, status[view[q].commit][at[q]]}
          BY <1>c, <3>1, <4>2 DEF Post, TypeOK
        <5> QED
          BY <1>p, <4>2, <5>1 DEF Own
      <4>3. /\ \A kind \in Kind : Anonymous(kind) \in Status /\ Anonymous(kind).by = NoRunner
            /\ \A kind \in {"locked", "taken"} : Claim(kind, r) \in Status /\ Claim(kind, r).by = r
        BY PostedStatuses DEF Anonymous, Claim, Kind
      <4> QED
        BY <4>1, <4>2, <4>3 DEF Ages, Unclaims, Stakes, Proceeds
    <3>3. Own(q)' = Own(q) \/ Own(q)'.by # q
      BY <3>2, StatusAssumption
    <3> QED
      BY <1>l, <1>p, <3>3 DEF AllFresh, Fresh, SameDescription
  <2> QED
    BY <2>1, <2>2
<1>2. Fresh(r)'
  <2>n. at[r] \in Task => Own(r).age \in Nat /\ Timeout[at[r]] \in Nat
    <3>1. at[r] \in Task => Own(r) \in Status
      BY <1>c DEF TypeOK, Own
    <3> QED
      BY <3>1, StatusAssumption, TaskAssumption DEF Status
  <2>m. PollSleep \in Nat /\ RaceTimeout \in Nat
    BY TaskAssumption
  <2>1. CASE Unclaims(r)
    BY <2>1 DEF Unclaims, Fresh, Claiming
  <2>2. CASE Stakes(r, "locked", "lock_verify") /\ sleep'[r] = RaceTimeout
    <3>1. Own(r)' = Claim("locked", r)
      BY <1>c, <2>2 DEF Stakes, Own, Post, TypeOK
    <3> QED
      BY <2>2, <2>m, <3>1 DEF Stakes, Fresh, Claim
  <2>3. CASE Stakes(r, "taken", "checkout") /\ sleep'[r] = 0
    <3>1. Own(r)' = Claim("taken", r)
      BY <1>c, <2>3 DEF Stakes, Own, Post, TypeOK
    <3> QED
      BY <2>3, <3>1 DEF Stakes, Fresh, Claim
  <2>4. ASSUME NEW from, NEW to, NEW time, Proceeds(r, from, to, time) PROVE Own(r)' = Own(r)
    BY <2>4 DEF Proceeds, Own
  <2>5. Fresh(r)
    BY DEF AllFresh
  <2>6. CASE Proceeds(r, "lock_verify", "lock_take", 0)
    BY <1>l, <2>n, <2>m, <2>4, <2>5, <2>6 DEF Proceeds, Fresh
  <2>7. CASE Proceeds(r, "checkout", "run", 1)
    BY <1>l, <2>n, <2>m, <2>4, <2>5, <2>7 DEF Proceeds, Fresh
  <2>8. CASE Proceeds(r, "run", "report_poll", PollSleep)
    BY <1>l, <2>n, <2>m, <2>4, <2>5, <2>8 DEF Proceeds, Fresh
  <2>9. CASE Proceeds(r, "report_poll", "report_write", 0)
    BY <1>l, <2>n, <2>m, <2>4, <2>5, <2>9 DEF Proceeds, Fresh
  <2> QED
    BY <2>1, <2>2, <2>3, <2>6, <2>7, <2>8, <2>9 DEF Ages
<1> QED
  BY <1>1, <1>2 DEF AllFresh

\* So does a tick: runners that have something to do are not kept waiting by it.
LEMMA TickFresh ==
    ASSUME TypeOK, Prompt, AllFresh, Tick
    PROVE  AllFresh'
<1> SUFFICES ASSUME NEW r \in Runner, pc[r] \in Claiming PROVE Fresh(r)'
  BY DEF AllFresh, Fresh, Claiming, Tick
<1>1. pc' = pc /\ at' = at /\ view'[r].commit = view[r].commit
  BY DEF Tick, TypeOK, View
<1>2. sleep[r] \in Nat /\ sleep'[r] = IF sleep[r] > 0 THEN sleep[r] - 1 ELSE 0
  BY DEF Tick, TypeOK
<1>3. pc[r] # "run" => sleep[r] > 0
  BY <1>2 DEF Tick, Busy, Claiming
<1>4. at[r] \in Task /\ view[r].commit \in Commit
  BY DEF TypeOK, View, Claiming
<1>5. Own(r)' = Older(Own(r)) /\ Own(r) \in Status
  BY <1>1, <1>4 DEF Tick, TypeOK, Own
<1>6. /\ Own(r)'.kind = Own(r).kind /\ Own(r)'.by = Own(r).by
      /\ Own(r).age \in Nat /\ Own(r)'.age \in {Own(r).age, Own(r).age + 1}
  BY <1>5, StatusAssumption DEF Older, Status
<1>7. Timeout[at[r]] \in Nat /\ RaceTimeout \in Nat /\ PollSleep \in Nat
  BY <1>4, TaskAssumption
<1>8. /\ pc[r] \in Executing /\ r \notin late' => r \notin late
      /\ r \notin late' /\ pc[r] = "run" /\ Timeout[at[r]] > 0 => ~(Own(r)'.age > Timeout[at[r]])
  <2>1. /\ pc[r] = "run" /\ Timeout[at[r]] > 0 /\ Older(Own(r)).age > Timeout[at[r]] => r \in late'
        /\ pc[r] \in Executing /\ r \in late => r \in late'
    BY DEF Tick, Own
  <2> QED
    BY <1>5, <2>1
<1>9. Fresh(r)
  BY DEF AllFresh
<1> DEFINE age == Own(r).age
           agen == Own(r)'.age
<1>10. SameDescription(Own(r)', "locked", r) =>
          /\ pc[r] = "lock_verify" => agen + sleep'[r] <= RaceTimeout
          /\ pc[r] # "lock_take"
  BY <1>2, <1>3, <1>6, <1>7, <1>9 DEF Fresh, SameDescription
<1>11. SameDescription(Own(r)', "taken", r) /\ Timeout[at[r]] > 0 /\ r \notin late' =>
          /\ pc[r] \notin {"checkout", "report_write"}
          /\ pc[r] = "run" => agen <= Timeout[at[r]]
          /\ pc[r] = "report_poll" => agen + sleep'[r] <= Timeout[at[r]] + PollSleep
  BY <1>2, <1>3, <1>6, <1>7, <1>8, <1>9 DEF Fresh, SameDescription, Executing
<1> QED
  BY <1>1, <1>10, <1>11 DEF Fresh

\* The claims of runners at work are fresh throughout.
THEOREM ClaimsFresh ==
    ASSUME Prompt
    PROVE  Spec => []AllFresh
<1>1. Init => AllFresh
  BY DEF Init, AllFresh, Fresh
<1>2. IInv /\ AllFresh /\ [Next]_vars => AllFresh'
  <2> SUFFICES ASSUME IInv, AllFresh, [Next]_vars PROVE AllFresh'
    OBVIOUS
  <2> USE DEF github, runners, history, past
  <2>t. TypeOK
    BY DEF IInv
  <2>1. ASSUME NEW r \in Runner, Step(r) \/ Fault(r) PROVE AllFresh'
    BY <2>t, <2>1, AgeKinds, AgesFresh
  <2>2. CASE Push \/ AddRerunLabel \/ UNCHANGED vars
    BY <2>2 DEF Push, AddRerunLabel, vars, AllFresh, Fresh, Own
  <2>3. ASSUME NEW t \in Task, OperatorRerun(t) PROVE AllFresh'
    <3> SUFFICES ASSUME NEW r \in Runner, pc[r] \in Claiming PROVE Fresh(r)'
      BY <2>3 DEF AllFresh, Fresh, Claiming, OperatorRerun
    <3>1. at[r] \in Task /\ view[r].commit \in Commit
      BY <2>t DEF TypeOK, View, Claiming
    <3>2. Own(r)' = Own(r) \/ Own(r)' = Anonymous("unassigned")
      BY <2>t, <2>3, <3>1 DEF OperatorRerun, TypeOK, Own
    <3>3. Fresh(r)
      BY DEF AllFresh
    <3> QED
      BY <2>3, <3>2, <3>3 DEF OperatorRerun, Fresh, SameDescription, Anonymous
  <2>4. CASE Tick
    BY <2>t, <2>4, TickFresh
  <2> QED
    BY <2>1, <2>2, <2>3, <2>4 DEF Next
<1> QED
  BY <1>1, <1>2, InductiveInvariant, PTL DEF Spec

\* A stale claim was left by a fault, or its runner has executed the job beyond the
\* timeout: LOCK_TIMEOUT, the job's timeout and STALE_TASK_EXTRA_TIME outlast every race
\* and the report of every execution that ends by its timeout.
THEOREM StaleClaimsLate ==
    ASSUME WaitsFit
    PROVE  Spec => []StaleMeansLate
<1>1. IInv /\ AllFresh => StaleMeansLate
  <2> SUFFICES ASSUME IInv, AllFresh, NEW t \in Task, Stalled(status[head][t], Timeout[t])
               PROVE  \/ <<status[head][t].by, head, t>> \in lost
                      \/ status[head][t].by \in late /\ WorksOn(status[head][t].by, head, t, "taken")
    BY DEF StaleMeansLate
  <2> DEFINE s == status[head][t]
             r == s.by
  <2>1. Claimed(s) /\ s.age \in Nat
    <3>1. s \in Status
      BY DEF IInv, TypeOK
    <3> QED
      BY <3>1, StatusAssumption DEF Stalled, Claimed, Status
  <2>2. WorksOn(r, head, t, s.kind) \/ <<r, head, t>> \in lost
    BY <2>1 DEF IInv, ClaimHasOwner
  <2>3. ASSUME WorksOn(r, head, t, s.kind)
        PROVE  r \in late /\ WorksOn(r, head, t, "taken")
    <3>1. r \in Runner /\ Own(r) = s /\ at[r] = t /\ Fresh(r) /\ sleep[r] \in Nat
      BY <2>3 DEF WorksOn, Own, AllFresh, IInv, TypeOK
    <3>2. /\ Timeout[t] \in Nat /\ RaceTimeout \in Nat /\ PollSleep \in Nat
          /\ LockTimeout \in Nat /\ ExtraTime \in Nat
      BY TaskAssumption, StatusAssumption
    <3>3. s.kind # "locked"
      BY <2>1, <2>3, <3>1, <3>2 DEF WorksOn, Fresh, SameDescription, Stalled, Taken, Locked,
         WaitsFit
    <3>4. s.kind = "taken"
      BY <2>1, <3>3 DEF Claimed, Taken, Locked
    <3>5. r \in late
      BY <2>1, <2>3, <3>1, <3>2, <3>4
         DEF WorksOn, Executing, Fresh, SameDescription, Stalled, Taken, Locked, WaitsFit
    <3> QED
      BY <2>3, <3>4, <3>5
  <2> QED
    BY <2>2, <2>3
<1>2. Prompt
  BY DEF WaitsFit
<1> QED
  BY <1>1, <1>2, ClaimsFresh, InductiveInvariant, PTL
=============================================================================

---------------------------- MODULE JobRunProofs ----------------------------
(***************************************************************************)
(* Theorems about JobRun, for any jobs and any retries: its types, the      *)
(* cleanup before a verdict, and what a verdict is worth.                  *)
(***************************************************************************)
EXTENDS JobRun, TLAPS

\* The commands from which the job can no longer go back to its machines.
Late == {"gzip", "repo", "upload", "stop", "index", "end"}

\* There is a process at commands only, the command that has ended has a result,
\* and a verdict comes after the last command.
Threads ==
    /\ process # "none" => cmd \in Command
    /\ process \in {"exited", "reaped"} => ended[cmd] # "not"
    /\ main = "returned" \/ verdict # "none" => cmd = "end"

\* CleanupBeforeReturn, said of the job's thread at every command.
CleanedUp ==
    /\ cmd \in {"prepare", "room", "box"} => ~vms
    /\ cmd = "prepare" => ended["room"] = "not"
    /\ cmd \in Late => \/ ended["destroy"] # "not"
                       \/ job.no_destroy
                       \/ ended["room"] = "not" /\ ~vms
    /\ cmd \in {"stop", "index"} \/ (cmd = "end" /\ job.publish_artifacts)
         => ended["upload"] # "not"

\* VerdictIsEarned, said of the job's thread at every command: as long as no
\* exception is set, the commands it is past have succeeded.
Succeeded ==
    exc = "none" =>
        /\ cmd \notin {"prepare", "room"} => ended["room"] = "ok"
        /\ cmd \notin {"prepare", "room", "box"} => ended["box"] = "ok"
        /\ cmd \notin {"prepare", "room", "box", "up"} => ended["up"] = "ok"
        /\ cmd \notin {"prepare", "room", "box", "up", "provision"} => ended["provision"] = "ok"
        /\ cmd # "stop"
        /\ cmd = "index" \/ (cmd = "end" /\ job.publish_artifacts) => ended["upload"] = "ok"

\* Nothing changes after the verdict what it was founded on.
Founded ==
    verdict \in {"success", "failure"} => exc = "none" /\ (verdict = "success" <=> Passed)

IInv == TypeOK /\ Threads /\ CleanedUp /\ Succeeded /\ Founded

-----------------------------------------------------------------------------
\* Where the job's thread goes from a command that has succeeded, or failed.
LEMMA NextCommand ==
  ASSUME NEW c \in Command
  PROVE  /\ Successor(c) \in Command \cup {"end"}
         /\ OnFailure(c) \in Command \cup {"end"}
  BY DEF Command, Limited, Unlimited, Plain, Successor, OnFailure, Retried, Build, Cleanup

\* No step leaves the types.
LEMMA StepTypes ==
  ASSUME TypeOK, Threads, [Next]_vars
  PROVE  TypeOK'
<1>1. TypeOK /\ Threads
  OBVIOUS
<1>. USE DEF TypeOK, Threads, Command, Limited, Unlimited, Plain, vars, mainVars, jobVars
<1>2. ASSUME Prepare PROVE TypeOK'
  BY <1>1, <1>2 DEF Prepare
<1>3. ASSUME Popen PROVE TypeOK'
  <2>1. hangs' \in 0 .. MaxHangs
    BY <1>1, <1>3, JobAssumption DEF Popen
  <2>2. vms' \in BOOLEAN /\ hung' \in BOOLEAN
    BY <1>1, <1>3 DEF Popen
  <2>. QED
    BY <1>1, <1>3, <2>1, <2>2 DEF Popen
<1>4. ASSUME Exit PROVE TypeOK'
  <2>1. PICK how \in {"ok", "failed"} : Ends(how)
    BY <1>4 DEF Exit
  <2>2. ended' \in [Command -> {"not", "ok", "failed"}]
    BY <1>1, <2>1 DEF Ends
  <2>. QED
    BY <1>1, <1>4, <2>1, <2>2 DEF Exit, Ends
<1>5. ASSUME LimitExpires PROVE TypeOK'
  BY <1>1, <1>5 DEF LimitExpires, Ends
<1>6. ASSUME Reap PROVE TypeOK'
  BY <1>1, <1>6 DEF Reap
<1>7. ASSUME Join PROVE TypeOK'
  BY <1>1, <1>7 DEF Join
<1>8. ASSUME TerminateNext PROVE TypeOK'
  BY <1>1, <1>8 DEF TerminateNext
<1>9. ASSUME Kill PROVE TypeOK'
  <2>1. ended' \in [Command -> {"not", "ok", "failed"}]
    BY <1>1, <1>9 DEF Kill, Ends
  <2>2. hung' \in BOOLEAN /\ process' \in {"none", "running", "exited", "reaped"}
    BY <1>1, <1>9 DEF Kill, Ends
  <2>. QED
    BY <1>1, <1>9, <2>1, <2>2 DEF Kill
<1>10. ASSUME Rejoin PROVE TypeOK'
  BY <1>1, <1>10 DEF Rejoin
<1>11. ASSUME Finally PROVE TypeOK'
  BY <1>1, <1>11 DEF Finally
<1>12. ASSUME Timeout PROVE TypeOK'
  BY <1>1, <1>12 DEF Timeout
<1>14. ASSUME Over PROVE TypeOK'
  BY <1>1, <1>14 DEF Over
<1>15. ASSUME Proceed PROVE TypeOK'
  <2>1. Raised(cmd) \in {"none", "task", "other"}
    BY <1>1 DEF Raised
  <2>2. cmd \in Command /\ cmd' \in Command \cup {"end"}
    BY <1>1, <1>15, NextCommand DEF Proceed
  <2>3. retries' \in [{"up", "provision"} -> Nat]
    BY <1>1, <1>15 DEF Proceed, Retried
  <2>. QED
    BY <1>1, <1>15, <2>1, <2>2, <2>3 DEF Proceed
<1>16. CASE UNCHANGED vars
  BY <1>1, <1>16
<1>. QED
  BY <1>2, <1>3, <1>4, <1>5, <1>6, <1>7, <1>8, <1>9, <1>10, <1>11, <1>12, <1>14, <1>15, <1>16
     DEF Next, JobThread, MainThread

\* A verdict is given when the job's thread has ended, and it stays so.
LEMMA StepThreads ==
  ASSUME TypeOK, Threads, [Next]_vars
  PROVE  Threads'
<1>1. TypeOK /\ Threads
  OBVIOUS
<1>. USE DEF TypeOK, Threads, Command, Limited, Unlimited, Plain, vars, mainVars, jobVars
<1>2. ASSUME Prepare PROVE Threads'
  BY <1>1, <1>2 DEF Prepare
<1>3. ASSUME Popen PROVE Threads'
  BY <1>1, <1>3 DEF Popen
<1>4. ASSUME Exit PROVE Threads'
  BY <1>1, <1>4 DEF Exit, Ends
<1>5. ASSUME LimitExpires PROVE Threads'
  BY <1>1, <1>5 DEF LimitExpires, Ends
<1>6. ASSUME Reap PROVE Threads'
  BY <1>1, <1>6 DEF Reap
<1>7. ASSUME Join PROVE Threads'
  BY <1>1, <1>7 DEF Join
<1>8. ASSUME TerminateNext PROVE Threads'
  BY <1>1, <1>8 DEF TerminateNext
<1>9. ASSUME Kill PROVE Threads'
  BY <1>1, <1>9 DEF Kill, Ends
<1>10. ASSUME Rejoin PROVE Threads'
  BY <1>1, <1>10 DEF Rejoin
<1>11. ASSUME Finally PROVE Threads'
  BY <1>1, <1>11 DEF Finally
<1>12. ASSUME Timeout PROVE Threads'
  BY <1>1, <1>12 DEF Timeout
<1>14. ASSUME Over PROVE Threads'
  BY <1>1, <1>14 DEF Over
<1>15. ASSUME Proceed PROVE Threads'
  BY <1>1, <1>15, NextCommand DEF Proceed
<1>16. CASE UNCHANGED vars
  BY <1>1, <1>16
<1>. QED
  BY <1>2, <1>3, <1>4, <1>5, <1>6, <1>7, <1>8, <1>9, <1>10, <1>11, <1>12, <1>14, <1>15, <1>16
     DEF Next, JobThread, MainThread

\* The only ways to the last commands lead through the cleanup, or past the
\* machines as a whole.
LEMMA StepCleanedUp ==
  ASSUME TypeOK, Threads, CleanedUp, [Next]_vars
  PROVE  CleanedUp'
<1>1. TypeOK /\ Threads /\ CleanedUp
  OBVIOUS
<1>. USE DEF TypeOK, Threads, CleanedUp, Late, Command, Limited, Unlimited, Plain, vars, mainVars, jobVars
<1>2. ASSUME Prepare PROVE CleanedUp'
  BY <1>1, <1>2 DEF Prepare
<1>3. ASSUME Popen PROVE CleanedUp'
  BY <1>1, <1>3 DEF Popen
<1>4. ASSUME Exit PROVE CleanedUp'
  BY <1>1, <1>4 DEF Exit, Ends
<1>5. ASSUME LimitExpires PROVE CleanedUp'
  BY <1>1, <1>5 DEF LimitExpires, Ends
<1>6. ASSUME Reap PROVE CleanedUp'
  BY <1>1, <1>6 DEF Reap
<1>7. ASSUME Join PROVE CleanedUp'
  BY <1>1, <1>7 DEF Join
<1>8. ASSUME TerminateNext PROVE CleanedUp'
  BY <1>1, <1>8 DEF TerminateNext
<1>9. ASSUME Kill PROVE CleanedUp'
  BY <1>1, <1>9 DEF Kill, Ends
<1>10. ASSUME Rejoin PROVE CleanedUp'
  BY <1>1, <1>10 DEF Rejoin
<1>11. ASSUME Finally PROVE CleanedUp'
  BY <1>1, <1>11 DEF Finally
<1>12. ASSUME Timeout PROVE CleanedUp'
  BY <1>1, <1>12 DEF Timeout
<1>14. ASSUME Over PROVE CleanedUp'
  BY <1>1, <1>14 DEF Over
<1>15. ASSUME Proceed PROVE CleanedUp'
  BY <1>1, <1>15 DEF Proceed, Successor, OnFailure, Retried, Cleanup, SetUp, Build
<1>16. CASE UNCHANGED vars
  BY <1>1, <1>16
<1>. QED
  BY <1>2, <1>3, <1>4, <1>5, <1>6, <1>7, <1>8, <1>9, <1>10, <1>11, <1>12, <1>14, <1>15, <1>16
     DEF Next, JobThread, MainThread

\* A command of the set-up that fails for good sets the exception.
LEMMA StepSucceeded ==
  ASSUME TypeOK, Threads, Succeeded, [Next]_vars
  PROVE  Succeeded'
<1>1. TypeOK /\ Threads /\ Succeeded
  OBVIOUS
<1>. USE DEF TypeOK, Threads, Succeeded, Command, Limited, Unlimited, Plain, vars, mainVars, jobVars
<1>2. ASSUME Prepare PROVE Succeeded'
  BY <1>1, <1>2 DEF Prepare
<1>3. ASSUME Popen PROVE Succeeded'
  BY <1>1, <1>3 DEF Popen
<1>4. ASSUME Exit PROVE Succeeded'
  BY <1>1, <1>4 DEF Exit, Ends
<1>5. ASSUME LimitExpires PROVE Succeeded'
  BY <1>1, <1>5 DEF LimitExpires, Ends
<1>6. ASSUME Reap PROVE Succeeded'
  BY <1>1, <1>6 DEF Reap
<1>7. ASSUME Join PROVE Succeeded'
  BY <1>1, <1>7 DEF Join
<1>8. ASSUME TerminateNext PROVE Succeeded'
  BY <1>1, <1>8 DEF TerminateNext
<1>9. ASSUME Kill PROVE Succeeded'
  BY <1>1, <1>9 DEF Kill, Ends
<1>10. ASSUME Rejoin PROVE Succeeded'
  BY <1>1, <1>10 DEF Rejoin
<1>11. ASSUME Finally PROVE Succeeded'
  BY <1>1, <1>11 DEF Finally
<1>12. ASSUME Timeout PROVE Succeeded'
  BY <1>1, <1>12 DEF Timeout
<1>14. ASSUME Over PROVE Succeeded'
  BY <1>1, <1>14 DEF Over
<1>15. ASSUME Proceed PROVE Succeeded'
  BY <1>1, <1>15 DEF Proceed, Successor, OnFailure, Retried, Raised, Cleanup, SetUp, Build
<1>16. CASE UNCHANGED vars
  BY <1>1, <1>16
<1>. QED
  BY <1>2, <1>3, <1>4, <1>5, <1>6, <1>7, <1>8, <1>9, <1>10, <1>11, <1>12, <1>14, <1>15, <1>16
     DEF Next, JobThread, MainThread

\* The job's thread has ended by then: no command ends after the verdict.
LEMMA StepFounded ==
  ASSUME TypeOK, Threads, Founded, [Next]_vars
  PROVE  Founded'
<1>1. TypeOK /\ Threads /\ Founded
  OBVIOUS
<1>. USE DEF TypeOK, Threads, Founded, Passed, Build, Command, Limited, Unlimited, Plain, vars, mainVars, jobVars
<1>2. ASSUME Prepare PROVE Founded'
  BY <1>1, <1>2 DEF Prepare
<1>3. ASSUME Popen PROVE Founded'
  BY <1>1, <1>3 DEF Popen
<1>4. ASSUME Exit PROVE Founded'
  BY <1>1, <1>4 DEF Exit, Ends
<1>5. ASSUME LimitExpires PROVE Founded'
  BY <1>1, <1>5 DEF LimitExpires, Ends
<1>6. ASSUME Reap PROVE Founded'
  BY <1>1, <1>6 DEF Reap
<1>7. ASSUME Join PROVE Founded'
  BY <1>1, <1>7 DEF Join
<1>8. ASSUME TerminateNext PROVE Founded'
  BY <1>1, <1>8 DEF TerminateNext
<1>9. ASSUME Kill PROVE Founded'
  BY <1>1, <1>9 DEF Kill, Ends
<1>10. ASSUME Rejoin PROVE Founded'
  BY <1>1, <1>10 DEF Rejoin
<1>11. ASSUME Finally PROVE Founded'
  BY <1>1, <1>11 DEF Finally
<1>12. ASSUME Timeout PROVE Founded'
  BY <1>1, <1>12 DEF Timeout
<1>14. ASSUME Over PROVE Founded'
  BY <1>1, <1>14 DEF Over
<1>15. ASSUME Proceed PROVE Founded'
  BY <1>1, <1>15 DEF Proceed
<1>16. CASE UNCHANGED vars
  BY <1>1, <1>16
<1>. QED
  BY <1>2, <1>3, <1>4, <1>5, <1>6, <1>7, <1>8, <1>9, <1>10, <1>11, <1>12, <1>14, <1>15, <1>16
     DEF Next, JobThread, MainThread

-----------------------------------------------------------------------------
\* The invariant holds initially.
LEMMA Initially == Init => IInv
<1>1. Init => TypeOK
  <2>1. Init => ended \in [Command -> {"not", "ok", "failed"}]
    BY DEF Init
  <2>2. Init => retries \in [{"up", "provision"} -> Nat]
    <3>1. \A j \in Jobs : UpRetries[j.class] \in Nat /\ ProvisionRetries[j.class] \in Nat
      BY JobAssumption DEF JobTask
    <3>. QED
      BY <3>1 DEF Init
  <2>3. Init => cmd \in Command \cup {"prepare"} /\ hangs \in 0 .. MaxHangs
    BY JobAssumption DEF Init
  <2>4. Init => cursor \in Nat /\ seq \in Nat
    BY DEF Init
  <2>. QED
    BY <2>1, <2>2, <2>3, <2>4 DEF Init, TypeOK
<1>2. Init => Threads /\ CleanedUp /\ Succeeded /\ Founded
  BY DEF Init, Threads, CleanedUp, Succeeded, Founded, Late, Command, Limited, Unlimited, Plain
<1>. QED
  BY <1>1, <1>2 DEF IInv

\* The inductive invariant.
THEOREM InductiveInvariant == Spec => []IInv
<1>1. IInv /\ [Next]_vars => IInv'
  BY StepTypes, StepThreads, StepCleanedUp, StepSucceeded, StepFounded DEF IInv
<1>. QED
  BY Initially, <1>1, PTL DEF Spec

\* Type correctness.
THEOREM TypeCorrect == Spec => []TypeOK
  BY InductiveInvariant, PTL DEF IInv

\* Whatever fails and whenever the timeout expires, a verdict comes after the
\* cleanup.
THEOREM CleansUp == Spec => []CleanupBeforeReturn
<1>1. IInv => CleanupBeforeReturn
  BY DEF IInv, Threads, CleanedUp, Late, CleanupBeforeReturn
<1>. QED
  BY <1>1, InductiveInvariant, PTL

\* Success and failure are verdicts on jobs whose machines were set up and whose
\* logs were published.
THEOREM VerdictsEarned == Spec => []VerdictIsEarned
<1>1. IInv => VerdictIsEarned
  BY DEF IInv, Threads, Succeeded, SetUp, Founded, Passed, Build, VerdictIsEarned
<1>. QED
  BY <1>1, InductiveInvariant, PTL
=============================================================================

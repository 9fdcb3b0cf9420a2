----------------------------- MODULE RateLimit -----------------------------
(***************************************************************************)
(* The runners share the GitHub account and its two quotas of calls.       *)
(*                                                                         *)
(* Before an operation World.__check_limit asks GitHub what is left of a   *)
(* quota and sleeps until its reset when that is below EPHEMERAL_LIMIT.    *)
(* Between the answer, the sleep and the calls of the operation the other  *)
(* runners go on calling, and nobody looks again after the sleep.  A label *)
(* is changed with calls of the core quota after a check of the other one. *)
(*                                                                         *)
(* A call is one action.  Time passes between any two of them.             *)
(***************************************************************************)
EXTENDS Integers, FiniteSets

CONSTANTS
    Runner,          \* the runners that share the account
    Quota,           \* calls per window: 5000
    Window,          \* the ticks of a window: an hour
    EphemeralLimit,  \* EPHEMERAL_LIMIT: 60
    ApiCheckTries,   \* API_CHECK_TRIES: 5
    ApiCheckSleep,   \* API_CHECK_SLEEP: 7 s
    MaxLabels,       \* bound: label changes under way in one window
    MaxErrors        \* bound: checks that GitHub fails to answer

ASSUME RateAssumption ==
    /\ IsFiniteSet(Runner)
    /\ Quota \in Nat /\ Window \in Nat \ {0}
    /\ EphemeralLimit \in Nat
    /\ ApiCheckTries \in Nat \ {0} /\ ApiCheckSleep \in Nat
    /\ MaxLabels \in Nat /\ MaxErrors \in Nat

Resource == {"core", "graphql"}

\* main's query and poll_status; create_status and create_error_status;
\* PullRequest.__add_label and __remove_label.
Operation == {"query", "status", "label"}

Checks(o) == IF o = "status" THEN "core" ELSE "graphql"
Uses(o) == IF o = "query" THEN "graphql" ELSE "core"

\* The repository and the status; the pull request, its issue and the label.
Calls(o) == CASE o = "query" -> 1 [] o = "status" -> 2 [] o = "label" -> 3

VARIABLES
    remaining,  \* resource -> the calls left in its window
    left,       \* resource -> the ticks to its reset
    labels,     \* the label changes begun in or carried into core's window
    pc,         \* runner -> where it is in its operation
    op,         \* runner -> its operation
    answer,     \* runner -> what it was told: calls left, ticks to the reset
    tries,      \* runner -> the failed attempts of this check
    sleep,      \* runner -> the rest of its sleep
    calls,      \* runner -> the calls its operation has still to make
    errors      \* the checks that failed so far

quota == <<remaining, left, labels>>
runners == <<pc, op, answer, tries, sleep, calls>>
vars == <<quota, runners, errors>>

PC == {"free", "check", "answered", "asleep", "call", "down"}

Answer == [remaining : 0 .. Quota, until : -1 .. Window]
NoAnswer == [remaining |-> 0, until |-> 0]

TypeOK ==
    /\ remaining \in [Resource -> 0 .. Quota]
    /\ left \in [Resource -> 1 .. Window]
    /\ labels \in 0 .. MaxLabels
    /\ pc \in [Runner -> PC]
    /\ op \in [Runner -> Operation]
    /\ answer \in [Runner -> Answer]
    /\ tries \in [Runner -> 0 .. ApiCheckTries - 1]
    /\ sleep \in [Runner -> Nat]
    /\ calls \in [Runner -> 0 .. 3]
    /\ errors \in 0 .. MaxErrors

Init ==
    /\ remaining = [q \in Resource |-> Quota]
    /\ left = [q \in Resource |-> Window]
    /\ labels = 0
    /\ pc = [r \in Runner |-> "free"]
    /\ op = [r \in Runner |-> "query"]
    /\ answer = [r \in Runner |-> NoAnswer]
    /\ tries = [r \in Runner |-> 0]
    /\ sleep = [r \in Runner |-> 0]
    /\ calls = [r \in Runner |-> 0]
    /\ errors = 0

\* Runner r changes a label, in this window or from the last one on.
Labelling(r) == op[r] = "label" /\ pc[r] \in {"check", "answered", "asleep", "call"}

Goto(r, p) == pc' = [pc EXCEPT ![r] = p]

\* The operation is over, with the process or without it.
End(r, p) ==
    /\ Goto(r, p)
    /\ op' = [op EXCEPT ![r] = "query"]
    /\ answer' = [answer EXCEPT ![r] = NoAnswer]
    /\ tries' = [tries EXCEPT ![r] = 0]
    /\ sleep' = [sleep EXCEPT ![r] = 0]
    /\ calls' = [calls EXCEPT ![r] = 0]

Begin(r, o) ==
    /\ pc[r] = "free"
    /\ o = "label" => labels < MaxLabels
    /\ labels' = IF o = "label" THEN labels + 1 ELSE labels
    /\ Goto(r, "check")
    /\ op' = [op EXCEPT ![r] = o]
    /\ calls' = [calls EXCEPT ![r] = Calls(o)]
    /\ UNCHANGED <<remaining, left, answer, tries, sleep, errors>>

\* get_rate_limit: the question itself is free.
GetRateLimit(r) ==
    /\ pc[r] = "check" /\ sleep[r] = 0
    /\ answer' = [answer EXCEPT ![r] = [remaining |-> remaining[Checks(op[r])],
                                        until     |-> left[Checks(op[r])]]]
    /\ Goto(r, "answered")
    /\ UNCHANGED <<quota, op, tries, sleep, calls, errors>>

\* Mutant: one attempt too many.
GetRateLimitFailsOnceMore(r) ==
    /\ pc[r] = "check" /\ sleep[r] = 0
    /\ errors < MaxErrors
    /\ errors' = errors + 1
    /\ \/ /\ tries[r] < ApiCheckTries
          /\ tries' = [tries EXCEPT ![r] = @ + 1]
          /\ sleep' = [sleep EXCEPT ![r] = ApiCheckSleep]
          /\ UNCHANGED <<pc, op, answer, calls>>
       \/ /\ tries[r] = ApiCheckTries
          /\ End(r, "down")
    /\ UNCHANGED quota

\* A ServerError is retried, the last one ends the process (after one more sleep).
GetRateLimitFails(r) ==
    /\ pc[r] = "check" /\ sleep[r] = 0
    /\ errors < MaxErrors
    /\ errors' = errors + 1
    /\ \/ /\ tries[r] + 1 < ApiCheckTries
          /\ tries' = [tries EXCEPT ![r] = @ + 1]
          /\ sleep' = [sleep EXCEPT ![r] = ApiCheckSleep]
          /\ UNCHANGED <<pc, op, answer, calls>>
       \/ /\ tries[r] + 1 = ApiCheckTries
          /\ End(r, "down")
    /\ UNCHANGED quota

\* Mutant: any call that is left will do.
AvailableIfAny(a) == a.remaining > 0

Available(a) == a.remaining >= EphemeralLimit

\* RateLimit.wait, with what is known from the answer.
Wait(r) ==
    /\ pc[r] = "answered"
    /\ \/ /\ Available(answer[r])
          /\ Goto(r, "call")
          /\ UNCHANGED sleep
       \/ /\ ~Available(answer[r])
          /\ answer[r].until > 0
          /\ Goto(r, "asleep")
          /\ sleep' = [sleep EXCEPT ![r] = answer[r].until]
    /\ answer' = [answer EXCEPT ![r] = NoAnswer]
    /\ UNCHANGED <<quota, op, tries, calls, errors>>

\* The reset is past by now: sleep raises ValueError on a negative number, which
\* nobody catches.
WaitRaises(r) ==
    /\ pc[r] = "answered"
    /\ ~Available(answer[r]) /\ answer[r].until <= 0
    /\ End(r, "down")
    /\ UNCHANGED <<quota, errors>>

Wake(r) ==
    /\ pc[r] = "asleep" /\ sleep[r] = 0
    /\ Goto(r, "call")
    /\ UNCHANGED <<quota, op, answer, tries, sleep, calls, errors>>

\* GitHub refuses a call when none is left: a poll's EnvironmentError is caught,
\* main's query and the ForbiddenError of the core quota end the process.
Call(r) ==
    /\ pc[r] = "call" /\ calls[r] > 0
    /\ IF remaining[Uses(op[r])] > 0
         THEN /\ remaining' = [remaining EXCEPT ![Uses(op[r])] = @ - 1]
              /\ calls' = [calls EXCEPT ![r] = @ - 1]
              /\ UNCHANGED <<pc, op, answer, tries, sleep>>
         ELSE /\ \E p \in IF op[r] = "query" THEN {"free", "down"} ELSE {"down"} : End(r, p)
              /\ UNCHANGED remaining
    /\ UNCHANGED <<left, labels, errors>>

Return(r) ==
    /\ pc[r] = "call" /\ calls[r] = 0
    /\ End(r, "free")
    /\ UNCHANGED <<quota, errors>>

\* systemd starts prci again.
Restart(r) ==
    /\ pc[r] = "down"
    /\ Goto(r, "free")
    /\ UNCHANGED <<quota, op, answer, tries, sleep, calls, errors>>

Resets(q) == left[q] = 1

\* Mutant: the time since the answer is not taken off.
TickForgetsAnswers ==
    /\ remaining' = [q \in Resource |-> IF Resets(q) THEN Quota ELSE remaining[q]]
    /\ left' = [q \in Resource |-> IF Resets(q) THEN Window ELSE left[q] - 1]
    /\ labels' = IF Resets("core") THEN Cardinality({r \in Runner : Labelling(r)})
                                   ELSE labels
    /\ sleep' = [r \in Runner |-> IF sleep[r] > 0 THEN sleep[r] - 1 ELSE 0]
    /\ UNCHANGED <<answer, pc, op, tries, calls, errors>>

Tick ==
    /\ remaining' = [q \in Resource |-> IF Resets(q) THEN Quota ELSE remaining[q]]
    /\ left' = [q \in Resource |-> IF Resets(q) THEN Window ELSE left[q] - 1]
    /\ labels' = IF Resets("core") THEN Cardinality({r \in Runner : Labelling(r)})
                                   ELSE labels
    /\ sleep' = [r \in Runner |-> IF sleep[r] > 0 THEN sleep[r] - 1 ELSE 0]
    /\ answer' = [r \in Runner |->
                    [answer[r] EXCEPT !.until = IF pc[r] = "answered" /\ @ > -1
                                                  THEN @ - 1 ELSE @]]
    /\ UNCHANGED <<pc, op, tries, calls, errors>>

Step(r) ==
    \/ \E o \in Operation : Begin(r, o)
    \/ GetRateLimit(r) \/ GetRateLimitFails(r)
    \/ Wait(r) \/ WaitRaises(r) \/ Wake(r)
    \/ Call(r) \/ Return(r)
    \/ Restart(r)

Next == Tick \/ \E r \in Runner : Step(r)

Spec == Init /\ [][Next]_vars

-----------------------------------------------------------------------------
(* Properties.                                                             *)

\* EPHEMERAL_LIMIT keeps enough in reserve for what may come after a look at it:
\* the two calls of a status by every runner, and those of the label changes,
\* which look at the other quota.
Reserve == /\ EphemeralLimit >= 2 * Cardinality(Runner) + 3 * MaxLabels
           /\ Quota >= EphemeralLimit

\* With that reserve GitHub refuses no call, although each runner acts on an answer
\* that the others have made stale and wakes without asking again: whenever a
\* runner is to make a call there is one left.
NeverRefused ==
    \A r \in Runner : pc[r] = "call" /\ calls[r] > 0 => remaining[Uses(op[r])] > 0

\* No runner sleeps on in the next window: RateLimit.wait takes the time that has
\* passed since the answer off, and raises when the reset is behind it.
SleepEndsWithWindow ==
    \A r \in Runner : pc[r] = "asleep" => sleep[r] <= left[Checks(op[r])]
=============================================================================

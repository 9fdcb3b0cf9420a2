-------------------------- MODULE RateLimitProofs --------------------------
(***************************************************************************)
(* The reserve of RateLimit suffices for any number of runners, any quota  *)
(* and any window.  Calls that a runner may make without another look at   *)
(* the quota are counted as tokens: pairs of the runner and a number.      *)
(***************************************************************************)
EXTENDS RateLimit, FiniteSetTheorems, TLAPS

Changing == {r \in Runner : Labelling(r)}

\* The label changes under way are counted.
LabelsCounted == Cardinality(Changing) <= labels

CallsFit == \A r \in Runner : calls[r] <= Calls(op[r])

\* What a runner knows of the reset, unless it has passed, is right.
InStep ==
    \A r \in Runner :
        /\ pc[r] = "answered" /\ answer[r].until > 0 => answer[r].until = left[Checks(op[r])]
        /\ pc[r] = "asleep" /\ sleep[r] > 0 => sleep[r] = left[Checks(op[r])]

Inv == TypeOK /\ LabelsCounted /\ CallsFit /\ InStep

\* Runner r has looked at the quota for the last time before its calls.
Looked(r) ==
    \/ pc[r] = "call"
    \/ pc[r] = "answered" /\ Available(answer[r])
    \/ pc[r] = "asleep" /\ sleep[r] = 0

Tokens(q) ==
    {k \in Runner \X (1 .. 3) : /\ Uses(op[k[1]]) = q
                                /\ k[2] <= calls[k[1]]
                                /\ Labelling(k[1]) \/ Looked(k[1])}

Slack(q) == IF q = "core" THEN 3 * labels ELSE 0

\* The calls that may still come without a look fit into what is left, but for
\* what the reserve is there for.
WithinBudget(q) ==
    remaining[q] + Slack(q) >=
        Cardinality(Tokens(q)) + EphemeralLimit - 2 * Cardinality(Runner)

Budget == \A q \in Resource : WithinBudget(q)

-----------------------------------------------------------------------------
\* The sets of runners and of tokens are finite.
LEMMA Finiteness ==
    /\ IsFiniteSet(Changing) /\ Cardinality(Changing) \in Nat
    /\ Cardinality(Runner) \in Nat
    /\ \A q : IsFiniteSet(Tokens(q)) /\ Cardinality(Tokens(q)) \in Nat
<1>1. IsFiniteSet(Runner \X (1 .. 3))
  <2>0. 1 \in Int /\ 3 \in Int
    OBVIOUS
  <2>1. IsFiniteSet(1 .. 3)
    BY <2>0, FS_Interval, Zenon
  <2> QED
    BY <2>1, RateAssumption, FS_Product
<1>2. Changing \subseteq Runner /\ \A q : Tokens(q) \subseteq Runner \X (1 .. 3)
  BY DEF Changing, Tokens
<1>3. IsFiniteSet(Changing) /\ \A q : IsFiniteSet(Tokens(q))
  BY <1>1, <1>2, FS_Subset, RateAssumption
<1> QED
  BY <1>3, FS_CardinalityType, RateAssumption

\* Inv holds initially.
LEMMA InitInv == Init => Inv
<1> SUFFICES ASSUME Init PROVE Inv
  OBVIOUS
<1>1. TypeOK
  BY RateAssumption DEF Init, TypeOK, Resource, PC, Operation, Answer, NoAnswer
<1>2. Changing = {}
  BY DEF Init, Changing, Labelling
<1>3. LabelsCounted
  BY <1>2, FS_EmptySet DEF LabelsCounted, Init
<1> QED
  BY <1>1, <1>3 DEF Inv, CallsFit, InStep, Init, Calls

\* What is common to the ways an operation ends.
LEMMA EndInv ==
    ASSUME Inv, NEW r \in Runner, NEW p \in {"free", "down"}, End(r, p),
           UNCHANGED <<left, labels>>
    PROVE  /\ pc' \in [Runner -> PC] /\ op' \in [Runner -> Operation]
           /\ answer' \in [Runner -> Answer]
           /\ tries' \in [Runner -> 0 .. ApiCheckTries - 1]
           /\ sleep' \in [Runner -> Nat] /\ calls' \in [Runner -> 0 .. 3]
           /\ LabelsCounted' /\ CallsFit' /\ InStep'
<1>1. TypeOK
  BY DEF Inv
<1>2. NoAnswer \in Answer /\ "query" \in Operation /\ p \in PC
  BY RateAssumption DEF NoAnswer, Answer, Operation, PC
<1>3. /\ pc' \in [Runner -> PC] /\ op' \in [Runner -> Operation]
      /\ answer' \in [Runner -> Answer]
      /\ tries' \in [Runner -> 0 .. ApiCheckTries - 1]
      /\ sleep' \in [Runner -> Nat] /\ calls' \in [Runner -> 0 .. 3]
  BY <1>1, <1>2, RateAssumption DEF TypeOK, End, Goto
<1>4. Changing' \subseteq Changing
  BY <1>1 DEF Changing, Labelling, End, Goto, TypeOK
<1>5. LabelsCounted'
  <2>1. Cardinality(Changing') <= Cardinality(Changing) /\ Cardinality(Changing') \in Nat
    BY <1>4, Finiteness, FS_Subset, FS_CardinalityType
  <2> QED
    BY <2>1, <1>1, Finiteness DEF LabelsCounted, Inv, TypeOK
<1>6. CallsFit'
  <2> SUFFICES ASSUME NEW s \in Runner PROVE calls'[s] <= Calls(op'[s])
    BY DEF CallsFit
  <2>1. CASE s = r
    <3>1. calls'[s] = 0 /\ op'[s] = "query"
      BY <1>1, <2>1 DEF End, TypeOK
    <3> QED
      BY <3>1 DEF Calls
  <2>2. CASE s # r
    <3>1. calls'[s] = calls[s] /\ op'[s] = op[s]
      BY <1>1, <2>2 DEF End, TypeOK
    <3> QED
      BY <3>1 DEF CallsFit, Inv
  <2> QED
    BY <2>1, <2>2
<1>7. InStep'
  BY <1>1 DEF InStep, Inv, End, Goto, NoAnswer, TypeOK
<1> QED
  BY <1>3, <1>5, <1>6, <1>7
\* Every step preserves Inv.
LEMMA StepInv == Inv /\ [Next]_vars => Inv'
<1> SUFFICES ASSUME Inv, [Next]_vars PROVE Inv'
  OBVIOUS
<1> USE DEF quota, runners
<1>t. TypeOK
  BY DEF Inv
<1>c. ASSUME Changing' = Changing, labels' = labels PROVE LabelsCounted'
  BY <1>c DEF Inv, LabelsCounted
<1>f. ASSUME UNCHANGED <<calls, op>> PROVE CallsFit'
  BY <1>f DEF Inv, CallsFit
<1>1. ASSUME NEW r \in Runner, NEW o \in Operation, Begin(r, o) PROVE Inv'
  <2>0. \A x \in Operation : Calls(x) \in 1 .. 3
    BY DEF Operation, Calls
  <2>1. TypeOK'
    BY <1>1, <1>t, <2>0, RateAssumption DEF TypeOK, Begin, Goto, PC
  <2>2. LabelsCounted'
    <3>1. CASE o = "label"
      <4>1. Changing' = Changing \cup {r} /\ labels' = labels + 1
        BY <1>1, <1>t, <3>1 DEF Begin, Changing, Labelling, Goto, TypeOK
      <4>2. Cardinality(Changing \cup {r}) =
              IF r \in Changing THEN Cardinality(Changing) ELSE Cardinality(Changing) + 1
        BY Finiteness, FS_AddElement
      <4>3. Cardinality(Changing') <= Cardinality(Changing) + 1
        BY <4>1, <4>2, Finiteness
      <4> QED
        BY <4>1, <4>3, <4>2, <1>t, Finiteness DEF LabelsCounted, Inv, TypeOK
    <3>2. CASE o # "label"
      <4>1. Changing' = Changing /\ labels' = labels
        BY <1>1, <1>t, <3>2 DEF Begin, Changing, Labelling, Goto, TypeOK
      <4> QED
        BY <4>1, <1>c
    <3> QED
      BY <3>1, <3>2
  <2>3. CallsFit'
    <3> SUFFICES ASSUME NEW s \in Runner PROVE calls'[s] <= Calls(op'[s])
      BY DEF CallsFit
    <3>1. CASE s = r
      <4>1. calls'[s] = Calls(o) /\ op'[s] = o
        BY <1>1, <1>t, <3>1 DEF Begin, TypeOK
      <4> QED
        BY <4>1, <2>0
    <3>2. CASE s # r
      <4>1. calls'[s] = calls[s] /\ op'[s] = op[s]
        BY <1>1, <1>t, <3>2 DEF Begin, TypeOK
      <4> QED
        BY <4>1 DEF CallsFit, Inv
    <3> QED
      BY <3>1, <3>2
  <2>4. InStep'
    BY <1>1, <1>t DEF InStep, Inv, Begin, Goto, TypeOK
  <2> QED
    BY <2>1, <2>2, <2>3, <2>4 DEF Inv
<1>2. ASSUME NEW r \in Runner, GetRateLimit(r) PROVE Inv'
  <2>0. Checks(op[r]) \in Resource
    BY DEF Checks, Resource
  <2>1. TypeOK'
    <3>1. [remaining |-> remaining[Checks(op[r])], until |-> left[Checks(op[r])]] \in Answer
      BY <1>t, <2>0, RateAssumption DEF TypeOK, Answer
    <3> QED
      BY <1>2, <1>t, <3>1 DEF TypeOK, GetRateLimit, Goto, PC
  <2>2. LabelsCounted'
    <3>1. Changing' = Changing
      BY <1>2, <1>t DEF GetRateLimit, Changing, Labelling, Goto, TypeOK
    <3> QED
      BY <1>2, <3>1, <1>c DEF GetRateLimit
  <2>3. InStep'
    BY <1>2, <1>t DEF InStep, Inv, GetRateLimit, Goto, TypeOK
  <2> QED
    BY <1>2, <2>1, <2>2, <2>3, <1>f DEF Inv, GetRateLimit
<1>3. ASSUME NEW r \in Runner, GetRateLimitFails(r) PROVE Inv'
  <2>1. CASE End(r, "down")
    <3>0. UNCHANGED quota
      BY <1>3 DEF GetRateLimitFails
    <3>1. errors' \in 0 .. MaxErrors
      BY <1>3, <1>t, RateAssumption DEF GetRateLimitFails, TypeOK
    <3>2. TypeOK'
      BY <1>t, <2>1, <3>0, <3>1, EndInv DEF TypeOK
    <3> QED
      BY <2>1, <3>0, <3>2, EndInv DEF Inv
  <2>2. CASE UNCHANGED <<pc, op, answer, calls>>
    <3> SUFFICES ASSUME ~End(r, "down") PROVE Inv'
      BY <2>1
    <3>1. TypeOK'
      BY <1>3, <1>t, <2>2, RateAssumption DEF GetRateLimitFails, TypeOK
    <3>2. LabelsCounted'
      BY <1>3, <2>2, <1>c DEF GetRateLimitFails, Changing, Labelling
    <3>3. InStep'
      BY <1>3, <1>t, <2>2 DEF InStep, Inv, GetRateLimitFails, TypeOK
    <3> QED
      BY <2>2, <3>1, <3>2, <3>3, <1>f DEF Inv
  <2> QED
    BY <1>3, <2>1, <2>2 DEF GetRateLimitFails
<1>4. ASSUME NEW r \in Runner, Wait(r) PROVE Inv'
  <2>1. TypeOK'
    <3>1. NoAnswer \in Answer
      BY RateAssumption DEF NoAnswer, Answer
    <3>2. \A s \in Runner : answer[s].until \in Int
      BY <1>t DEF TypeOK, Answer
    <3>3. sleep' \in [Runner -> Nat]
      BY <1>4, <1>t, <3>2 DEF Wait, TypeOK
    <3> QED
      BY <1>4, <1>t, <3>1, <3>3 DEF Wait, TypeOK, Goto, PC
  <2>2. LabelsCounted'
    <3>1. Changing' = Changing
      BY <1>4, <1>t DEF Wait, Changing, Labelling, Goto, TypeOK
    <3> QED
      BY <1>4, <3>1, <1>c DEF Wait
  <2>3. InStep'
    BY <1>4, <1>t DEF InStep, Inv, Wait, Goto, TypeOK, NoAnswer
  <2> QED
    BY <1>4, <2>1, <2>2, <2>3, <1>f DEF Inv, Wait
<1>5. ASSUME NEW r \in Runner, NEW p \in {"free", "down"}, End(r, p),
             UNCHANGED <<quota, errors>>
      PROVE  Inv'
  <2>1. TypeOK'
    BY <1>5, <1>t, EndInv DEF TypeOK
  <2> QED
    BY <1>5, <2>1, EndInv DEF Inv
<1>6. ASSUME NEW r \in Runner, Wake(r) PROVE Inv'
  <2>1. TypeOK'
    BY <1>6, <1>t DEF Wake, TypeOK, Goto, PC
  <2>2. Changing' = Changing
    BY <1>6, <1>t DEF Wake, Changing, Labelling, Goto, TypeOK
  <2>3. InStep'
    BY <1>6, <1>t DEF InStep, Inv, Wake, Goto, TypeOK
  <2> QED
    BY <1>6, <2>1, <2>2, <2>3, <1>c, <1>f DEF Inv, Wake
<1>7. ASSUME NEW r \in Runner, Call(r) PROVE Inv'
  <2>0. Uses(op[r]) \in Resource
    BY DEF Uses, Resource
  <2>1. CASE remaining[Uses(op[r])] > 0
    <3>1. TypeOK'
      BY <1>7, <1>t, <2>0, <2>1, RateAssumption DEF Call, TypeOK
    <3>2. Changing' = Changing
      BY <1>7, <2>1 DEF Call, Changing, Labelling
    <3>3. InStep'
      BY <1>7, <2>1 DEF InStep, Inv, Call
    <3>4. CallsFit'
      <4>1. op' = op /\ \A s \in Runner : calls'[s] <= calls[s]
        BY <1>7, <1>t, <2>1 DEF Call, TypeOK
      <4>2. \A s \in Runner : Calls(op[s]) \in Nat /\ calls'[s] \in Nat /\ calls[s] \in Nat
        BY <1>t, <3>1 DEF TypeOK, Calls, Operation
      <4> QED
        BY <4>1, <4>2 DEF CallsFit, Inv
    <3> QED
      BY <1>7, <3>1, <3>2, <3>3, <3>4, <1>c DEF Inv, Call
  <2>2. CASE ~(remaining[Uses(op[r])] > 0)
    <3>1. PICK p \in {"free", "down"} : End(r, p)
      BY <1>7, <2>2 DEF Call
    <3>2. UNCHANGED <<quota, errors>>
      BY <1>7, <2>2 DEF Call
    <3> QED
      BY <3>1, <3>2, <1>5
  <2> QED
    BY <2>1, <2>2
<1>8. ASSUME NEW r \in Runner, Restart(r) PROVE Inv'
  <2>1. TypeOK'
    BY <1>8, <1>t DEF Restart, TypeOK, Goto, PC
  <2>2. Changing' = Changing
    BY <1>8, <1>t DEF Restart, Changing, Labelling, Goto, TypeOK
  <2>3. InStep'
    BY <1>8, <1>t DEF InStep, Inv, Restart, Goto, TypeOK
  <2> QED
    BY <1>8, <2>1, <2>2, <2>3, <1>c, <1>f DEF Inv, Restart
<1>9. CASE Tick
  <2>0. Changing' = Changing
    BY <1>9 DEF Tick, Changing, Labelling
  <2>1. Cardinality(Changing) \in 0 .. MaxLabels /\ Cardinality(Changing) <= labels
    BY <1>t, Finiteness, RateAssumption DEF Inv, LabelsCounted, TypeOK
  <2>2. labels' \in 0 .. MaxLabels /\ LabelsCounted'
    <3>1. labels' = IF Resets("core") THEN Cardinality(Changing) ELSE labels
      BY <1>9 DEF Tick, Changing
    <3> QED
      BY <1>t, <2>0, <2>1, <3>1 DEF TypeOK, LabelsCounted
  <2>3. answer' \in [Runner -> Answer]
    <3>1. ASSUME NEW r \in Runner
          PROVE  [answer[r] EXCEPT !.until = IF pc[r] = "answered" /\ @ > -1
                                               THEN @ - 1 ELSE @] \in Answer
      <4>1. answer[r] \in Answer
        BY <1>t DEF TypeOK
      <4> QED
        BY <4>1, RateAssumption DEF Answer
    <3> QED
      BY <1>9, <3>1 DEF Tick
  <2>4. TypeOK'
    BY <1>9, <1>t, <2>2, <2>3, RateAssumption DEF Tick, TypeOK, Resets
  <2>5. InStep'
    <3> SUFFICES ASSUME NEW r \in Runner
                 PROVE  /\ pc[r] = "answered" /\ answer'[r].until > 0
                             => answer'[r].until = left'[Checks(op[r])]
                        /\ pc[r] = "asleep" /\ sleep'[r] > 0
                             => sleep'[r] = left'[Checks(op[r])]
      BY <1>9 DEF InStep, Tick
    <3>1. Checks(op[r]) \in Resource
      BY DEF Checks, Resource
    <3>2. answer[r].until \in Int /\ sleep[r] \in Nat /\ left[Checks(op[r])] \in Nat
      BY <1>t, <3>1 DEF TypeOK, Answer
    <3>3. left'[Checks(op[r])] = IF left[Checks(op[r])] = 1 THEN Window
                                   ELSE left[Checks(op[r])] - 1
      BY <1>9, <3>1 DEF Tick, Resets
    <3>4. sleep'[r] = IF sleep[r] > 0 THEN sleep[r] - 1 ELSE 0
      BY <1>9 DEF Tick
    <3>5. pc[r] = "answered" /\ answer[r].until > -1 => answer'[r].until = answer[r].until - 1
      BY <1>9, <1>t DEF Tick, TypeOK, Answer
    <3>6. answer[r].until <= -1 => answer'[r].until = answer[r].until
      BY <1>9, <1>t DEF Tick, TypeOK, Answer
    <3> QED
      BY <3>2, <3>3, <3>4, <3>5, <3>6 DEF InStep, Inv
  <2> QED
    BY <1>9, <2>2, <2>4, <2>5, <1>f DEF Inv, Tick
<1>10. CASE UNCHANGED vars
  BY <1>10 DEF vars, Inv, TypeOK, LabelsCounted, Changing, Labelling, CallsFit, InStep
<1> QED
  BY <1>1, <1>2, <1>3, <1>4, <1>5, <1>6, <1>7, <1>8, <1>9, <1>10
     DEF Next, Step, WaitRaises, Return

-----------------------------------------------------------------------------
(* The budget.                                                             *)

\* However many runners have looked, their tokens number two each, and three for a
\* change of a label.
LEMMA FewTokens ==
    Inv => \A q \in Resource : Cardinality(Tokens(q)) <= 2 * Cardinality(Runner) + Slack(q)
<1> SUFFICES ASSUME Inv, NEW q \in Resource
             PROVE  Cardinality(Tokens(q)) <= 2 * Cardinality(Runner) + Slack(q)
  OBVIOUS
<1> DEFINE Plain == Runner \X (1 .. 2)
<1> DEFINE Extra == Changing \X {3}
<1>t. TypeOK
  BY DEF Inv
<1>0. 1 \in Int /\ 2 \in Int
  OBVIOUS
<1>1. IsFiniteSet(1 .. 2) /\ Cardinality(1 .. 2) = 2
  <2>1. IsFiniteSet(1 .. 2) /\ Cardinality(1 .. 2) = IF 1 > 2 THEN 0 ELSE 2 - 1 + 1
    BY <1>0, FS_Interval, Zenon
  <2> QED
    BY <2>1
<1>2. IsFiniteSet(Plain) /\ Cardinality(Plain) = Cardinality(Runner) * 2
  BY <1>1, RateAssumption, FS_Product
<1>3. IsFiniteSet({3}) /\ Cardinality({3}) = 1
  BY FS_Singleton
<1>4. IsFiniteSet(Extra) /\ Cardinality(Extra) = Cardinality(Changing) * 1
  BY <1>3, Finiteness, FS_Product
<1>5. CASE q = "core"
  <2>1. Tokens(q) \subseteq Plain \cup Extra
    <3> SUFFICES ASSUME NEW k \in Tokens(q), k \notin Plain PROVE k \in Extra
      OBVIOUS
    <3>1. k \in Runner \X (1 .. 3) /\ k[2] <= calls[k[1]] /\ (Labelling(k[1]) \/ Looked(k[1]))
      BY DEF Tokens
    <3>2. k[1] \in Runner /\ k[2] = 3 /\ k = <<k[1], 3>>
      BY <3>1
    <3>3. calls[k[1]] \in 0 .. 3 /\ op[k[1]] \in Operation /\ calls[k[1]] <= Calls(op[k[1]])
      BY <3>2, <1>t DEF TypeOK, Inv, CallsFit
    <3>4. op[k[1]] = "label"
      BY <3>1, <3>2, <3>3 DEF Calls, Operation
    <3>5. k[1] \in Changing
      BY <3>1, <3>2, <3>4 DEF Changing, Labelling, Looked
    <3> QED
      BY <3>2, <3>5
  <2>2. IsFiniteSet(Plain \cup Extra)
    BY <1>2, <1>4, FS_Union
  <2>3. Cardinality(Plain \cup Extra) =
          Cardinality(Plain) + Cardinality(Extra) - Cardinality(Plain \cap Extra)
    BY <1>2, <1>4, FS_Union
  <2>4. Cardinality(Plain \cap Extra) \in Nat
    BY <1>2, FS_Intersection, FS_CardinalityType
  <2>5. Cardinality(Tokens(q)) <= Cardinality(Plain \cup Extra)
    BY <2>1, <2>2, FS_Subset
  <2>6. Cardinality(Tokens(q)) <= 2 * Cardinality(Runner) + Cardinality(Changing)
    <3> HIDE DEF Plain, Extra
    <3> QED
      BY <1>2, <1>4, <2>3, <2>4, <2>5, Finiteness
  <2> QED
    BY <2>6, <1>5, <1>t, Finiteness DEF Slack, Inv, LabelsCounted, TypeOK
<1>6. CASE q # "core"
  <2>1. Tokens(q) \subseteq Plain
    <3> SUFFICES ASSUME NEW k \in Tokens(q) PROVE k \in Plain
      OBVIOUS
    <3>1. k \in Runner \X (1 .. 3) /\ k[2] <= calls[k[1]] /\ Uses(op[k[1]]) = q
      BY DEF Tokens
    <3>2. k[1] \in Runner /\ k[2] \in 1 .. 3 /\ k = <<k[1], k[2]>>
      BY <3>1
    <3>3. calls[k[1]] \in 0 .. 3 /\ calls[k[1]] <= Calls(op[k[1]])
      BY <3>2, <1>t DEF TypeOK, Inv, CallsFit
    <3>4. Calls(op[k[1]]) = 1
      BY <3>1, <1>6 DEF Uses, Calls, Resource
    <3>5. k[2] = 1
      BY <3>1, <3>2, <3>3, <3>4
    <3> QED
      BY <3>2, <3>5
  <2>2. Cardinality(Tokens(q)) <= Cardinality(Plain)
    BY <2>1, <1>2, FS_Subset
  <2> QED
    BY <2>2, <1>2, <1>6, Finiteness DEF Slack
<1> QED
  BY <1>5, <1>6

\* Who has just looked, and who lives in a new window, is within the budget.
Ample == \A q \in Resource : remaining[q] >= EphemeralLimit => WithinBudget(q)

LEMMA AmpleQuota == Inv => Ample
<1> SUFFICES ASSUME Inv, NEW q \in Resource, remaining[q] >= EphemeralLimit
             PROVE  WithinBudget(q)
  BY DEF Ample
<1>1. Cardinality(Tokens(q)) <= 2 * Cardinality(Runner) + Slack(q)
  BY FewTokens
<1>2. remaining[q] \in Nat /\ Slack(q) \in Nat
  BY RateAssumption DEF Inv, TypeOK, Slack
<1> QED
  BY <1>1, <1>2, Finiteness, RateAssumption DEF WithinBudget

\* A resource of which nothing was called and no new token came stays within.
LEMMA FewerTokens ==
    ASSUME NEW q \in Resource, Inv, WithinBudget(q), Tokens(q)' \subseteq Tokens(q),
           remaining'[q] = remaining[q], Slack(q)' = Slack(q)
    PROVE  WithinBudget(q)'
<1>1. Cardinality(Tokens(q)') <= Cardinality(Tokens(q)) /\ Cardinality(Tokens(q)') \in Nat
  BY Finiteness, FS_Subset, FS_CardinalityType
<1>2. remaining[q] \in Nat /\ Slack(q) \in Nat
  BY RateAssumption DEF Inv, TypeOK, Slack
<1> QED
  BY <1>1, <1>2, Finiteness, RateAssumption DEF WithinBudget

\* An operation that ends leaves no token.
LEMMA EndTokens ==
    ASSUME Inv, NEW q \in Resource, NEW r \in Runner, NEW p \in {"free", "down"}, End(r, p)
    PROVE  Tokens(q)' \subseteq Tokens(q)
  BY DEF Tokens, End, Goto, Inv, TypeOK, Labelling, Looked, Available

\* An element more.
LEMMA OneMore ==
    ASSUME NEW S, IsFiniteSet(S), NEW e
    PROVE  /\ IsFiniteSet(S \cup {e}) /\ Cardinality(S \cup {e}) \in Nat
           /\ Cardinality(S \cup {e}) <= Cardinality(S) + 1
<1>1. /\ IsFiniteSet(S \cup {e})
      /\ Cardinality(S \cup {e}) = IF e \in S THEN Cardinality(S) ELSE Cardinality(S) + 1
  BY FS_AddElement, Zenon
<1>2. Cardinality(S) \in Nat
  BY FS_CardinalityType
<1> QED
  BY <1>1, <1>2

\* The budget is kept by every step.
LEMMA BudgetStep == Reserve /\ Inv /\ Inv' /\ Budget /\ [Next]_vars => Budget'
<1> SUFFICES ASSUME Reserve, Inv, Inv', Budget, [Next]_vars, NEW q \in Resource
             PROVE  WithinBudget(q)'
  BY DEF Budget
<1> USE DEF quota, runners
<1>t. TypeOK
  BY DEF Inv
<1>w. WithinBudget(q)
  BY DEF Budget
<1>a. Ample'
  BY AmpleQuota, PTL
<1>s. ASSUME Tokens(q)' \subseteq Tokens(q), remaining' = remaining, labels' = labels
      PROVE  WithinBudget(q)'
  BY <1>s, <1>w, FewerTokens DEF Slack
<1>1. ASSUME NEW r \in Runner, NEW o \in Operation, Begin(r, o) PROVE WithinBudget(q)'
  <2>1. CASE o = "label" /\ q = "core"
    <3> DEFINE T1 == Tokens(q) \cup {<<r, 1>>}
    <3> DEFINE T2 == T1 \cup {<<r, 2>>}
    <3> DEFINE T3 == T2 \cup {<<r, 3>>}
    <3>1. Tokens(q)' \subseteq T3
      <4> SUFFICES ASSUME NEW k \in Tokens(q)' PROVE k \in T3
        OBVIOUS
      <4>1. /\ k \in Runner \X (1 .. 3) /\ Uses(op'[k[1]]) = q /\ k[2] <= calls'[k[1]]
            /\ (Labelling(k[1])' \/ Looked(k[1])')
        BY DEF Tokens
      <4>2. k[1] \in Runner /\ k = <<k[1], k[2]>> /\ k[2] \in {1, 2, 3}
        BY <4>1
      <4>3. CASE k[1] = r
        BY <4>2, <4>3
      <4>4. CASE k[1] # r
        <5>1. k \in Tokens(q)
          BY <1>1, <1>t, <4>1, <4>2, <4>4
             DEF Tokens, Begin, Goto, TypeOK, Labelling, Looked, Available
        <5> QED
          BY <5>1
      <4> QED
        BY <4>3, <4>4
    <3>2. /\ IsFiniteSet(T1) /\ Cardinality(T1) \in Nat
          /\ Cardinality(T1) <= Cardinality(Tokens(q)) + 1
      BY Finiteness, OneMore
    <3>3. /\ IsFiniteSet(T2) /\ Cardinality(T2) \in Nat
          /\ Cardinality(T2) <= Cardinality(T1) + 1
      <4> HIDE DEF T1
      <4> QED
        BY <3>2, OneMore
    <3>4. /\ IsFiniteSet(T3) /\ Cardinality(T3) \in Nat
          /\ Cardinality(T3) <= Cardinality(T2) + 1
      <4> HIDE DEF T2
      <4> QED
        BY <3>3, OneMore
    <3> HIDE DEF T1, T2, T3
    <3>5. Cardinality(Tokens(q)') <= Cardinality(T3) /\ Cardinality(Tokens(q)') \in Nat
      BY <3>1, <3>4, FS_Subset, FS_CardinalityType
    <3>6. remaining' = remaining /\ labels' = labels + 1
      BY <1>1, <2>1 DEF Begin
    <3>7. Slack(q)' = Slack(q) + 3 /\ Slack(q) \in Nat /\ remaining[q] \in Nat
      BY <1>t, <2>1, <3>6, RateAssumption DEF Slack, TypeOK
    <3> QED
      BY <3>2, <3>3, <3>4, <3>5, <3>6, <3>7, <1>w, Finiteness, RateAssumption DEF WithinBudget
  <2>2. CASE ~(o = "label" /\ q = "core")
    <3>1. Tokens(q)' \subseteq Tokens(q)
      BY <1>1, <1>t, <2>2
         DEF Tokens, Begin, Goto, TypeOK, Labelling, Looked, Available, Uses, Resource, Operation
    <3>2. remaining' = remaining /\ Slack(q)' = Slack(q)
      BY <1>1, <2>2 DEF Begin, Slack
    <3> QED
      BY <3>1, <3>2, <1>w, FewerTokens
  <2> QED
    BY <2>1, <2>2
<1>2. ASSUME NEW r \in Runner, GetRateLimit(r) PROVE WithinBudget(q)'
  <2>0. remaining' = remaining /\ labels' = labels
    BY <1>2 DEF GetRateLimit
  <2>1. CASE remaining[q] >= EphemeralLimit
    BY <1>a, <2>0, <2>1 DEF Ample
  <2>2. CASE ~(remaining[q] >= EphemeralLimit)
    <3>1. answer'[r].remaining = remaining[Checks(op[r])]
      BY <1>2, <1>t DEF GetRateLimit, TypeOK
    <3>2. op[r] # "label" => Checks(op[r]) = Uses(op[r])
      BY <1>t DEF Checks, Uses, TypeOK, Operation
    <3>3. Tokens(q)' \subseteq Tokens(q)
      BY <1>2, <1>t, <2>2, <3>1, <3>2
         DEF Tokens, GetRateLimit, Goto, TypeOK, Labelling, Looked, Available
    <3> QED
      BY <3>3, <2>0, <1>s
  <2> QED
    BY <2>1, <2>2
<1>3. ASSUME NEW r \in Runner, GetRateLimitFails(r) PROVE WithinBudget(q)'
  <2>0. remaining' = remaining /\ labels' = labels
    BY <1>3 DEF GetRateLimitFails
  <2>1. CASE End(r, "down")
    BY <2>0, <2>1, <1>s, EndTokens
  <2>2. CASE UNCHANGED <<pc, op, answer, calls>> /\ sleep' = [sleep EXCEPT ![r] = ApiCheckSleep]
    <3>1. Tokens(q)' \subseteq Tokens(q)
      BY <1>3, <1>t, <2>2
         DEF Tokens, GetRateLimitFails, TypeOK, Labelling, Looked, Available
    <3> QED
      BY <2>0, <3>1, <1>s
  <2> QED
    BY <1>3, <2>1, <2>2 DEF GetRateLimitFails
<1>4. ASSUME NEW r \in Runner, Wait(r) PROVE WithinBudget(q)'
  <2>1. Tokens(q)' \subseteq Tokens(q)
    BY <1>4, <1>t DEF Tokens, Wait, Goto, TypeOK, Labelling, Looked, Available
  <2> QED
    BY <1>4, <2>1, <1>s DEF Wait
<1>5. ASSUME NEW r \in Runner, NEW p \in {"free", "down"}, End(r, p), UNCHANGED quota
      PROVE  WithinBudget(q)'
  BY <1>5, <1>s, EndTokens
<1>6. ASSUME NEW r \in Runner, Wake(r) PROVE WithinBudget(q)'
  <2>1. Tokens(q)' \subseteq Tokens(q)
    BY <1>6, <1>t DEF Tokens, Wake, Goto, TypeOK, Labelling, Looked, Available
  <2> QED
    BY <1>6, <2>1, <1>s DEF Wake
<1>7. ASSUME NEW r \in Runner, Call(r) PROVE WithinBudget(q)'
  <2> DEFINE u == Uses(op[r])
  <2>0. u \in Resource /\ labels' = labels
    BY <1>7 DEF Call, Uses, Resource
  <2>1. CASE remaining[u] > 0 /\ q = u
    <3> DEFINE k == <<r, calls[r]>>
    <3>1. k \in Tokens(q)
      BY <1>7, <1>t, <2>1 DEF Tokens, Call, Looked, TypeOK
    <3>2. Tokens(q)' \subseteq Tokens(q) \ {k}
      BY <1>7, <1>t, <2>1 DEF Tokens, Call, TypeOK, Labelling, Looked, Available
    <3> HIDE DEF k
    <3>3. /\ IsFiniteSet(Tokens(q) \ {k})
          /\ Cardinality(Tokens(q) \ {k}) = Cardinality(Tokens(q)) - 1
      BY <3>1, Finiteness, FS_RemoveElement
    <3>4. Cardinality(Tokens(q)') <= Cardinality(Tokens(q)) - 1 /\ Cardinality(Tokens(q)') \in Nat
      BY <3>2, <3>3, FS_Subset, FS_CardinalityType
    <3>5. remaining'[q] = remaining[q] - 1 /\ remaining[q] \in Nat
      BY <1>7, <1>t, <2>0, <2>1, RateAssumption DEF Call, TypeOK
    <3>6. Slack(q)' = Slack(q) /\ Slack(q) \in Nat
      BY <1>t, <2>0, RateAssumption DEF Slack, TypeOK
    <3> QED
      BY <3>4, <3>5, <3>6, <1>w, Finiteness, RateAssumption DEF WithinBudget
  <2>2. CASE remaining[u] > 0 /\ q # u
    <3>1. remaining'[q] = remaining[q] /\ Slack(q)' = Slack(q)
      BY <1>7, <1>t, <2>0, <2>2 DEF Call, TypeOK, Slack
    <3>2. Tokens(q)' \subseteq Tokens(q)
      BY <1>7, <1>t, <2>2 DEF Tokens, Call, TypeOK, Labelling, Looked, Available
    <3> QED
      BY <3>1, <3>2, <1>w, FewerTokens
  <2>3. CASE ~(remaining[u] > 0)
    <3>1. (\E p \in {"free", "down"} : End(r, p)) /\ remaining' = remaining
      BY <1>7, <2>3 DEF Call
    <3> QED
      BY <3>1, <2>0, <1>s, EndTokens
  <2> QED
    BY <2>1, <2>2, <2>3
<1>8. ASSUME NEW r \in Runner, Restart(r) PROVE WithinBudget(q)'
  <2>1. Tokens(q)' \subseteq Tokens(q)
    BY <1>8, <1>t DEF Tokens, Restart, Goto, TypeOK, Labelling, Looked, Available
  <2> QED
    BY <1>8, <2>1, <1>s DEF Restart
<1>9. CASE Tick
  <2>1. CASE Resets(q)
    <3>1. remaining'[q] = Quota
      BY <1>9, <2>1 DEF Tick
    <3> QED
      BY <1>a, <3>1 DEF Ample, Reserve
  <2>2. CASE ~Resets(q)
    <3>1. remaining'[q] = remaining[q] /\ Slack(q)' = Slack(q)
      BY <1>9, <2>2 DEF Tick, Slack
    <3>2. Tokens(q)' \subseteq Tokens(q)
      <4> SUFFICES ASSUME NEW k \in Tokens(q)' PROVE k \in Tokens(q)
        OBVIOUS
      <4>1. /\ k \in Runner \X (1 .. 3) /\ Uses(op[k[1]]) = q /\ k[2] <= calls[k[1]]
            /\ (Labelling(k[1]) \/ Looked(k[1])')
        BY <1>9 DEF Tokens, Tick, Labelling
      <4> DEFINE r == k[1]
      <4>2. r \in Runner
        BY <4>1
      <4>3. SUFFICES ASSUME ~Labelling(r), Looked(r)' PROVE Looked(r)
        BY <4>1, <4>2 DEF Tokens
      <4>4. CASE pc[r] = "answered"
        <5>1. answer'[r].remaining = answer[r].remaining
          BY <1>9, <1>t, <4>2 DEF Tick, TypeOK, Answer
        <5> QED
          BY <1>9, <4>3, <4>4, <5>1 DEF Tick, Looked, Available
      <4>5. CASE pc[r] = "asleep"
        <5>1. Checks(op[r]) = q
          BY <1>t, <4>1, <4>2, <4>3, <4>5 DEF Labelling, Checks, Uses, TypeOK, Operation
        <5>2. sleep[r] \in Nat /\ (sleep[r] = 0 \/ sleep[r] = 1)
          BY <1>9, <1>t, <4>2, <4>3, <4>5 DEF Tick, Looked, TypeOK
        <5>3. sleep[r] # 1
          BY <2>2, <4>2, <4>5, <5>1 DEF Inv, InStep, Resets
        <5> QED
          BY <4>5, <5>2, <5>3 DEF Looked
      <4> QED
        BY <1>9, <4>3, <4>4, <4>5 DEF Tick, Looked
    <3> QED
      BY <3>1, <3>2, <1>w, FewerTokens
  <2> QED
    BY <2>1, <2>2
<1>10. CASE UNCHANGED vars
  BY <1>10, <1>s DEF vars, Tokens, Labelling, Looked, Available
<1> QED
  BY <1>1, <1>2, <1>3, <1>4, <1>5, <1>6, <1>7, <1>8, <1>9, <1>10
     DEF Next, Step, WaitRaises, Return

-----------------------------------------------------------------------------
\* The typing and the counts hold in every state of the specification.
LEMMA Invariance == Spec => []Inv
<1> QED
  BY InitInv, StepInv, PTL DEF Spec

\* The variables keep their types, however many runners there are.
THEOREM TypeCorrect == Spec => []TypeOK
<1>1. Inv => TypeOK
  BY DEF Inv
<1> QED
  BY <1>1, Invariance, PTL

\* A runner never sleeps past the reset it waits for (RateLimit.wait).
THEOREM SleepsEnd == Spec => []SleepEndsWithWindow
<1>1. Inv => SleepEndsWithWindow
  <2> SUFFICES ASSUME Inv, NEW r \in Runner, pc[r] = "asleep"
               PROVE  sleep[r] <= left[Checks(op[r])]
    BY DEF SleepEndsWithWindow
  <2>1. Checks(op[r]) \in Resource
    BY DEF Checks, Resource
  <2>2. sleep[r] \in Nat /\ left[Checks(op[r])] \in Nat
    BY <2>1 DEF Inv, TypeOK
  <2> QED
    BY <2>2 DEF Inv, InStep
<1> QED
  BY <1>1, Invariance, PTL

\* When EPHEMERAL_LIMIT covers two calls of every runner and three of every label
\* change, GitHub refuses no call, whatever the order of looks, sleeps and calls.
THEOREM ReserveSuffices ==
    ASSUME Reserve
    PROVE  Spec => []NeverRefused
<1>1. Init => Budget
  <2> SUFFICES ASSUME Init PROVE Budget
    OBVIOUS
  <2>1. Ample
    BY InitInv, AmpleQuota
  <2> QED
    BY <2>1 DEF Ample, Budget, Init, Reserve
<1>2. Inv /\ Budget => NeverRefused
  <2> SUFFICES ASSUME Inv, Budget, NEW r \in Runner, pc[r] = "call", calls[r] > 0
               PROVE  remaining[Uses(op[r])] > 0
    BY DEF NeverRefused
  <2> DEFINE q == Uses(op[r])
  <2>0. q \in Resource /\ TypeOK
    BY DEF Uses, Resource, Inv
  <2>1. <<r, 1>> \in Tokens(q)
    BY <2>0 DEF Tokens, Looked, TypeOK
  <2>2. Cardinality(Tokens(q)) # 0
    BY <2>1, Finiteness, FS_EmptySet
  <2>3. remaining[q] \in Nat /\ Slack(q) \in Nat /\ Slack(q) <= 3 * MaxLabels
    BY <2>0, RateAssumption DEF TypeOK, Slack
  <2>4. WithinBudget(q)
    BY <2>0 DEF Budget
  <2> HIDE DEF q
  <2> QED
    BY <2>2, <2>3, <2>4, Finiteness, RateAssumption DEF WithinBudget, Reserve, q
<1>3. Inv /\ Inv' /\ Budget /\ [Next]_vars => Budget'
  BY BudgetStep
<1> QED
  BY <1>1, <1>2, <1>3, InitInv, StepInv, PTL DEF Spec
=============================================================================

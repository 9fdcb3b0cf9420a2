-------------------------- MODULE RunnerHostProofs --------------------------
(***************************************************************************)
(* Theorems about RunnerHost: its types, and that the cleaning disturbs no  *)
(* job unless it outlasts the join of the autocleaner, and what it leaves   *)
(* alone even then.                                                         *)
(***************************************************************************)
EXTENDS RunnerHost, FiniteSetTheorems, TLAPS

\* From the moment the service has stopped until the autocleaner starts it,
\* nothing else does.  Boxes are deleted behind the runner's back only then, or
\* after the join, and only those that are listed.
ServiceIsDown ==
    /\ cleaner \in {"journal", "join"} => unit = "inactive"
    /\ sweeping => cleaner = "join" \/ overran
    /\ sweeping => cleaner \notin {"check", "stop", "stopping", "journal"}
    /\ todo \subseteq CiBox

\* What the steps of VagrantBoxDownload have achieved when the job is past them.
BoxIsReady ==
    (overran => box \notin CiBox \ Used)
        => /\ pc \in {"link", "up", "run"} => box \in installed
           /\ pc \in {"up", "run"} => box \in images

\* CleaningAlone and ImageStays are not inductive: this is.
IInv == TypeOK /\ ServiceIsDown /\ BoxIsReady

-----------------------------------------------------------------------------
\* No step leaves the types, nor lets systemd lose sight of the process.
LEMMA StepTypes ==
  ASSUME TypeOK, [Next]_vars
  PROVE  TypeOK'
<1>1. TypeOK
  OBVIOUS
<1>. USE DEF TypeOK, Job, vars, mainVars, diskVars, cleanVars
<1>2. ASSUME Claim PROVE TypeOK'
  BY <1>1, <1>2 DEF Claim
<1>3. ASSUME EndScan PROVE TypeOK'
  BY <1>1, <1>3 DEF EndScan
<1>4. ASSUME Wake PROVE TypeOK'
  BY <1>1, <1>4 DEF Wake, Ended
<1>6. ASSUME Check PROVE TypeOK'
  BY <1>1, <1>6 DEF Check, Step
<1>7. ASSUME DeleteOldestBox PROVE TypeOK'
  BY <1>1, <1>7 DEF DeleteOldestBox, Step, DeleteBox
<1>8. ASSUME BoxAdd PROVE TypeOK'
  BY <1>1, <1>8 DEF BoxAdd, Step
<1>9. ASSUME Link PROVE TypeOK'
  BY <1>1, <1>9 DEF Link, Step
<1>10. ASSUME VagrantUp PROVE TypeOK'
  BY <1>1, <1>10 DEF VagrantUp, Step
<1>11. ASSUME Run PROVE TypeOK'
  BY <1>1, <1>11 DEF Run, Step
<1>12. ASSUME Destroy PROVE TypeOK'
  BY <1>1, <1>12 DEF Destroy, Step
<1>13. ASSUME Upload PROVE TypeOK'
  BY <1>1, <1>13 DEF Upload, Step
<1>14. ASSUME UploadFails PROVE TypeOK'
  BY <1>1, <1>14 DEF UploadFails
<1>15. ASSUME Report PROVE TypeOK'
  BY <1>1, <1>15 DEF Report, Step, Ended
<1>16. ASSUME StopTimesOut PROVE TypeOK'
  BY <1>1, <1>16 DEF StopTimesOut, Ended
<1>17. ASSUME Restart PROVE TypeOK'
  BY <1>1, <1>17 DEF Restart, StartUnit
<1>18. ASSUME Kill PROVE TypeOK'
  BY <1>1, <1>18 DEF Kill, Ended
<1>19. ASSUME Raise PROVE TypeOK'
  <2>1. machines' \in BOOLEAN /\ UNCHANGED <<box, diskVars, cleanVars>>
    BY <1>19 DEF Raise
  <2>2. (leaving' \in BOOLEAN /\ UNCHANGED <<unit, pc, done>>) \/ Ended(TRUE)
    BY <1>19 DEF Raise
  <2>. QED
    BY <1>1, <2>1, <2>2 DEF Ended
<1>20. ASSUME Cron PROVE TypeOK'
  BY <1>1, <1>20 DEF Cron, Clean
<1>21. ASSUME CheckActive PROVE TypeOK'
  BY <1>1, <1>21 DEF CheckActive, Clean
<1>22. ASSUME StopPrci PROVE TypeOK'
  BY <1>1, <1>22 DEF StopPrci, Clean, StopUnit
<1>23. ASSUME Stopped PROVE TypeOK'
  BY <1>1, <1>23 DEF Stopped, Clean
<1>24. ASSUME ClearJournal PROVE TypeOK'
  BY <1>1, <1>24 DEF ClearJournal, Clean, ListBoxes
<1>25. ASSUME Join PROVE TypeOK'
  BY <1>1, <1>25 DEF Join, Clean
<1>26. ASSUME StartPrci PROVE TypeOK'
  BY <1>1, <1>26 DEF StartPrci, Clean, StartUnit
<1>27. ASSUME Sweep PROVE TypeOK'
  BY <1>1, <1>27 DEF Sweep, DeleteBox
<1>28. ASSUME SweepEnds PROVE TypeOK'
  BY <1>1, <1>28 DEF SweepEnds
<1>29. CASE UNCHANGED vars
  BY <1>1, <1>29
<1>. QED
  BY <1>2, <1>3, <1>4, <1>6, <1>7, <1>8, <1>9, <1>10, <1>11, <1>12, <1>13, <1>14, <1>15,
     <1>16, <1>17, <1>18, <1>19, <1>20, <1>21, <1>22, <1>23, <1>24, <1>25, <1>26, <1>27,
     <1>28, <1>29 DEF Next, Main, JobStep, Systemd, Autocleaner, CleaningProcess

\* Type correctness, for any boxes.
THEOREM TypeCorrect == Spec => []TypeOK
<1>1. Init => TypeOK
  BY DEF Init, TypeOK
<1>2. TypeOK /\ [Next]_vars => TypeOK'
  BY StepTypes
<1>. QED
  BY <1>1, <1>2, PTL DEF Spec

-----------------------------------------------------------------------------
\* Only StartPrci activates a unit that the autocleaner has stopped: systemd
\* restarts a unit that has failed, not one that was being stopped.
LEMMA StepService ==
  ASSUME TypeOK, ServiceIsDown, [Next]_vars
  PROVE  ServiceIsDown'
<1>1. TypeOK /\ ServiceIsDown
  OBVIOUS
<1>. USE DEF TypeOK, ServiceIsDown, vars, mainVars, diskVars, cleanVars
<1>2. ASSUME Claim PROVE ServiceIsDown'
  BY <1>1, <1>2 DEF Claim
<1>3. ASSUME EndScan PROVE ServiceIsDown'
  BY <1>1, <1>3 DEF EndScan
<1>4. ASSUME Wake PROVE ServiceIsDown'
  BY <1>1, <1>4 DEF Wake, Ended
<1>6. ASSUME Check PROVE ServiceIsDown'
  BY <1>1, <1>6 DEF Check, Step
<1>7. ASSUME DeleteOldestBox PROVE ServiceIsDown'
  BY <1>1, <1>7 DEF DeleteOldestBox, Step, DeleteBox
<1>8. ASSUME BoxAdd PROVE ServiceIsDown'
  BY <1>1, <1>8 DEF BoxAdd, Step
<1>9. ASSUME Link PROVE ServiceIsDown'
  BY <1>1, <1>9 DEF Link, Step
<1>10. ASSUME VagrantUp PROVE ServiceIsDown'
  <2>1. UNCHANGED <<unit, cleaner, sweeping, todo, overran>>
    BY <1>10 DEF VagrantUp, Step
  <2>. QED
    BY <1>1, <2>1
<1>11. ASSUME Run PROVE ServiceIsDown'
  BY <1>1, <1>11 DEF Run, Step
<1>12. ASSUME Destroy PROVE ServiceIsDown'
  BY <1>1, <1>12 DEF Destroy, Step
<1>13. ASSUME Upload PROVE ServiceIsDown'
  BY <1>1, <1>13 DEF Upload, Step
<1>14. ASSUME UploadFails PROVE ServiceIsDown'
  BY <1>1, <1>14 DEF UploadFails
<1>15. ASSUME Report PROVE ServiceIsDown'
  BY <1>1, <1>15 DEF Report, Step, Ended
<1>16. ASSUME StopTimesOut PROVE ServiceIsDown'
  BY <1>1, <1>16 DEF StopTimesOut, Ended
<1>17. ASSUME Restart PROVE ServiceIsDown'
  BY <1>1, <1>17 DEF Restart, StartUnit
<1>18. ASSUME Kill PROVE ServiceIsDown'
  BY <1>1, <1>18 DEF Kill, Ended
<1>19. ASSUME Raise PROVE ServiceIsDown'
  BY <1>1, <1>19 DEF Raise, Ended
<1>20. ASSUME Cron PROVE ServiceIsDown'
  BY <1>1, <1>20 DEF Cron, Clean
<1>21. ASSUME CheckActive PROVE ServiceIsDown'
  BY <1>1, <1>21 DEF CheckActive, Clean
<1>22. ASSUME StopPrci PROVE ServiceIsDown'
  BY <1>1, <1>22 DEF StopPrci, Clean, StopUnit
<1>23. ASSUME Stopped PROVE ServiceIsDown'
  BY <1>1, <1>23 DEF Stopped, Clean
<1>24. ASSUME ClearJournal PROVE ServiceIsDown'
  BY <1>1, <1>24 DEF ClearJournal, Clean, ListBoxes
<1>25. ASSUME Join PROVE ServiceIsDown'
  BY <1>1, <1>25 DEF Join, Clean
<1>26. ASSUME StartPrci PROVE ServiceIsDown'
  BY <1>1, <1>26 DEF StartPrci, Clean, StartUnit
<1>27. ASSUME Sweep PROVE ServiceIsDown'
  BY <1>1, <1>27 DEF Sweep, DeleteBox
<1>28. ASSUME SweepEnds PROVE ServiceIsDown'
  BY <1>1, <1>28 DEF SweepEnds
<1>29. CASE UNCHANGED vars
  BY <1>1, <1>29
<1>. QED
  BY <1>2, <1>3, <1>4, <1>6, <1>7, <1>8, <1>9, <1>10, <1>11, <1>12, <1>13, <1>14, <1>15,
     <1>16, <1>17, <1>18, <1>19, <1>20, <1>21, <1>22, <1>23, <1>24, <1>25, <1>26, <1>27,
     <1>28, <1>29 DEF Next, Main, JobStep, Systemd, Autocleaner, CleaningProcess

\* The box of a job is deleted neither by the job, which makes room before it adds
\* its own, nor by the cleaning process, which runs while prci is down.
LEMMA StepBox ==
  ASSUME TypeOK, ServiceIsDown, BoxIsReady, [Next]_vars
  PROVE  BoxIsReady'
<1>1. TypeOK /\ ServiceIsDown /\ BoxIsReady
  OBVIOUS
<1>. USE DEF TypeOK, ServiceIsDown, BoxIsReady, vars, mainVars, diskVars, cleanVars
<1>2. ASSUME Claim PROVE BoxIsReady'
  BY <1>1, <1>2 DEF Claim
<1>3. ASSUME EndScan PROVE BoxIsReady'
  BY <1>1, <1>3 DEF EndScan
<1>4. ASSUME Wake PROVE BoxIsReady'
  BY <1>1, <1>4 DEF Wake, Ended
<1>6. ASSUME Check PROVE BoxIsReady'
  BY <1>1, <1>6 DEF Check, Step
<1>7. ASSUME DeleteOldestBox PROVE BoxIsReady'
  BY <1>1, <1>7 DEF DeleteOldestBox, Step, DeleteBox
<1>8. ASSUME BoxAdd PROVE BoxIsReady'
  BY <1>1, <1>8 DEF BoxAdd, Step
<1>9. ASSUME Link PROVE BoxIsReady'
  BY <1>1, <1>9 DEF Link, Step
<1>10. ASSUME VagrantUp PROVE BoxIsReady'
  BY <1>1, <1>10 DEF VagrantUp, Step
<1>11. ASSUME Run PROVE BoxIsReady'
  BY <1>1, <1>11 DEF Run, Step
<1>12. ASSUME Destroy PROVE BoxIsReady'
  BY <1>1, <1>12 DEF Destroy, Step
<1>13. ASSUME Upload PROVE BoxIsReady'
  BY <1>1, <1>13 DEF Upload, Step
<1>14. ASSUME UploadFails PROVE BoxIsReady'
  BY <1>1, <1>14 DEF UploadFails
<1>15. ASSUME Report PROVE BoxIsReady'
  BY <1>1, <1>15 DEF Report, Step, Ended
<1>16. ASSUME StopTimesOut PROVE BoxIsReady'
  BY <1>1, <1>16 DEF StopTimesOut, Ended
<1>17. ASSUME Restart PROVE BoxIsReady'
  BY <1>1, <1>17 DEF Restart, StartUnit
<1>18. ASSUME Kill PROVE BoxIsReady'
  BY <1>1, <1>18 DEF Kill, Ended
<1>19. ASSUME Raise PROVE BoxIsReady'
  BY <1>1, <1>19 DEF Raise, Ended
<1>20. ASSUME Cron PROVE BoxIsReady'
  BY <1>1, <1>20 DEF Cron, Clean
<1>21. ASSUME CheckActive PROVE BoxIsReady'
  BY <1>1, <1>21 DEF CheckActive, Clean
<1>22. ASSUME StopPrci PROVE BoxIsReady'
  BY <1>1, <1>22 DEF StopPrci, Clean, StopUnit
<1>23. ASSUME Stopped PROVE BoxIsReady'
  BY <1>1, <1>23 DEF Stopped, Clean
<1>24. ASSUME ClearJournal PROVE BoxIsReady'
  BY <1>1, <1>24 DEF ClearJournal, Clean, ListBoxes
<1>25. ASSUME Join PROVE BoxIsReady'
  BY <1>1, <1>25 DEF Join, Clean
<1>26. ASSUME StartPrci PROVE BoxIsReady'
  BY <1>1, <1>26 DEF StartPrci, Clean, StartUnit
<1>27. ASSUME Sweep PROVE BoxIsReady'
  <2>1. PICK b \in todo : IF IsBoxUsed(b) THEN UNCHANGED diskVars ELSE DeleteBox(b)
    BY <1>27 DEF Sweep
  <2>2. UNCHANGED <<mainVars, overran>>
    BY <1>27 DEF Sweep
  <2>3. CASE pc = "down"
    BY <2>2, <2>3
  <2>4. CASE overran /\ box \notin CiBox \ Used
    <3>1. UNCHANGED diskVars \/ (b \notin Used /\ DeleteBox(b))
      BY <2>1 DEF IsBoxUsed
    <3>2. b \in CiBox
      BY <1>1, <2>1
    <3>. QED
      BY <1>1, <2>2, <2>4, <3>1, <3>2 DEF DeleteBox
  <2>. QED
    BY <1>1, <1>27, <2>2, <2>3, <2>4 DEF Sweep
<1>28. ASSUME SweepEnds PROVE BoxIsReady'
  BY <1>1, <1>28 DEF SweepEnds
<1>29. CASE UNCHANGED vars
  BY <1>1, <1>29
<1>. QED
  BY <1>2, <1>3, <1>4, <1>6, <1>7, <1>8, <1>9, <1>10, <1>11, <1>12, <1>13, <1>14, <1>15,
     <1>16, <1>17, <1>18, <1>19, <1>20, <1>21, <1>22, <1>23, <1>24, <1>25, <1>26, <1>27,
     <1>28, <1>29 DEF Next, Main, JobStep, Systemd, Autocleaner, CleaningProcess

\* The inductive invariant.
THEOREM InductiveInvariant == Spec => []IInv
<1>1. Init => IInv
  BY DEF Init, IInv, TypeOK, ServiceIsDown, BoxIsReady
<1>2. IInv /\ [Next]_vars => IInv'
  BY StepTypes, StepService, StepBox DEF IInv
<1>. QED
  BY <1>1, <1>2, PTL DEF Spec

\* Boxes are deleted by the autocleaner only while prci is down.
THEOREM CleaningDisturbsNone == Spec => []CleaningAlone
<1>1. IInv => CleaningAlone
  BY DEF IInv, TypeOK, ServiceIsDown, CleaningAlone
<1>. QED
  BY <1>1, InductiveInvariant, PTL

\* The machines of a job keep their box and its image.
THEOREM ImagesStay == Spec => []ImageStays
<1>1. IInv => ImageStays
  BY DEF IInv, BoxIsReady, ImageStays
<1>. QED
  BY <1>1, InductiveInvariant, PTL

-----------------------------------------------------------------------------
\* A job leaves the deletion of old boxes by deleting some or by none.
LEMMA OnlyTheJobDeletes ==
  ASSUME TypeOK, [Next]_vars, pc = "evict", pc' # "evict", installed' # installed
  PROVE  DeleteOldestBox
<1>1. ~BoxAdd /\ ~CleaningProcess
  BY DEF BoxAdd, Step, CleaningProcess, Sweep, SweepEnds, mainVars
<1>2. ~Main /\ ~Systemd /\ ~Kill /\ ~Raise
  BY DEF Main, Claim, EndScan, Wake, Systemd, StopTimesOut, Restart, Kill, Raise, diskVars
<1>3. ~Cron /\ ~CheckActive /\ ~Autocleaner
  BY DEF Cron, CheckActive, Autocleaner, StopPrci, Stopped, ClearJournal, Join, StartPrci,
     diskVars
<1>4. ~Check /\ ~Link /\ ~VagrantUp /\ ~Run
  BY DEF Check, Link, VagrantUp, Run, Step, diskVars
<1>5. ~Destroy /\ ~Upload /\ ~UploadFails /\ ~Report
  BY DEF Destroy, Upload, UploadFails, Report, Step, diskVars
<1>6. vars' # vars
  BY DEF vars, diskVars
<1>. QED
  BY <1>1, <1>2, <1>3, <1>4, <1>5, <1>6 DEF Next, JobStep

\* What DeleteOldestBox deletes is one box, of more than two, and none of Windows.
LEMMA RoomForOne ==
  ASSUME TypeOK, DeleteOldestBox, installed' # installed
  PROVE  /\ (installed \ installed') \cap Windows = {}
         /\ Cardinality(installed') >= 2
<1>1. PICK first \in installed \ Windows : installed' = installed \ {first}
  BY DEF DeleteOldestBox, DeleteBox, diskVars
<1>2. Cardinality(installed) > 2
  BY DEF DeleteOldestBox, diskVars
<1>3. IsFiniteSet(installed)
  BY FS_Subset, HostAssumption DEF TypeOK
<1>4. /\ Cardinality(installed') = Cardinality(installed) - 1
      /\ Cardinality(installed) \in Nat
  BY <1>1, <1>3, FS_RemoveElement, FS_CardinalityType
<1>5. Cardinality(installed') >= 2
  BY <1>2, <1>4
<1>. QED
  BY <1>1, <1>5

\* Jobs make room with care, for any number of boxes.
THEOREM RoomMadeWithCare == Spec => RoomIsMadeWithCare
<1>1. IInv /\ [Next]_vars =>
        [pc = "evict" /\ pc' # "evict" /\ installed' # installed =>
           /\ (installed \ installed') \cap Windows = {}
           /\ Cardinality(installed') >= 2]_vars
  BY OnlyTheJobDeletes, RoomForOne DEF IInv
<1>. QED
  BY <1>1, InductiveInvariant, PTL DEF Spec, RoomIsMadeWithCare
=============================================================================

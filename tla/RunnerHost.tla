----------------------------- MODULE RunnerHost -----------------------------
(***************************************************************************)
(* The host of one runner: systemd's unit prci, the process prci.main with *)
(* its ExitHandler, the Vagrant boxes and libvirt images on its disk, and  *)
(* the autocleaner that cron starts.                                       *)
(*                                                                         *)
(* A job is the sequence of its steps that touch the host: it makes room   *)
(* for its box, downloads and links it, has machines, destroys them, and   *)
(* publishes its logs.  JobRun has the steps in detail, TaskClaim what the *)
(* runner does before and after.                                           *)
(*                                                                         *)
(* machines is what is_qemu_running sees.  The machines are children of    *)
(* libvirtd, not of the unit: they survive the end of prci.                *)
(***************************************************************************)
EXTENDS FiniteSets, Naturals

CONSTANTS
    Box,        \* names and versions of boxes
    Windows,    \* those with windows in their name
    CiBox,      \* those of the autocleaner: CI_PREFIX_ID
    Used        \* those that a definition names on the branch they belong to

ASSUME HostAssumption ==
    /\ IsFiniteSet(Box) /\ Box # {}
    /\ Windows \subseteq Box /\ CiBox \subseteq Box /\ Used \subseteq Box

VARIABLES
    unit,       \* systemd's state of prci.service
    pc,         \* where prci.main is
    done,       \* ExitHandler.done
    leaving,    \* the main thread has left main, the job's thread goes on
    box,        \* the box of the job
    machines,   \* a qemu process runs
    installed,  \* the boxes on the disk
    images,     \* those with an image in libvirt's pool
    cleaner,    \* where autocleaner.main is
    sweeping,   \* its cleaning process runs
    todo,       \* the boxes this process has yet to check
    overran     \* history: it went on after the join, and met the job of pc

mainVars == <<pc, done, leaving, box>>
diskVars == <<installed, images>>
cleanVars == <<cleaner, sweeping, todo, overran>>
vars == <<unit, mainVars, machines, diskVars, cleanVars>>

\* The steps of a job.
Job == {"check", "evict", "add", "link", "up", "run", "destroy", "publish", "report"}

\* The last conjunct relates systemd's view of the process to the process.
TypeOK ==
    /\ unit \in {"active", "deactivating", "inactive", "restarting"}
    /\ pc \in Job \cup {"down", "scan", "sleep"}
    /\ done \in BOOLEAN /\ leaving \in BOOLEAN
    /\ box \in Box
    /\ machines \in BOOLEAN
    /\ installed \subseteq Box /\ images \subseteq Box
    /\ cleaner \in {"off", "check", "stop", "stopping", "journal", "join", "start"}
    /\ sweeping \in BOOLEAN
    /\ todo \subseteq Box
    /\ overran \in BOOLEAN
    /\ pc = "down" <=> unit \in {"inactive", "restarting"}

Init ==
    /\ unit = "active" /\ pc = "scan"
    /\ done = FALSE /\ leaving = FALSE
    /\ box \in Box
    /\ machines = FALSE
    /\ installed = {} /\ images = {}
    /\ cleaner = "off" /\ sweeping = FALSE /\ todo = {} /\ overran = FALSE

-----------------------------------------------------------------------------
(* systemd.                                                                *)

\* systemctl stop: SIGTERM to every process of the unit.  prci's handler is
\* abort; a command that runs may end, and then its step has failed.
StopUnit ==
    \/ /\ unit = "active"
       /\ unit' = "deactivating"
       /\ done' = TRUE
       /\ pc' \in {pc} \cup (IF pc \in {"evict", "add", "link", "up", "run"}
                               THEN {"destroy"} ELSE {})
    \/ /\ unit = "restarting"
       /\ unit' = "inactive"
       /\ UNCHANGED <<pc, done>>
    \/ /\ unit \in {"deactivating", "inactive"}
       /\ UNCHANGED <<unit, pc, done>>

StartUnit ==
    IF unit = "active"
      THEN UNCHANGED <<unit, mainVars>>
      ELSE /\ unit \in {"inactive", "restarting"}
           /\ unit' = "active" /\ pc' = "scan"
           /\ UNCHANGED <<done, leaving, box>>

\* Mutant: systemd takes no notice of a process that exits with 0.
EndedUnseen(failed) ==
    /\ pc' = "down"
    /\ unit' = IF unit = "active" /\ failed THEN "restarting" ELSE unit
    /\ done' = FALSE /\ leaving' = FALSE

\* The process has ended.  Restart=on-failure, but not of a unit that is
\* being stopped.
Ended(failed) ==
    /\ pc' = "down"
    /\ unit' = IF unit = "active" /\ failed THEN "restarting" ELSE "inactive"
    /\ done' = FALSE /\ leaving' = FALSE

\* TimeoutStopSec has passed: SIGKILL.
StopTimesOut ==
    /\ unit = "deactivating"
    /\ Ended(TRUE)
    /\ UNCHANGED <<box, machines, diskVars, cleanVars>>

\* RestartSec has passed.
Restart ==
    /\ unit = "restarting"
    /\ StartUnit
    /\ UNCHANGED <<machines, diskVars, cleanVars>>

-----------------------------------------------------------------------------
(* prci.main and ExitHandler.                                              *)

\* The process is killed, with the commands it runs.
Kill ==
    /\ pc # "down"
    /\ Ended(TRUE)
    /\ UNCHANGED <<box, machines, diskVars, cleanVars>>

\* An exception that main does not catch, or sys.exit(1).  Out of the execution
\* of a job it passes the finally clause, which destroys the machines; if the
\* job's thread still runs, the process does not end before that has ended.
Raise ==
    /\ pc \notin {"down", "sleep"} /\ ~leaving
    /\ IF pc \in {"scan", "report"}
         THEN Ended(TRUE)
         ELSE /\ leaving' = TRUE
              /\ UNCHANGED <<unit, pc, done>>
    /\ machines' = (machines /\ pc = "scan")
    /\ UNCHANGED <<box, diskVars, cleanVars>>

\* A job is locked and taken.  done is looked at between two scans only.
Claim ==
    /\ pc = "scan"
    /\ pc' = "check"
    /\ box' \in Box
    /\ overran' = sweeping
    /\ UNCHANGED <<unit, done, leaving, machines, diskVars, cleaner, sweeping, todo>>

\* The scan is over; nothing of the job is remembered.
EndScan ==
    /\ pc = "scan"
    /\ pc' = "sleep"
    /\ UNCHANGED <<unit, done, leaving, box, machines, diskVars, cleanVars>>

\* while not exit_handler.done; main returns, the exit code is 0.
Wake ==
    /\ pc = "sleep"
    /\ IF done THEN Ended(FALSE)
               ELSE /\ pc' = "scan"
                    /\ UNCHANGED <<unit, done, leaving>>
    /\ UNCHANGED <<box, machines, diskVars, cleanVars>>

-----------------------------------------------------------------------------
(* VagrantBoxDownload: the box of the job.                                 *)

\* A step of the job that leaves the unit and the handler alone.
Step(from, to) ==
    /\ pc = from
    /\ pc' \in to
    /\ UNCHANGED <<unit, done, leaving, box, cleanVars>>

\* update_latest_use, which may raise, and the look for the box.  The statistics
\* are left out: see DeleteOldestBox.
Check ==
    /\ Step("check", {IF box \in installed THEN "link" ELSE "evict", "destroy"})
    /\ UNCHANGED <<machines, diskVars>>

\* delete_box: neither command's failure is looked at.
DeleteBox(b) ==
    /\ installed' \in {installed, installed \ {b}}
    /\ images' \in {images, images \ {b}}

\* Mutant: Windows boxes are deleted as well.
DeleteOldestOfAll ==
    /\ Step("evict", {"add", "destroy"})
    /\ \/ /\ Cardinality(installed) > 2
          /\ \E first \in installed : DeleteBox(first)
       \/ /\ Cardinality(installed) <= 2
          /\ UNCHANGED diskVars
    /\ UNCHANGED machines

\* delete_oldest_box.  installed_boxes matches the whole listing for each of
\* its lines and so returns the first box as often as there are boxes: all but
\* two of these copies are deleted, or none if that box is a Windows box.  They
\* all have one last use, so that the order by last_time_used selects nothing.
DeleteOldestBox ==
    /\ Step("evict", {"add", "destroy"})
    /\ \/ /\ Cardinality(installed) > 2
          /\ \E first \in installed \ Windows : DeleteBox(first)
       \/ /\ Cardinality(installed) <= 2 \/ installed \cap Windows # {}
          /\ UNCHANGED diskVars
    /\ UNCHANGED machines

BoxAdd ==
    /\ \/ /\ Step("add", {"link"})
          /\ installed' = installed \cup {box}
       \/ /\ Step("add", {"destroy"})
          /\ UNCHANGED installed
    /\ UNCHANGED <<machines, images>>

\* ln, chown and pool-refresh, unless the image is there.
Link ==
    /\ \/ /\ box \in images
          /\ Step("link", {"up"})
          /\ UNCHANGED images
       \/ /\ box \notin images
          /\ Step("link", {"up", "destroy"})
          /\ IF pc' = "up" THEN images' = images \cup {box}
                           ELSE images' \in {images, images \cup {box}}
    /\ UNCHANGED <<machines, installed>>

-----------------------------------------------------------------------------
(* The rest of the job.                                                    *)

VagrantUp ==
    /\ \/ Step("up", {"run"}) /\ machines' = TRUE
       \/ Step("up", {"destroy"}) /\ machines' \in {machines, TRUE}
    /\ UNCHANGED diskVars

Run ==
    /\ Step("run", {"destroy"})
    /\ UNCHANGED <<machines, diskVars>>

\* VagrantCleanup(raise_on_err=False)
Destroy ==
    /\ Step("destroy", {"publish"})
    /\ machines' \in {machines, FALSE}
    /\ UNCHANGED diskVars

\* upload_artifacts; when it fails the job stops its own service.
Upload ==
    /\ Step("publish", {"report"})
    /\ UNCHANGED <<machines, diskVars>>

UploadFails ==
    /\ pc = "publish"
    /\ pc' = "report"
    /\ unit' = IF unit = "active" THEN "deactivating" ELSE unit
    /\ done' = TRUE
    /\ UNCHANGED <<leaving, box, machines, diskVars, cleanVars>>

\* The end of Task.execute and main's finally clause.
Report ==
    \/ /\ ~leaving
       /\ Step("report", {"scan"})
       /\ machines' = FALSE
       /\ UNCHANGED diskVars
    \/ /\ leaving /\ pc = "report"
       /\ Ended(TRUE)
       /\ UNCHANGED <<box, machines, diskVars, cleanVars>>

-----------------------------------------------------------------------------
(* The autocleaner: main and, in a process of its own, run.                *)

Clean(from, to) ==
    /\ cleaner = from
    /\ cleaner' = to

\* The autocleaner's process ends with its cleaning process, and cron starts
\* no second one before.
Cron ==
    /\ ~sweeping
    /\ Clean("off", "check")
    /\ UNCHANGED <<unit, mainVars, machines, diskVars, sweeping, todo, overran>>

\* is_qemu_running
CheckActive ==
    /\ ~machines
    /\ Clean("check", "stop")
    /\ UNCHANGED <<unit, mainVars, machines, diskVars, sweeping, todo, overran>>

\* Mutant: stop_prci is not called.
StopNothing ==
    /\ Clean("stop", "journal")
    /\ UNCHANGED <<unit, mainVars, machines, diskVars, sweeping, todo, overran>>

\* stop_prci
StopPrci ==
    /\ Clean("stop", "stopping")
    /\ StopUnit
    /\ UNCHANGED <<leaving, box, machines, diskVars, sweeping, todo, overran>>

\* systemctl waits until the unit has stopped, for TIMEOUT at most; then the
\* exception goes to the finally clause, and the unit still stops.
Stopped ==
    /\ \/ unit = "inactive" /\ Clean("stopping", "journal")
       \/ unit # "inactive" /\ Clean("stopping", "start")
    /\ UNCHANGED <<unit, mainVars, machines, diskVars, sweeping, todo, overran>>

\* Mutant: boxes of every name are listed.
ListAllBoxes == installed

\* list_vagrant_boxes
ListBoxes == installed \cap CiBox

\* The box is named by a definition on the branch its name contains.
IsBoxUsed(b) == b \in Used

\* Mutant: the exception of clear_journalctl ends the autocleaner.
JournalEndsCleaner ==
    /\ \/ Clean("journal", "join") /\ sweeping' = TRUE /\ todo' = ListBoxes
       \/ Clean("journal", "off") /\ UNCHANGED <<sweeping, todo>>
    /\ UNCHANGED <<unit, mainVars, machines, diskVars, overran>>

\* clear_journalctl, whose timeout goes to the finally clause; then the cleaning
\* process lists the boxes.
ClearJournal ==
    /\ \/ Clean("journal", "join") /\ sweeping' = TRUE /\ todo' = ListBoxes
       \/ Clean("journal", "start") /\ UNCHANGED <<sweeping, todo>>
    /\ UNCHANGED <<unit, mainVars, machines, diskVars, overran>>

\* The next box: deleted, with its image, unless it is used.
Sweep ==
    /\ sweeping
    /\ \E b \in todo :
          /\ todo' = todo \ {b}
          /\ IF IsBoxUsed(b) THEN UNCHANGED diskVars ELSE DeleteBox(b)
    /\ UNCHANGED <<unit, mainVars, machines, cleaner, sweeping, overran>>

\* No box is left, or a query or command has failed: sys.exit(1), TimeoutExpired.
SweepEnds ==
    /\ sweeping
    /\ sweeping' = FALSE /\ todo' = {}
    /\ UNCHANGED <<unit, mainVars, machines, diskVars, cleaner, overran>>

\* cleaning_process.join(timeout=TIMEOUT): the process may not have ended.
Join ==
    /\ Clean("join", "start")
    /\ overran' = sweeping
    /\ UNCHANGED <<unit, mainVars, machines, diskVars, sweeping, todo>>

\* finally: start_prci()
StartPrci ==
    /\ Clean("start", "off")
    /\ StartUnit
    /\ UNCHANGED <<machines, diskVars, sweeping, todo, overran>>

-----------------------------------------------------------------------------
Main == Claim \/ EndScan \/ Wake
JobStep == \/ Check \/ DeleteOldestBox \/ BoxAdd \/ Link
           \/ VagrantUp \/ Run \/ Destroy \/ Upload \/ UploadFails \/ Report
Systemd == StopTimesOut \/ Restart
Autocleaner == StopPrci \/ Stopped \/ ClearJournal \/ Join \/ StartPrci
CleaningProcess == Sweep \/ SweepEnds

Next == \/ Main \/ JobStep \/ Systemd \/ Kill \/ Raise
        \/ Cron \/ CheckActive \/ Autocleaner \/ CleaningProcess

Spec == Init /\ [][Next]_vars

\* systemd's timers expire, and the processes of the autocleaner run.
FairSpec == Spec /\ WF_vars(Systemd) /\ WF_vars(Autocleaner) /\ WF_vars(CleaningProcess)
-----------------------------------------------------------------------------
(* What is checked.                                                        *)

\* The autocleaner has prci stopped while boxes and images are deleted
\* (autocleaner.main): nothing else starts it meanwhile, not systemd after a
\* crash either.  Only a cleaning that has outlasted the join meets jobs.
CleaningAlone == sweeping => pc = "down" \/ overran

\* The machines of a job have their disks on the image of its box, which stays
\* while they run: neither delete_oldest_box nor the autocleaner removes it.
\* A cleaning that has outlasted the join does remove it when the box is one
\* of its own and used no more, and no other box.
ImageStays ==
    pc = "run" /\ (overran => box \notin CiBox \ Used)
        => box \in installed /\ box \in images

\* What a job deletes to make room is no Windows box, and at least two boxes
\* are left (VagrantBox.delete_oldest_box).
RoomIsMadeWithCare ==
    [][pc = "evict" /\ pc' # "evict" /\ installed' # installed =>
         /\ (installed \ installed') \cap Windows = {}
         /\ Cardinality(installed') >= 2]_vars

\* A runner that has crashed, or that the autocleaner has stopped, is started
\* again.
ServiceReturns ==
    (unit = "restarting" \/ cleaner \in {"stop", "stopping", "journal", "join", "start"})
        ~> (unit = "active")
=============================================================================

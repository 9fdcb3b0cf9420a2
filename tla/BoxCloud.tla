------------------------------ MODULE BoxCloud ------------------------------
(***************************************************************************)
(* One template box on Vagrant cloud: box_uploader publishes versions of   *)
(* it, and cache-vagrant-box copies a version to the host that serves it   *)
(* to the runners.                                                         *)
(*                                                                         *)
(* Every call may be refused, or done with its answer lost; the uploader   *)
(* and the script may be killed between any two calls.  What they leave is *)
(* found by the next run.  Vagrant cloud is modelled from the calls: a     *)
(* creation of what exists is refused, an answer with status 200 is JSON.  *)
(***************************************************************************)
EXTENDS Integers, FiniteSets, FiniteSetsExt

CONSTANTS
    Uploader,    \* the processes that run box_uploader on the box
    MaxUploads,  \* bound: runs of box_uploader
    MaxCopies,   \* bound: runs of cache-vagrant-box
    MaxFaults    \* bound: failed calls and kills

ASSUME BoxAssumption == MaxUploads \in Nat /\ MaxCopies \in Nat /\ MaxFaults \in Nat

\* 0.0.0 and its revisions: --bump-revision is the only use of the uploader.
Version == 0 .. MaxUploads
Content == {"none", "part", "whole"}

VARIABLES
    box,        \* whether the box exists
    state,      \* version -> absent, unreleased or active
    provider,   \* version -> whether it has the libvirt provider
    content,    \* version -> what has been uploaded for the provider
    upc,        \* uploader -> the call it makes next
    target,     \* uploader -> box_version
    clean,      \* uploader -> nothing has failed in this run; history
    cpc,        \* what cache-vagrant-box does next
    wanted,     \* the version it was told to copy
    cclean,     \* nothing has failed in this run; history
    temp,       \* version -> what is under /tmp/temp_boxes
    served,     \* version -> what is under CATALOG_PATH
    uploads,    \* the runs of box_uploader so far
    copies,     \* the runs of cache-vagrant-box so far
    faults      \* the faults so far

cloud == <<box, state, provider, content>>
uploaders == <<upc, target, clean>>
host == <<cpc, wanted, cclean, temp, served>>
boxCounts == <<uploads, copies, faults>>
boxVars == <<cloud, uploaders, host, boxCounts>>

Ended == {"idle", "succeeded", "failed"}
UploadStep == {"box", "add_box", "number", "version", "add_version",
               "provider", "add_provider", "upload", "release"}

BoxTypeOK ==
    /\ box \in BOOLEAN
    /\ state \in [Version -> {"absent", "unreleased", "active"}]
    /\ provider \in [Version -> BOOLEAN]
    /\ content \in [Version -> Content]
    /\ \A v \in Version :
         /\ state[v] # "absent" => box
         /\ provider[v] => state[v] # "absent"
         /\ content[v] # "none" => provider[v]
    /\ upc \in [Uploader -> UploadStep \cup Ended]
    /\ target \in [Uploader -> Version]
    /\ clean \in [Uploader -> BOOLEAN]
    /\ cpc \in {"idle", "metadata", "curl", "move", "copy"}
    /\ wanted \in Version
    /\ cclean \in BOOLEAN
    /\ temp \in [Version -> Content]
    /\ served \in [Version -> Content]
    /\ uploads \in 0 .. MaxUploads
    /\ copies \in 0 .. MaxCopies
    /\ faults \in 0 .. MaxFaults

\* README.md:198-202: a person has created the box with a first version, or not.
BoxInit ==
    /\ box \in BOOLEAN
    /\ state \in [Version -> {"absent", "unreleased"}]
    /\ \A v \in Version : state[v] # "absent" => v = 0 /\ box
    /\ provider = [v \in Version |-> FALSE]
    /\ content = [v \in Version |-> "none"]
    /\ upc = [u \in Uploader |-> "idle"]
    /\ target = [u \in Uploader |-> 0]
    /\ clean = [u \in Uploader |-> TRUE]
    /\ cpc = "idle"
    /\ wanted = 0
    /\ cclean = TRUE
    /\ temp = [v \in Version |-> "none"]
    /\ served = [v \in Version |-> "none"]
    /\ uploads = 0 /\ copies = 0 /\ faults = 0

-----------------------------------------------------------------------------
(* box_uploader and the classes of atlas.                                  *)

Fault ==
    /\ faults < MaxFaults
    /\ faults' = faults + 1
    /\ UNCHANGED <<uploads, copies>>

UploadGoto(u, p) == upc' = [upc EXCEPT ![u] = p]

\* The call is answered, and uploader u goes on to p.
Answered(u, p) == UploadGoto(u, p) /\ UNCHANGED <<target, clean, boxCounts>>

\* The call fails, and uploader u goes on to p.
Unanswered(u, p) ==
    /\ Fault
    /\ UploadGoto(u, p)
    /\ clean' = [clean EXCEPT ![u] = FALSE]
    /\ UNCHANGED target

\* The service answers with an error, which ends uploader u.
Refused(u) == UploadGoto(u, "failed") /\ UNCHANGED <<target, clean, boxCounts>>

\* The role box/package runs the script with --bump-revision.
StartUpload(u) ==
    /\ upc[u] \in Ended
    /\ uploads < MaxUploads
    /\ uploads' = uploads + 1
    /\ UploadGoto(u, "box")
    /\ clean' = [clean EXCEPT ![u] = TRUE]
    /\ UNCHANGED <<cloud, target, host, copies, faults>>

\* Boxes and Mapping turn every exception of a GET into a KeyError, so that what
\* could not be looked up is created.
Lookup(u, step, exists, found, missing) ==
    /\ upc[u] = step
    /\ \/ exists /\ Answered(u, found)
       \/ ~exists /\ Answered(u, missing)
       \/ Unanswered(u, missing)
    /\ UNCHANGED <<cloud, host>>

\* CRUD.create and the GET after it; a creation of what exists is refused.
Create(u, step, exists, next, create) ==
    /\ upc[u] = step
    /\ \/ exists /\ Refused(u) /\ UNCHANGED cloud
       \/ ~exists /\ create /\ (Answered(u, next) \/ Unanswered(u, "failed"))
       \/ Unanswered(u, "failed") /\ UNCHANGED cloud
    /\ UNCHANGED host

LookupBox(u) == Lookup(u, "box", box, "number", "add_box")

AddBox(u) ==
    Create(u, "add_box", box, "number",
           box' = TRUE /\ UNCHANGED <<state, provider, content>>)

Active == {v \in Version : state[v] = "active"}

\* The cloud lists the versions that are not released, or it does not.
Listings == {Active, {v \in Version : state[v] # "absent"}}

\* Mutant: the greatest version, without the bump.
GreatestVersion(listed) == IF listed = {} THEN 0 ELSE Max(listed)

\* max of no version is a ValueError: 0.0.0.
NextVersion(listed) == IF listed = {} THEN 0 ELSE Max(listed) + 1

GetNextVersion(u) ==
    /\ upc[u] = "number"
    /\ \/ /\ \E listed \in Listings : target' = [target EXCEPT ![u] = NextVersion(listed)]
          /\ UploadGoto(u, "version")
          /\ UNCHANGED <<clean, boxCounts>>
       \/ Unanswered(u, "failed")
    /\ UNCHANGED <<cloud, host>>

LookupVersion(u) ==
    Lookup(u, "version", state[target[u]] # "absent", "provider", "add_version")

AddVersion(u) ==
    Create(u, "add_version", state[target[u]] # "absent", "provider",
           /\ state' = [state EXCEPT ![target[u]] = "unreleased"]
           /\ UNCHANGED <<box, provider, content>>)

\* Mutant: the provider of a new version is taken for granted.
LookupProviderOnly(u) == Lookup(u, "provider", provider[target[u]], "upload", "upload")

LookupProvider(u) ==
    Lookup(u, "provider", provider[target[u]], "upload", "add_provider")

AddProvider(u) ==
    Create(u, "add_provider", provider[target[u]], "upload",
           /\ provider' = [provider EXCEPT ![target[u]] = TRUE]
           /\ UNCHANGED <<box, state, content>>)

\* BoxProvider.upload gets an address and sends the box there: this much of it has
\* arrived when something fails.
SomeArrives(u) ==
    \E c \in {content[target[u]], "part", "whole"} :
        content' = [content EXCEPT ![target[u]] = c]

\* Mutant: an upload that is there already is not made again.
UploadIfNone(u) ==
    /\ upc[u] = "upload"
    /\ \/ /\ content' = [content EXCEPT ![target[u]] = IF @ = "none" THEN "whole" ELSE @]
          /\ Answered(u, "release")
       \/ SomeArrives(u) /\ Unanswered(u, "release")
    /\ UNCHANGED <<box, state, provider, host>>

\* Whatever the upload raises is ignored.
Upload(u) ==
    /\ upc[u] = "upload"
    /\ \/ /\ content' = [content EXCEPT ![target[u]] = "whole"]
          /\ Answered(u, "release")
       \/ SomeArrives(u) /\ Unanswered(u, "release")
    /\ UNCHANGED <<box, state, provider, host>>

Release(u) ==
    /\ upc[u] = "release"
    /\ \/ /\ state' = [state EXCEPT ![target[u]] = "active"]
          /\ Answered(u, "succeeded") \/ Unanswered(u, "failed")
       \/ UNCHANGED state /\ Unanswered(u, "failed")
    /\ UNCHANGED <<box, provider, content, host>>

KillUpload(u) ==
    /\ upc[u] \notin Ended
    /\ Unanswered(u, "failed")
    /\ UNCHANGED <<cloud, host>>

UploadNext(u) ==
    \/ StartUpload(u) \/ LookupBox(u) \/ AddBox(u) \/ GetNextVersion(u)
    \/ LookupVersion(u) \/ AddVersion(u) \/ LookupProvider(u) \/ AddProvider(u)
    \/ Upload(u) \/ Release(u) \/ KillUpload(u)

-----------------------------------------------------------------------------
(* cache-vagrant-box.                                                      *)

CopyGoto(p) == cpc' = p /\ UNCHANGED <<wanted, cclean, boxCounts>>

CopyFails(p) == Fault /\ cpc' = p /\ cclean' = FALSE /\ UNCHANGED wanted

\* The operator names a version.
StartCopy(v) ==
    /\ cpc = "idle"
    /\ copies < MaxCopies
    /\ copies' = copies + 1
    /\ cpc' = "metadata"
    /\ wanted' = v
    /\ cclean' = TRUE
    /\ UNCHANGED <<cloud, uploaders, temp, served, uploads, faults>>

\* Mutant: any version that has the provider.
CopiableIfThere(v) == provider[v]

\* The version is active and has the provider.
Copiable(v) == state[v] = "active" /\ provider[v]

FetchMetadata ==
    /\ cpc = "metadata"
    /\ \/ CopyGoto(IF Copiable(wanted) THEN "curl" ELSE "idle")
       \/ CopyFails("idle")
    /\ UNCHANGED <<cloud, uploaders, temp, served>>

\* curl has got some of the box, or none: --fail writes no error page.
CurlStops ==
    \/ UNCHANGED temp
    \/ content[wanted] # "none" /\ temp' = [temp EXCEPT ![wanted] = "part"]

\* Mutant: a box that is there is not downloaded again.
CurlUnlessThere ==
    /\ cpc = "curl"
    /\ \/ /\ temp' = [temp EXCEPT ![wanted] = IF @ = "none" THEN content[wanted] ELSE @]
          /\ CopyGoto("move")
       \/ CurlStops /\ CopyFails("move")
    /\ UNCHANGED <<cloud, uploaders, served>>

\* curl goes on where an earlier one stopped, and nobody looks at its exit status.
Curl ==
    /\ cpc = "curl"
    /\ \/ /\ temp' = [temp EXCEPT ![wanted] = IF content[wanted] = "none" THEN @
                                              ELSE content[wanted]]
          /\ CopyGoto("move")
       \/ CurlStops /\ CopyFails("move")
    /\ UNCHANGED <<cloud, uploaders, served>>

\* shutil.move copies from one file system to another; without a file it raises.
Move ==
    /\ cpc = "move"
    /\ IF temp[wanted] = "none"
         THEN CopyGoto("idle") /\ UNCHANGED served
         ELSE CopyGoto("copy") /\ served' = [served EXCEPT ![wanted] = "part"]
    /\ UNCHANGED <<cloud, uploaders, temp>>

\* The end of the copy, and of the script: no box of the uploader has a checksum.
EndMove ==
    /\ cpc = "copy"
    /\ served' = [served EXCEPT ![wanted] = temp[wanted]]
    /\ temp' = [temp EXCEPT ![wanted] = "none"]
    /\ CopyGoto("idle")
    /\ UNCHANGED <<cloud, uploaders>>

KillCopy ==
    /\ cpc # "idle"
    /\ CopyFails("idle")
    /\ IF cpc = "curl" THEN CurlStops ELSE UNCHANGED temp
    /\ UNCHANGED <<cloud, uploaders, served>>

CopyNext ==
    \/ \E v \in Version : StartCopy(v)
    \/ FetchMetadata \/ Curl \/ Move \/ EndMove \/ KillCopy

BoxNext == CopyNext \/ \E u \in Uploader : UploadNext(u)

BoxSpec == BoxInit /\ [][BoxNext]_boxVars

-----------------------------------------------------------------------------
(* Properties.                                                             *)

\* What has been released stays what it is: a later run of box_uploader, whatever
\* the earlier ones have left, finds another version to upload (get_next_version).
ActiveStays ==
    [][\A v \in Version :
         state[v] = "active" => state'[v] = "active" /\ content'[v] = content[v]]_boxVars

\* A run of box_uploader in which nothing fails releases a version of its own, with
\* the whole box: no earlier run that was killed, refused or not answered, at
\* whatever call, has left something it fails on or publishes.
CleanUploadPublishes ==
    [][\A u \in Uploader :
         upc[u] \notin Ended /\ upc'[u] \in Ended /\ clean'[u]
           => LET v == target[u] IN
                /\ upc'[u] = "succeeded"
                /\ state[v] # "active" /\ state'[v] = "active" /\ content'[v] = "whole"]_boxVars

\* The host serves nothing that is not released (download_box looks at the status).
ServedIsReleased == \A v \in Version : served[v] # "none" => v \in Active

\* A run of cache-vagrant-box in which nothing fails leaves the whole box, whatever
\* an earlier one has left in /tmp or in the catalog, when it is on Vagrant cloud.
CleanCopyServes ==
    [][cpc # "idle" /\ cpc' = "idle" /\ cclean' /\ wanted \in Active /\ content[wanted] = "whole"
         => served'[wanted] = "whole"]_boxVars
=============================================================================

------------------------- MODULE AutomatedPRProofs -------------------------
(***************************************************************************)
(* Theorems about the template box and about the pull requests that name   *)
(* it, for any jobs, and any number of runs, calls that fail and kills.    *)
(*                                                                         *)
(* The first half is about BoxCloud alone: one process at a time runs      *)
(* box_uploader.  The second half is about AutomatedPR, whose job Template *)
(* is that process.                                                        *)
(***************************************************************************)
EXTENDS AutomatedPR, WellFoundedInduction, TLAPS

-----------------------------------------------------------------------------
(* The greatest version.                                                   *)

Below == {ss \in Nat \X Nat : ss[1] < ss[2]}

\* A set of versions that is not empty has a greatest one, which is Max.
LEMMA GreatestVersions ==
    ASSUME NEW S \in SUBSET Version, S # {}
    PROVE  Max(S) \in S /\ \A v \in S : v <= Max(S)
<1>n. MaxUploads \in Nat /\ S \subseteq Nat /\ \A v \in S : MaxUploads - v \in Nat
  BY BoxAssumption DEF Version
<1> DEFINE T == {MaxUploads - v : v \in S}
<1>1. T \subseteq Nat /\ T # {}
  BY <1>n
<1>2. PICK x \in T : \A y \in T : ~(<<y, x>> \in Below)
  <2>1. IsWellFoundedOn(Below, Nat)
    BY NatLessThanWellFounded DEF OpToRel, Below
  <2> HIDE DEF T
  <2> QED
    BY <1>1, <2>1, WFMin
<1>3. PICK m \in S : x = MaxUploads - m
  BY <1>2
<1>4. \A v \in S : m >= v
  <2> SUFFICES ASSUME NEW v \in S, v > m PROVE FALSE
    BY <1>n, <1>3
  <2>1. MaxUploads - v \in T /\ MaxUploads - v < x /\ MaxUploads - v \in Nat /\ x \in Nat
    BY <1>n, <1>3
  <2>2. <<MaxUploads - v, x>> \in Below
    BY <2>1 DEF Below
  <2> QED
    BY <1>2, <2>1, <2>2
<1> QED
  BY <1>n, <1>4 DEF Max

-----------------------------------------------------------------------------
(* The box: the invariant.                                                 *)

OneUploader == \E u : Uploader = {u}

\* The calls before the uploader has its version, and those after.
Numbering == {"box", "add_box", "number"}
Naming == {"version", "add_version", "provider", "add_provider", "upload", "release"}

\* There are no more versions than runs, so that each run has one left for it.
Counted ==
    /\ \A v \in Version : state[v] # "absent" => v <= uploads
    /\ \A u \in Uploader :
         /\ upc[u] \in Numbering => \A v \in Version : state[v] # "absent" => v < uploads
         /\ upc[u] \in Naming => target[u] <= uploads

\* What an uploader is past is there, and its version is not released yet.
Made ==
    \A u \in Uploader :
        /\ upc[u] \in {"number"} \cup Naming => box
        /\ upc[u] \in {"provider", "add_provider", "upload", "release"} => state[target[u]] # "absent"
        /\ upc[u] \in {"upload", "release"} => provider[target[u]]

\* The version that an uploader has chosen is newer than what is released.
Newer ==
    \A u \in Uploader :
        upc[u] \in Naming => \A v \in Version : state[v] = "active" => v < target[u]

\* As long as nothing has failed, an uploader creates only what is not there.
CleanSoFar ==
    \A u \in Uploader :
        clean[u] =>
            /\ upc[u] = "add_box" => ~box
            /\ upc[u] = "add_version" => state[target[u]] = "absent"
            /\ upc[u] = "add_provider" => ~provider[target[u]]
            /\ upc[u] = "release" => content[target[u]] = "whole"

\* cache-vagrant-box has downloaded, and serves, released versions only; and, as long as
\* nothing has failed, the whole of what it was told to copy.
Serving ==
    /\ cpc \in {"curl", "move", "copy"} => wanted \in Active
    /\ \A v \in Version : temp[v] # "none" \/ served[v] # "none" => v \in Active
    /\ cclean /\ cpc \in {"move", "copy"} /\ content[wanted] = "whole" => temp[wanted] = "whole"

BoxInv == BoxTypeOK /\ Counted /\ Made /\ Newer /\ CleanSoFar /\ Serving

\* A step of the uploader leaves the released versions alone.
Stays ==
    \A v \in Version :
        state[v] = "active" => state'[v] = "active" /\ content'[v] = content[v]

\* A run of box_uploader ends well if nothing has failed in it.
Publishes ==
    \A u \in Uploader :
        upc[u] \notin Ended /\ upc'[u] \in Ended /\ clean'[u] =>
            LET v == target[u] IN
            /\ upc'[u] = "succeeded"
            /\ state[v] # "active" /\ state'[v] = "active" /\ content'[v] = "whole"

\* The invariant holds initially.
LEMMA InitBox == BoxInit => BoxInv
<1> SUFFICES ASSUME BoxInit PROVE BoxInv
  OBVIOUS
<1>1. 0 \in Version
  BY BoxAssumption DEF Version
<1>2. BoxTypeOK
  BY <1>1, BoxAssumption DEF BoxInit, BoxTypeOK, Content, Ended
<1>3. Counted
  BY DEF BoxInit, Counted, Numbering, Naming
<1>4. Made /\ Newer /\ CleanSoFar
  BY DEF BoxInit, Made, Newer, CleanSoFar, Naming
<1>5. Serving
  BY DEF BoxInit, Serving
<1> QED
  BY <1>2, <1>3, <1>4, <1>5 DEF BoxInv

\* A version that is chosen is none of the released ones, and within the bound.
LEMMA NumberIsNew ==
    ASSUME BoxInv, NEW u \in Uploader, upc[u] = "number", NEW listed \in Listings
    PROVE  /\ NextVersion(listed) \in Version
           /\ NextVersion(listed) <= uploads
           /\ \A v \in Version : state[v] = "active" => v < NextVersion(listed)
<1>n. uploads \in 0 .. MaxUploads /\ MaxUploads \in Nat
  BY BoxAssumption DEF BoxInv, BoxTypeOK
<1>1. listed \in SUBSET Version /\ Active \subseteq listed /\ \A v \in listed : state[v] # "absent"
  BY DEF Listings, Active
<1>2. CASE listed = {}
  BY <1>n, <1>1, <1>2 DEF NextVersion, Version, Active
<1>3. CASE listed # {}
  <2>1. Max(listed) \in listed /\ \A v \in listed : v <= Max(listed)
    BY <1>1, <1>3, GreatestVersions
  <2>a. Max(listed) \in Version /\ state[Max(listed)] # "absent"
    BY <1>1, <2>1
  <2>2. Max(listed) \in Nat /\ Max(listed) < uploads
    BY <2>a, <1>n DEF BoxInv, Counted, Numbering, Version
  <2>3. NextVersion(listed) = Max(listed) + 1
    BY <1>3 DEF NextVersion
  <2>4. NextVersion(listed) \in Version /\ NextVersion(listed) <= uploads
    BY <1>n, <2>2, <2>3 DEF Version
  <2>5. \A v \in listed : v < NextVersion(listed)
    BY <1>1, <2>1, <2>2, <2>3 DEF Version
  <2> QED
    BY <1>1, <2>4, <2>5 DEF Active
<1> QED
  BY <1>2, <1>3

\* A step of the uploader, as far as its own state goes.
Turns(u, p) ==
    /\ upc' = [upc EXCEPT ![u] = p] /\ UNCHANGED <<target, host, uploads, copies>>
    /\ \/ UNCHANGED <<clean, faults>>
       \/ clean' = [clean EXCEPT ![u] = FALSE] /\ faults < MaxFaults /\ faults' = faults + 1

\* What the uploader does, by kind.
Starts(u) ==
    /\ upc[u] \in Ended /\ upc' = [upc EXCEPT ![u] = "box"]
    /\ uploads < MaxUploads /\ uploads' = uploads + 1
    /\ clean' = [clean EXCEPT ![u] = TRUE]
    /\ UNCHANGED <<cloud, target, host, copies, faults>>

Gives(u) ==
    /\ upc[u] \notin Ended /\ Turns(u, "failed") /\ UNCHANGED cloud
    /\ ~clean'[u]

Finds(u, step, exists, found, missing) ==
    /\ upc[u] = step /\ UNCHANGED cloud
    /\ \/ exists /\ Turns(u, found) /\ UNCHANGED <<clean, faults>>
       \/ Turns(u, missing) /\ (clean'[u] => ~exists)

Makes(u, step, next) ==
    /\ upc[u] = step
    /\ \/ Turns(u, next) /\ UNCHANGED <<clean, faults>>
       \/ Turns(u, "failed") /\ ~clean'[u]

Numbers(u) ==
    /\ upc[u] = "number" /\ UNCHANGED <<cloud, clean, host, boxCounts>>
    /\ upc' = [upc EXCEPT ![u] = "version"]
    /\ \E listed \in Listings : target' = [target EXCEPT ![u] = NextVersion(listed)]

Uploads(u) ==
    /\ upc[u] = "upload" /\ Turns(u, "release") /\ UNCHANGED <<box, state, provider>>
    /\ \E c \in Content : /\ content' = [content EXCEPT ![target[u]] = c]
                          /\ clean'[u] => c = "whole"

Releases(u) ==
    /\ upc[u] = "release" /\ UNCHANGED <<box, provider, content>>
    /\ \/ /\ state' = [state EXCEPT ![target[u]] = "active"]
          /\ Turns(u, "succeeded") \/ (Turns(u, "failed") /\ ~clean'[u])
       \/ UNCHANGED state /\ Turns(u, "failed") /\ ~clean'[u]

UploadKind(u) ==
    \/ Starts(u) \/ Gives(u) \/ Numbers(u) \/ Uploads(u) \/ Releases(u)
    \/ Finds(u, "box", box, "number", "add_box")
    \/ Finds(u, "version", state[target[u]] # "absent", "provider", "add_version")
    \/ Finds(u, "provider", provider[target[u]], "upload", "add_provider")
    \/ Makes(u, "add_box", "number") /\ ~box /\ box' = TRUE /\ UNCHANGED <<state, provider, content>>
    \/ /\ Makes(u, "add_version", "provider") /\ state[target[u]] = "absent"
       /\ state' = [state EXCEPT ![target[u]] = "unreleased"] /\ UNCHANGED <<box, provider, content>>
    \/ /\ Makes(u, "add_provider", "upload") /\ ~provider[target[u]]
       /\ provider' = [provider EXCEPT ![target[u]] = TRUE] /\ UNCHANGED <<box, state, content>>

\* Every step of the uploader is of one of these kinds: in particular no call is refused
\* as long as nothing has failed.
LEMMA UploadKinds ==
    ASSUME BoxInv, NEW u \in Uploader, UploadNext(u)
    PROVE  UploadKind(u)
<1> USE DEF cloud, uploaders, host, boxCounts, Answered, Unanswered, Refused, UploadGoto, Fault, Turns
<1>t. BoxTypeOK /\ CleanSoFar
  BY DEF BoxInv
<1>1. CASE StartUpload(u)
  BY <1>1 DEF StartUpload, Starts, UploadKind
<1>2. CASE LookupBox(u)
  BY <1>t, <1>2 DEF LookupBox, Lookup, Finds, UploadKind, BoxTypeOK
<1>3. CASE AddBox(u)
  <2>1. CASE Refused(u)
    BY <1>t, <1>3, <2>1 DEF AddBox, Create, Gives, UploadKind, BoxTypeOK, Ended, CleanSoFar
  <2> QED
    BY <1>t, <1>3 DEF AddBox, Create, Gives, Makes, UploadKind, BoxTypeOK, Ended, CleanSoFar
<1>4. CASE GetNextVersion(u)
  BY <1>t, <1>4 DEF GetNextVersion, Numbers, Gives, UploadKind, BoxTypeOK, Ended
<1>5. CASE LookupVersion(u)
  BY <1>t, <1>5 DEF LookupVersion, Lookup, Finds, UploadKind, BoxTypeOK
<1>6. CASE AddVersion(u)
  BY <1>t, <1>6 DEF AddVersion, Create, Gives, Makes, UploadKind, BoxTypeOK, Ended, CleanSoFar
<1>7. CASE LookupProvider(u)
  BY <1>t, <1>7 DEF LookupProvider, Lookup, Finds, UploadKind, BoxTypeOK
<1>8. CASE AddProvider(u)
  BY <1>t, <1>8 DEF AddProvider, Create, Gives, Makes, UploadKind, BoxTypeOK, Ended, CleanSoFar
<1>9. CASE Upload(u)
  <2>1. \A v \in Version : content[v] \in Content
    BY <1>t DEF BoxTypeOK
  <2>2. target[u] \in Version /\ "part" \in Content /\ "whole" \in Content
    BY <1>t DEF BoxTypeOK, Content
  <2> QED
    BY <1>t, <1>9, <2>1, <2>2 DEF Upload, SomeArrives, Uploads, UploadKind, BoxTypeOK
<1>10. CASE Release(u)
  BY <1>t, <1>10 DEF Release, Releases, UploadKind, BoxTypeOK
<1>11. CASE KillUpload(u)
  BY <1>t, <1>11 DEF KillUpload, Gives, UploadKind, BoxTypeOK
<1> QED
  BY <1>1, <1>2, <1>3, <1>4, <1>5, <1>6, <1>7, <1>8, <1>9, <1>10, <1>11 DEF UploadNext
\* What the cloud holds, as BoxTypeOK has it.
CloudOK ==
    /\ box \in BOOLEAN
    /\ state \in [Version -> {"absent", "unreleased", "active"}]
    /\ provider \in [Version -> BOOLEAN]
    /\ content \in [Version -> Content]
    /\ \A v \in Version :
         /\ state[v] # "absent" => box
         /\ provider[v] => state[v] # "absent"
         /\ content[v] # "none" => provider[v]

\* What the uploaders keep.
UploadersOK ==
    /\ upc \in [Uploader -> UploadStep \cup Ended]
    /\ target \in [Uploader -> Version]
    /\ clean \in [Uploader -> BOOLEAN]

\* What the host and its script keep.
HostOK ==
    /\ cpc \in {"idle", "metadata", "curl", "move", "copy"}
    /\ wanted \in Version
    /\ cclean \in BOOLEAN
    /\ temp \in [Version -> Content]
    /\ served \in [Version -> Content]

\* The bounds.
CountsOK ==
    /\ uploads \in 0 .. MaxUploads
    /\ copies \in 0 .. MaxCopies
    /\ faults \in 0 .. MaxFaults

\* The type invariant in its four parts, in a state and in the next one.
LEMMA BoxTypeParts ==
    /\ BoxTypeOK <=> CloudOK /\ UploadersOK /\ HostOK /\ CountsOK
    /\ BoxTypeOK' <=> CloudOK' /\ UploadersOK' /\ HostOK' /\ CountsOK'
  BY DEF BoxTypeOK, CloudOK, UploadersOK, HostOK, CountsOK

\* The uploader goes from one call to another.
LEMMA TurnsTypes ==
    ASSUME BoxTypeOK, NEW u \in Uploader, NEW p \in UploadStep \cup Ended, Turns(u, p)
    PROVE  UploadersOK' /\ HostOK' /\ CountsOK'
<1>1. UploadersOK'
  BY BoxTypeParts DEF UploadersOK, Turns
<1>2. HostOK'
  BY BoxTypeParts DEF HostOK, Turns, host
<1>3. CountsOK'
  BY BoxTypeParts, BoxAssumption DEF CountsOK, Turns
<1> QED
  BY <1>1, <1>2, <1>3

\* A step of the uploader keeps the types.
LEMMA UploadTypes ==
    ASSUME BoxInv, NEW u \in Uploader, UploadKind(u)
    PROVE  BoxTypeOK'
<1>t. BoxTypeOK /\ CloudOK /\ UploadersOK /\ HostOK /\ CountsOK
  BY BoxTypeParts DEF BoxInv
<1>v. target[u] \in Version
  BY <1>t DEF UploadersOK
<1>c. UNCHANGED cloud => CloudOK'
  BY <1>t DEF CloudOK, cloud
<1>1. CASE Starts(u)
  <2>1. CloudOK' /\ HostOK'
    BY <1>t, <1>c, <1>1 DEF Starts, HostOK, host
  <2>2. UploadersOK'
    BY <1>t, <1>1 DEF Starts, UploadersOK, UploadStep
  <2>3. CountsOK'
    BY <1>t, <1>1, BoxAssumption DEF Starts, CountsOK
  <2> QED
    BY <2>1, <2>2, <2>3, BoxTypeParts
<1>2. CASE Gives(u)
  <2>1. CloudOK'
    BY <1>c, <1>2 DEF Gives
  <2>2. Turns(u, "failed")
    BY <1>2 DEF Gives
  <2>3. UploadersOK' /\ HostOK' /\ CountsOK'
    BY <1>t, <2>2, TurnsTypes DEF UploadStep, Ended
  <2> QED
    BY <2>1, <2>3, BoxTypeParts
<1>3. CASE Numbers(u)
  <2>1. CloudOK' /\ HostOK' /\ CountsOK'
    BY <1>t, <1>c, <1>3 DEF Numbers, HostOK, host, CountsOK, boxCounts
  <2>2. target' \in [Uploader -> Version]
    BY <1>t, <1>3, NumberIsNew DEF Numbers, UploadersOK
  <2>3. UploadersOK'
    BY <1>t, <1>3, <2>2 DEF Numbers, UploadersOK, UploadStep
  <2> QED
    BY <2>1, <2>3, BoxTypeParts
<1>4. CASE Uploads(u)
  <2>1. CloudOK'
    BY <1>t, <1>v, <1>4 DEF CloudOK, Uploads, BoxInv, Made, Naming
  <2>2. Turns(u, "release")
    BY <1>4 DEF Uploads
  <2>3. UploadersOK' /\ HostOK' /\ CountsOK'
    BY <1>t, <2>2, TurnsTypes DEF UploadStep, Ended
  <2> QED
    BY <2>1, <2>3, BoxTypeParts
<1>5. CASE Releases(u)
  <2>1. CloudOK'
    BY <1>t, <1>v, <1>5 DEF CloudOK, Releases, BoxInv, Made, Naming
  <2>2. Turns(u, "succeeded") \/ Turns(u, "failed")
    BY <1>5 DEF Releases
  <2>3. UploadersOK' /\ HostOK' /\ CountsOK'
    BY <1>t, <2>2, TurnsTypes DEF UploadStep, Ended
  <2> QED
    BY <2>1, <2>3, BoxTypeParts
<1>6. CASE Finds(u, "box", box, "number", "add_box")
  <2>1. CloudOK'
    BY <1>c, <1>6 DEF Finds
  <2>2. Turns(u, "number") \/ Turns(u, "add_box")
    BY <1>6 DEF Finds
  <2>3. UploadersOK' /\ HostOK' /\ CountsOK'
    BY <1>t, <2>2, TurnsTypes DEF UploadStep, Ended
  <2> QED
    BY <2>1, <2>3, BoxTypeParts
<1>7. CASE Finds(u, "version", state[target[u]] # "absent", "provider", "add_version")
  <2>1. CloudOK'
    BY <1>c, <1>7 DEF Finds
  <2>2. Turns(u, "provider") \/ Turns(u, "add_version")
    BY <1>7 DEF Finds
  <2>3. UploadersOK' /\ HostOK' /\ CountsOK'
    BY <1>t, <2>2, TurnsTypes DEF UploadStep, Ended
  <2> QED
    BY <2>1, <2>3, BoxTypeParts
<1>8. CASE Finds(u, "provider", provider[target[u]], "upload", "add_provider")
  <2>1. CloudOK'
    BY <1>c, <1>8 DEF Finds
  <2>2. Turns(u, "upload") \/ Turns(u, "add_provider")
    BY <1>8 DEF Finds
  <2>3. UploadersOK' /\ HostOK' /\ CountsOK'
    BY <1>t, <2>2, TurnsTypes DEF UploadStep, Ended
  <2> QED
    BY <2>1, <2>3, BoxTypeParts
<1>9. CASE Makes(u, "add_box", "number") /\ ~box /\ box' = TRUE /\ UNCHANGED <<state, provider, content>>
  <2>1. CloudOK'
    BY <1>t, <1>9 DEF CloudOK
  <2>2. Turns(u, "number") \/ Turns(u, "failed")
    BY <1>9 DEF Makes
  <2>3. UploadersOK' /\ HostOK' /\ CountsOK'
    BY <1>t, <2>2, TurnsTypes DEF UploadStep, Ended
  <2> QED
    BY <2>1, <2>3, BoxTypeParts
<1>10. CASE /\ Makes(u, "add_version", "provider") /\ state[target[u]] = "absent"
             /\ state' = [state EXCEPT ![target[u]] = "unreleased"] /\ UNCHANGED <<box, provider, content>>
  <2>1. CloudOK'
    BY <1>t, <1>v, <1>10 DEF CloudOK, Makes, BoxInv, Made, Naming
  <2>2. Turns(u, "provider") \/ Turns(u, "failed")
    BY <1>10 DEF Makes
  <2>3. UploadersOK' /\ HostOK' /\ CountsOK'
    BY <1>t, <2>2, TurnsTypes DEF UploadStep, Ended
  <2> QED
    BY <2>1, <2>3, BoxTypeParts
<1>11. CASE /\ Makes(u, "add_provider", "upload") /\ ~provider[target[u]]
             /\ provider' = [provider EXCEPT ![target[u]] = TRUE] /\ UNCHANGED <<box, state, content>>
  <2>1. CloudOK'
    BY <1>t, <1>v, <1>11 DEF CloudOK, Makes, BoxInv, Made, Naming
  <2>2. Turns(u, "upload") \/ Turns(u, "failed")
    BY <1>11 DEF Makes
  <2>3. UploadersOK' /\ HostOK' /\ CountsOK'
    BY <1>t, <2>2, TurnsTypes DEF UploadStep, Ended
  <2> QED
    BY <2>1, <2>3, BoxTypeParts
<1> QED
  BY <1>1, <1>2, <1>3, <1>4, <1>5, <1>6, <1>7, <1>8, <1>9, <1>10, <1>11 DEF UploadKind

\* A step of the uploader takes none of the versions that later runs need.
LEMMA UploadCounts ==
    ASSUME BoxInv, NEW u, Uploader = {u}, UploadKind(u)
    PROVE  Counted'
<1> USE BoxAssumption DEF cloud, host, boxCounts, Turns, Ended, Version
<1>1. CASE Starts(u)
  BY <1>1 DEF BoxInv, Starts, BoxTypeOK, Counted, Numbering, Naming
<1>2. CASE Gives(u)
  BY <1>2 DEF BoxInv, Gives, BoxTypeOK, Counted, Numbering, Naming
<1>3. CASE Numbers(u)
  <2>1. upc[u] = "number" /\ upc'[u] = "version" /\ UNCHANGED <<cloud, uploads>>
    BY <1>3 DEF BoxInv, BoxTypeOK, Numbers
  <2>2. target'[u] <= uploads
    BY <1>3, NumberIsNew DEF BoxInv, BoxTypeOK, Numbers
  <2> QED
    BY <2>1, <2>2 DEF BoxInv, Counted, Numbering, Naming
<1>4. CASE Uploads(u)
  BY <1>4 DEF BoxInv, Uploads, BoxTypeOK, Counted, Numbering, Naming
<1>5. CASE Releases(u)
  BY <1>5 DEF BoxInv, Releases, BoxTypeOK, Counted, Numbering, Naming
<1>6. CASE Finds(u, "box", box, "number", "add_box")
  BY <1>6 DEF BoxInv, Finds, BoxTypeOK, Counted, Numbering, Naming
<1>7. CASE Finds(u, "version", state[target[u]] # "absent", "provider", "add_version")
  BY <1>7 DEF BoxInv, Finds, BoxTypeOK, Counted, Numbering, Naming
<1>8. CASE Finds(u, "provider", provider[target[u]], "upload", "add_provider")
  BY <1>8 DEF BoxInv, Finds, BoxTypeOK, Counted, Numbering, Naming
<1>9. CASE Makes(u, "add_box", "number") /\ ~box /\ box' = TRUE /\ UNCHANGED <<state, provider, content>>
  BY <1>9 DEF BoxInv, Makes, BoxTypeOK, Counted, Numbering, Naming
<1>10. CASE /\ Makes(u, "add_version", "provider") /\ state[target[u]] = "absent"
             /\ state' = [state EXCEPT ![target[u]] = "unreleased"] /\ UNCHANGED <<box, provider, content>>
  BY <1>10 DEF BoxInv, Makes, BoxTypeOK, Counted, Numbering, Naming
<1>11. CASE /\ Makes(u, "add_provider", "upload") /\ ~provider[target[u]]
             /\ provider' = [provider EXCEPT ![target[u]] = TRUE] /\ UNCHANGED <<box, state, content>>
  BY <1>11 DEF BoxInv, Makes, BoxTypeOK, Counted, Numbering, Naming
<1> QED
  BY <1>1, <1>2, <1>3, <1>4, <1>5, <1>6, <1>7, <1>8, <1>9, <1>10, <1>11 DEF UploadKind

\* What it is past is there.
LEMMA UploadMakes ==
    ASSUME BoxInv, NEW u, Uploader = {u}, UploadKind(u)
    PROVE  Made'
<1> USE BoxAssumption DEF cloud, host, boxCounts, Turns, Ended, Version
<1>1. CASE Starts(u)
  BY <1>1 DEF BoxInv, Starts, BoxTypeOK, Made, Naming
<1>2. CASE Gives(u)
  BY <1>2 DEF BoxInv, Gives, BoxTypeOK, Made, Naming
<1>3. CASE Numbers(u)
  <2>1. upc[u] = "number" /\ upc'[u] = "version" /\ UNCHANGED cloud
    BY <1>3 DEF BoxInv, BoxTypeOK, Numbers
  <2> QED
    BY <2>1 DEF BoxInv, Made, Naming
<1>4. CASE Uploads(u)
  BY <1>4 DEF BoxInv, Uploads, BoxTypeOK, Made, Naming
<1>5. CASE Releases(u)
  BY <1>5 DEF BoxInv, Releases, BoxTypeOK, Made, Naming
<1>6. CASE Finds(u, "box", box, "number", "add_box")
  BY <1>6 DEF BoxInv, Finds, BoxTypeOK, Made, Naming
<1>7. CASE Finds(u, "version", state[target[u]] # "absent", "provider", "add_version")
  BY <1>7 DEF BoxInv, Finds, BoxTypeOK, Made, Naming
<1>8. CASE Finds(u, "provider", provider[target[u]], "upload", "add_provider")
  BY <1>8 DEF BoxInv, Finds, BoxTypeOK, Made, Naming
<1>9. CASE Makes(u, "add_box", "number") /\ ~box /\ box' = TRUE /\ UNCHANGED <<state, provider, content>>
  BY <1>9 DEF BoxInv, Makes, BoxTypeOK, Made, Naming
<1>10. CASE /\ Makes(u, "add_version", "provider") /\ state[target[u]] = "absent"
             /\ state' = [state EXCEPT ![target[u]] = "unreleased"] /\ UNCHANGED <<box, provider, content>>
  BY <1>10 DEF BoxInv, Makes, BoxTypeOK, Made, Naming
<1>11. CASE /\ Makes(u, "add_provider", "upload") /\ ~provider[target[u]]
             /\ provider' = [provider EXCEPT ![target[u]] = TRUE] /\ UNCHANGED <<box, state, content>>
  BY <1>11 DEF BoxInv, Makes, BoxTypeOK, Made, Naming
<1> QED
  BY <1>1, <1>2, <1>3, <1>4, <1>5, <1>6, <1>7, <1>8, <1>9, <1>10, <1>11 DEF UploadKind

\* What is released is older, or this very version.
LEMMA UploadNewer ==
    ASSUME BoxInv, NEW u, Uploader = {u}, UploadKind(u)
    PROVE  Newer'
<1> USE BoxAssumption DEF cloud, host, boxCounts, Turns, Ended, Version
<1>1. CASE Starts(u)
  BY <1>1 DEF BoxInv, Starts, BoxTypeOK, Newer, Naming
<1>2. CASE Gives(u)
  BY <1>2 DEF BoxInv, Gives, BoxTypeOK, Newer, Naming
<1>3. CASE Numbers(u)
  <2>1. upc[u] = "number" /\ upc'[u] = "version" /\ UNCHANGED cloud
    BY <1>3 DEF BoxInv, BoxTypeOK, Numbers
  <2>2. \A v \in Version : state[v] = "active" => v < target'[u]
    BY <1>3, NumberIsNew DEF BoxInv, BoxTypeOK, Numbers
  <2> QED
    BY <2>1, <2>2 DEF Newer
<1>4. CASE Uploads(u)
  BY <1>4 DEF BoxInv, Uploads, BoxTypeOK, Newer, Naming
<1>5. CASE Releases(u)
  BY <1>5 DEF BoxInv, Releases, BoxTypeOK, Newer, Naming
<1>6. CASE Finds(u, "box", box, "number", "add_box")
  BY <1>6 DEF BoxInv, Finds, BoxTypeOK, Newer, Naming
<1>7. CASE Finds(u, "version", state[target[u]] # "absent", "provider", "add_version")
  BY <1>7 DEF BoxInv, Finds, BoxTypeOK, Newer, Naming
<1>8. CASE Finds(u, "provider", provider[target[u]], "upload", "add_provider")
  BY <1>8 DEF BoxInv, Finds, BoxTypeOK, Newer, Naming
<1>9. CASE Makes(u, "add_box", "number") /\ ~box /\ box' = TRUE /\ UNCHANGED <<state, provider, content>>
  BY <1>9 DEF BoxInv, Makes, BoxTypeOK, Newer, Naming
<1>10. CASE /\ Makes(u, "add_version", "provider") /\ state[target[u]] = "absent"
             /\ state' = [state EXCEPT ![target[u]] = "unreleased"] /\ UNCHANGED <<box, provider, content>>
  BY <1>10 DEF BoxInv, Makes, BoxTypeOK, Newer, Naming
<1>11. CASE /\ Makes(u, "add_provider", "upload") /\ ~provider[target[u]]
             /\ provider' = [provider EXCEPT ![target[u]] = TRUE] /\ UNCHANGED <<box, state, content>>
  BY <1>11 DEF BoxInv, Makes, BoxTypeOK, Newer, Naming
<1> QED
  BY <1>1, <1>2, <1>3, <1>4, <1>5, <1>6, <1>7, <1>8, <1>9, <1>10, <1>11 DEF UploadKind

\* It creates what it has not found.
LEMMA UploadCleans ==
    ASSUME BoxInv, NEW u, Uploader = {u}, UploadKind(u)
    PROVE  CleanSoFar'
<1> USE BoxAssumption DEF cloud, host, boxCounts, Turns, Ended, Version
<1>1. CASE Starts(u)
  BY <1>1 DEF BoxInv, Starts, BoxTypeOK, CleanSoFar, Made, Naming
<1>2. CASE Gives(u)
  BY <1>2 DEF BoxInv, Gives, BoxTypeOK, CleanSoFar, Made, Naming
<1>3. CASE Numbers(u)
  BY <1>3 DEF BoxInv, Numbers, BoxTypeOK, CleanSoFar, Made, Naming
<1>4. CASE Uploads(u)
  BY <1>4 DEF BoxInv, Uploads, BoxTypeOK, CleanSoFar, Made, Naming
<1>5. CASE Releases(u)
  BY <1>5 DEF BoxInv, Releases, BoxTypeOK, CleanSoFar, Made, Naming
<1>6. CASE Finds(u, "box", box, "number", "add_box")
  BY <1>6 DEF BoxInv, Finds, BoxTypeOK, CleanSoFar, Made, Naming
<1>7. CASE Finds(u, "version", state[target[u]] # "absent", "provider", "add_version")
  BY <1>7 DEF BoxInv, Finds, BoxTypeOK, CleanSoFar, Made, Naming
<1>8. CASE Finds(u, "provider", provider[target[u]], "upload", "add_provider")
  BY <1>8 DEF BoxInv, Finds, BoxTypeOK, CleanSoFar, Made, Naming
<1>9. CASE Makes(u, "add_box", "number") /\ ~box /\ box' = TRUE /\ UNCHANGED <<state, provider, content>>
  BY <1>9 DEF BoxInv, Makes, BoxTypeOK, CleanSoFar, Made, Naming
<1>10. CASE /\ Makes(u, "add_version", "provider") /\ state[target[u]] = "absent"
             /\ state' = [state EXCEPT ![target[u]] = "unreleased"] /\ UNCHANGED <<box, provider, content>>
  BY <1>10 DEF BoxInv, Makes, BoxTypeOK, CleanSoFar, Made, Naming
<1>11. CASE /\ Makes(u, "add_provider", "upload") /\ ~provider[target[u]]
             /\ provider' = [provider EXCEPT ![target[u]] = TRUE] /\ UNCHANGED <<box, state, content>>
  BY <1>11 DEF BoxInv, Makes, BoxTypeOK, CleanSoFar, Made, Naming
<1> QED
  BY <1>1, <1>2, <1>3, <1>4, <1>5, <1>6, <1>7, <1>8, <1>9, <1>10, <1>11 DEF UploadKind

\* What the host has downloaded is still released.
LEMMA UploadServes ==
    ASSUME BoxInv, NEW u, Uploader = {u}, UploadKind(u)
    PROVE  Serving'
<1> USE BoxAssumption DEF cloud, host, boxCounts, Turns, Ended, Version
<1>1. CASE Starts(u)
  BY <1>1 DEF BoxInv, Starts, BoxTypeOK, Serving, Newer, Naming, Active
<1>2. CASE Gives(u)
  BY <1>2 DEF BoxInv, Gives, BoxTypeOK, Serving, Newer, Naming, Active
<1>3. CASE Numbers(u)
  BY <1>3 DEF BoxInv, Numbers, BoxTypeOK, Serving, Newer, Naming, Active
<1>4. CASE Uploads(u)
  BY <1>4 DEF BoxInv, Uploads, BoxTypeOK, Serving, Newer, Naming, Active
<1>5. CASE Releases(u)
  BY <1>5 DEF BoxInv, Releases, BoxTypeOK, Serving, Newer, Naming, Active
<1>6. CASE Finds(u, "box", box, "number", "add_box")
  BY <1>6 DEF BoxInv, Finds, BoxTypeOK, Serving, Newer, Naming, Active
<1>7. CASE Finds(u, "version", state[target[u]] # "absent", "provider", "add_version")
  BY <1>7 DEF BoxInv, Finds, BoxTypeOK, Serving, Newer, Naming, Active
<1>8. CASE Finds(u, "provider", provider[target[u]], "upload", "add_provider")
  BY <1>8 DEF BoxInv, Finds, BoxTypeOK, Serving, Newer, Naming, Active
<1>9. CASE Makes(u, "add_box", "number") /\ ~box /\ box' = TRUE /\ UNCHANGED <<state, provider, content>>
  BY <1>9 DEF BoxInv, Makes, BoxTypeOK, Serving, Newer, Naming, Active
<1>10. CASE /\ Makes(u, "add_version", "provider") /\ state[target[u]] = "absent"
             /\ state' = [state EXCEPT ![target[u]] = "unreleased"] /\ UNCHANGED <<box, provider, content>>
  BY <1>10 DEF BoxInv, Makes, BoxTypeOK, Serving, Newer, Naming, Active
<1>11. CASE /\ Makes(u, "add_provider", "upload") /\ ~provider[target[u]]
             /\ provider' = [provider EXCEPT ![target[u]] = TRUE] /\ UNCHANGED <<box, state, content>>
  BY <1>11 DEF BoxInv, Makes, BoxTypeOK, Serving, Newer, Naming, Active
<1> QED
  BY <1>1, <1>2, <1>3, <1>4, <1>5, <1>6, <1>7, <1>8, <1>9, <1>10, <1>11 DEF UploadKind

\* It changes nothing of a released version: the one it works on is not.
LEMMA UploadStays ==
    ASSUME BoxInv, NEW u, Uploader = {u}, UploadKind(u)
    PROVE  Stays
<1> USE BoxAssumption DEF cloud, host, boxCounts, Turns, Ended, Version
<1>1. CASE Starts(u)
  BY <1>1 DEF BoxInv, Starts, BoxTypeOK, Stays, Newer, Naming
<1>2. CASE Gives(u)
  BY <1>2 DEF BoxInv, Gives, BoxTypeOK, Stays, Newer, Naming
<1>3. CASE Numbers(u)
  BY <1>3 DEF BoxInv, Numbers, BoxTypeOK, Stays, Newer, Naming
<1>4. CASE Uploads(u)
  BY <1>4 DEF BoxInv, Uploads, BoxTypeOK, Stays, Newer, Naming
<1>5. CASE Releases(u)
  BY <1>5 DEF BoxInv, Releases, BoxTypeOK, Stays, Newer, Naming
<1>6. CASE Finds(u, "box", box, "number", "add_box")
  BY <1>6 DEF BoxInv, Finds, BoxTypeOK, Stays, Newer, Naming
<1>7. CASE Finds(u, "version", state[target[u]] # "absent", "provider", "add_version")
  BY <1>7 DEF BoxInv, Finds, BoxTypeOK, Stays, Newer, Naming
<1>8. CASE Finds(u, "provider", provider[target[u]], "upload", "add_provider")
  BY <1>8 DEF BoxInv, Finds, BoxTypeOK, Stays, Newer, Naming
<1>9. CASE Makes(u, "add_box", "number") /\ ~box /\ box' = TRUE /\ UNCHANGED <<state, provider, content>>
  BY <1>9 DEF BoxInv, Makes, BoxTypeOK, Stays, Newer, Naming
<1>10. CASE /\ Makes(u, "add_version", "provider") /\ state[target[u]] = "absent"
             /\ state' = [state EXCEPT ![target[u]] = "unreleased"] /\ UNCHANGED <<box, provider, content>>
  BY <1>10 DEF BoxInv, Makes, BoxTypeOK, Stays, Newer, Naming
<1>11. CASE /\ Makes(u, "add_provider", "upload") /\ ~provider[target[u]]
             /\ provider' = [provider EXCEPT ![target[u]] = TRUE] /\ UNCHANGED <<box, state, content>>
  BY <1>11 DEF BoxInv, Makes, BoxTypeOK, Stays, Newer, Naming
<1> QED
  BY <1>1, <1>2, <1>3, <1>4, <1>5, <1>6, <1>7, <1>8, <1>9, <1>10, <1>11 DEF UploadKind

\* If nothing has failed, its last call is the release of the whole box.
LEMMA UploadPublishes ==
    ASSUME BoxInv, NEW u, Uploader = {u}, UploadKind(u)
    PROVE  Publishes
<1> USE BoxAssumption DEF cloud, host, boxCounts, Turns, Ended, Version
<1>1. CASE Starts(u)
  BY <1>1 DEF BoxInv, Starts, BoxTypeOK, Publishes, Newer, Naming, CleanSoFar
<1>2. CASE Gives(u)
  BY <1>2 DEF BoxInv, Gives, BoxTypeOK, Publishes, Newer, Naming, CleanSoFar
<1>3. CASE Numbers(u)
  BY <1>3 DEF BoxInv, Numbers, BoxTypeOK, Publishes, Newer, Naming, CleanSoFar
<1>4. CASE Uploads(u)
  BY <1>4 DEF BoxInv, Uploads, BoxTypeOK, Publishes, Newer, Naming, CleanSoFar
<1>5. CASE Releases(u)
  BY <1>5 DEF BoxInv, Releases, BoxTypeOK, Publishes, Newer, Naming, CleanSoFar
<1>6. CASE Finds(u, "box", box, "number", "add_box")
  BY <1>6 DEF BoxInv, Finds, BoxTypeOK, Publishes, Newer, Naming, CleanSoFar
<1>7. CASE Finds(u, "version", state[target[u]] # "absent", "provider", "add_version")
  BY <1>7 DEF BoxInv, Finds, BoxTypeOK, Publishes, Newer, Naming, CleanSoFar
<1>8. CASE Finds(u, "provider", provider[target[u]], "upload", "add_provider")
  BY <1>8 DEF BoxInv, Finds, BoxTypeOK, Publishes, Newer, Naming, CleanSoFar
<1>9. CASE Makes(u, "add_box", "number") /\ ~box /\ box' = TRUE /\ UNCHANGED <<state, provider, content>>
  BY <1>9 DEF BoxInv, Makes, BoxTypeOK, Publishes, Newer, Naming, CleanSoFar
<1>10. CASE /\ Makes(u, "add_version", "provider") /\ state[target[u]] = "absent"
             /\ state' = [state EXCEPT ![target[u]] = "unreleased"] /\ UNCHANGED <<box, provider, content>>
  BY <1>10 DEF BoxInv, Makes, BoxTypeOK, Publishes, Newer, Naming, CleanSoFar
<1>11. CASE /\ Makes(u, "add_provider", "upload") /\ ~provider[target[u]]
             /\ provider' = [provider EXCEPT ![target[u]] = TRUE] /\ UNCHANGED <<box, state, content>>
  BY <1>11 DEF BoxInv, Makes, BoxTypeOK, Publishes, Newer, Naming, CleanSoFar
<1> QED
  BY <1>1, <1>2, <1>3, <1>4, <1>5, <1>6, <1>7, <1>8, <1>9, <1>10, <1>11 DEF UploadKind

-----------------------------------------------------------------------------
(* The host.                                                               *)

\* A run of the script ends with the whole box if nothing has failed in it.
CopyServes ==
    cpc # "idle" /\ cpc' = "idle" /\ cclean' /\ wanted \in Active /\ content[wanted] = "whole"
        => served'[wanted] = "whole"

\* A step of the script keeps the types.
LEMMA CopyTypes ==
    ASSUME BoxInv, CopyNext
    PROVE  BoxTypeOK'
<1> USE DEF CopyGoto, CopyFails, Fault, boxCounts
<1>t. BoxTypeOK /\ CloudOK /\ UploadersOK /\ HostOK /\ CountsOK
  BY BoxTypeParts DEF BoxInv
<1>w. content[wanted] \in Content /\ temp[wanted] \in Content /\ {"none", "part", "whole"} = Content
  BY <1>t DEF CloudOK, HostOK, Content
<1>1. UNCHANGED <<cloud, uploaders>>
  BY DEF CopyNext, StartCopy, FetchMetadata, Curl, Move, EndMove, KillCopy
<1>2. CloudOK' /\ UploadersOK'
  BY <1>t, <1>1 DEF CloudOK, UploadersOK, cloud, uploaders
<1>3. CountsOK'
  <2>1. \/ UNCHANGED boxCounts \/ Fault
        \/ copies < MaxCopies /\ copies' = copies + 1 /\ UNCHANGED <<uploads, faults>>
    BY DEF CopyNext, StartCopy, FetchMetadata, Curl, Move, EndMove, KillCopy
  <2> QED
    BY <1>t, <2>1, BoxAssumption DEF CountsOK
<1>4. HostOK'
  <2>1. CASE \E v \in Version : StartCopy(v)
    BY <1>t, <2>1 DEF HostOK, StartCopy
  <2>2. CASE FetchMetadata
    BY <1>t, <2>2 DEF HostOK, FetchMetadata
  <2>3. CASE Curl
    BY <1>t, <1>w, <2>3 DEF HostOK, Curl, CurlStops
  <2>4. CASE Move
    BY <1>t, <1>w, <2>4 DEF HostOK, Move
  <2>5. CASE EndMove
    BY <1>t, <1>w, <2>5 DEF HostOK, EndMove
  <2>6. CASE KillCopy
    BY <1>t, <1>w, <2>6 DEF HostOK, KillCopy, CurlStops
  <2> QED
    BY <2>1, <2>2, <2>3, <2>4, <2>5, <2>6 DEF CopyNext
<1> QED
  BY <1>2, <1>3, <1>4, BoxTypeParts

\* It serves what is released, and all of it.
LEMMA CopyServing ==
    ASSUME BoxInv, CopyNext
    PROVE  Serving' /\ CopyServes
<1> USE DEF CopyGoto, CopyFails, Fault, boxCounts, cloud, CopyServes, Active
<1>t. CloudOK /\ HostOK /\ Serving
  BY BoxTypeParts DEF BoxInv
<1>2. CASE \E v \in Version : StartCopy(v)
  BY <1>t, <1>2 DEF Serving, StartCopy
<1>3. CASE FetchMetadata
  BY <1>t, <1>3 DEF Serving, FetchMetadata, Copiable, CloudOK, HostOK
<1>4. CASE Curl
  <2>1. wanted \in Active /\ temp'[wanted] \in {temp[wanted], content[wanted], "part"}
    BY <1>t, <1>4 DEF Serving, Curl, CurlStops, HostOK
  <2>2. \A v \in Version : v # wanted => temp'[v] = temp[v]
    BY <1>t, <1>4 DEF Curl, CurlStops, HostOK
  <2>3. cclean' /\ content[wanted] = "whole" => temp'[wanted] = "whole"
    BY <1>t, <1>4 DEF Curl, CurlStops, HostOK
  <2> QED
    BY <1>t, <1>4, <2>1, <2>2, <2>3 DEF Serving, Curl
<1>5. CASE Move
  BY <1>t, <1>5 DEF Serving, Move, HostOK
<1>6. CASE EndMove
  BY <1>t, <1>6 DEF Serving, EndMove, HostOK
<1>7. CASE KillCopy
  <2>1. \A v \in Version : temp'[v] # temp[v] => v = wanted /\ wanted \in Active
    BY <1>t, <1>7 DEF Serving, KillCopy, CurlStops, HostOK
  <2> QED
    BY <1>t, <1>7, <2>1 DEF Serving, KillCopy
<1> QED
  BY <1>2, <1>3, <1>4, <1>5, <1>6, <1>7 DEF CopyNext

\* A step of the script keeps the invariant, and leaves the cloud to the uploader.
LEMMA CopyKeeps ==
    ASSUME BoxInv, CopyNext
    PROVE  BoxInv' /\ Stays /\ Publishes /\ CopyServes
<1>1. UNCHANGED <<cloud, uploaders, uploads>>
  BY DEF CopyNext, StartCopy, FetchMetadata, Curl, Move, EndMove, KillCopy,
         CopyGoto, CopyFails, Fault, boxCounts
<1>2. Counted' /\ Made' /\ Newer' /\ CleanSoFar'
  BY <1>1 DEF BoxInv, Counted, Made, Newer, CleanSoFar, Numbering, Naming, cloud, uploaders
<1>3. Stays /\ Publishes
  BY <1>1 DEF Stays, Publishes, cloud, uploaders
<1> QED
  BY <1>2, <1>3, CopyTypes, CopyServing DEF BoxInv

\* A step of the uploader keeps the invariant, and leaves the script where it is.
LEMMA UploadKeeps ==
    ASSUME BoxInv, NEW u, Uploader = {u}, UploadNext(u)
    PROVE  BoxInv' /\ Stays /\ Publishes /\ UNCHANGED host
<1>1. UploadKind(u)
  BY UploadKinds
<1>2. BoxInv'
  BY <1>1, UploadTypes, UploadCounts, UploadMakes, UploadNewer, UploadCleans, UploadServes DEF
     BoxInv
<1>3. UNCHANGED host
  BY <1>1 DEF UploadKind, Starts, Gives, Numbers, Uploads, Releases, Finds, Makes, Turns
<1> QED
  BY <1>1, <1>2, <1>3, UploadStays, UploadPublishes

\* A step that leaves the box alone, but for what has failed so far.
LEMMA BoxStays ==
    ASSUME BoxInv, UNCHANGED <<cloud, uploaders, host>>, UNCHANGED boxCounts \/ Fault
    PROVE  BoxInv' /\ Stays /\ Publishes
<1>1. BoxTypeOK'
  BY BoxTypeParts, BoxAssumption DEF BoxInv, CloudOK, UploadersOK, HostOK, CountsOK, cloud,
     uploaders,
                                     host, boxCounts, Fault
<1>2. Counted' /\ Made' /\ Newer' /\ CleanSoFar' /\ Serving'
  BY DEF BoxInv, Counted, Made, Newer, CleanSoFar, Serving, Numbering, Naming, Active, cloud,
     uploaders,
         host, boxCounts, Fault
<1> QED
  BY <1>1, <1>2 DEF BoxInv, Stays, Publishes, cloud, uploaders

-----------------------------------------------------------------------------
(* The box: the theorems.                                                  *)

\* What a step of the system does to the box.
LEMMA BoxStep ==
    ASSUME OneUploader, BoxInv, [BoxNext]_boxVars
    PROVE  BoxInv' /\ Stays /\ Publishes /\ CopyServes
<1>1. CASE CopyNext
  BY <1>1, CopyKeeps
<1>2. ASSUME NEW u \in Uploader, UploadNext(u)
      PROVE  BoxInv' /\ Stays /\ Publishes /\ CopyServes
  <2>1. Uploader = {u}
    BY DEF OneUploader
  <2> QED
    BY <1>2, <2>1, UploadKeeps DEF CopyServes, host
<1>3. CASE UNCHANGED boxVars
  BY <1>3, BoxStays DEF boxVars, CopyServes, host
<1> QED
  BY <1>1, <1>2, <1>3 DEF BoxNext

\* The invariant, for any number of runs and faults, if one process runs box_uploader at
\* a time: with two, a run can be given a number that another has released since.
THEOREM BoxInvariant == ASSUME OneUploader PROVE BoxSpec => []BoxInv
<1>1. BoxInv /\ [BoxNext]_boxVars => BoxInv'
  BY BoxStep
<1> QED
  BY InitBox, <1>1, PTL DEF BoxSpec

\* The types of the box.
THEOREM BoxTyped == ASSUME OneUploader PROVE BoxSpec => []BoxTypeOK
<1>1. BoxInv => BoxTypeOK
  BY DEF BoxInv
<1> QED
  BY BoxInvariant, <1>1, PTL

\* What the host downloads and serves is released, for any number of uploaders.
ServingReleased ==
    /\ state \in [Version -> {"absent", "unreleased", "active"}]
    /\ content \in [Version -> Content]
    /\ HostOK
    /\ cpc \in {"curl", "move", "copy"} => wanted \in Active
    /\ \A v \in Version : temp[v] # "none" \/ served[v] # "none" => v \in Active

\* No uploader takes a release back, whatever the others do.
LEMMA UploadReleases ==
    ASSUME ServingReleased, NEW u \in Uploader, UploadNext(u)
    PROVE  ServingReleased'
<1> USE DEF cloud, host, Answered, Unanswered, Refused, UploadGoto, ServingReleased, Content
<1>1. UNCHANGED host
  BY DEF UploadNext, StartUpload, LookupBox, AddBox, GetNextVersion, LookupVersion,
     AddVersion, LookupProvider,
         AddProvider, Upload, Release, KillUpload, Lookup, Create
<1>2. \/ UNCHANGED state
      \/ state' = [state EXCEPT ![target[u]] = "active"]
      \/ state[target[u]] = "absent" /\ state' = [state EXCEPT ![target[u]] = "unreleased"]
  BY DEF UploadNext, StartUpload, LookupBox, AddBox, GetNextVersion, LookupVersion,
     AddVersion, LookupProvider,
         AddProvider, Upload, Release, KillUpload, Lookup, Create
<1>3. UNCHANGED content \/ \E c \in {content[target[u]], "part", "whole"} :
                               content' = [content EXCEPT ![target[u]] = c]
  BY DEF UploadNext, StartUpload, LookupBox, AddBox, GetNextVersion, LookupVersion,
     AddVersion, LookupProvider,
         AddProvider, Upload, Release, KillUpload, Lookup, Create, SomeArrives
<1>4. state' \in [Version -> {"absent", "unreleased", "active"}] /\ Active \subseteq Active'
  BY <1>2 DEF Active
<1>5. content' \in [Version -> Content]
  BY <1>3
<1> QED
  BY <1>1, <1>4, <1>5 DEF HostOK

\* The script downloads and serves what is released.
LEMMA CopyReleases ==
    ASSUME ServingReleased, CopyNext
    PROVE  ServingReleased'
<1> USE DEF CopyGoto, CopyFails, cloud, Active, ServingReleased, HostOK
<1>w. content[wanted] \in Content /\ temp[wanted] \in Content /\ {"none", "part", "whole"} = Content
  BY DEF Content
<1>1. CASE \E v \in Version : StartCopy(v)
  BY <1>1 DEF StartCopy
<1>2. CASE FetchMetadata
  BY <1>2 DEF FetchMetadata, Copiable
<1>3. CASE Curl
  <2>1. \E c \in Content : temp' = [temp EXCEPT ![wanted] = c]
    BY <1>w, <1>3 DEF Curl, CurlStops
  <2> QED
    BY <1>3, <2>1 DEF Curl
<1>4. CASE Move
  BY <1>w, <1>4 DEF Move
<1>5. CASE EndMove
  BY <1>w, <1>5 DEF EndMove
<1>6. CASE KillCopy
  <2>1. UNCHANGED temp \/ (wanted \in Active /\ \E c \in Content : temp' = [temp EXCEPT ![wanted] = c])
    BY <1>w, <1>6 DEF KillCopy, CurlStops
  <2> QED
    BY <1>6, <2>1 DEF KillCopy
<1> QED
  BY <1>1, <1>2, <1>3, <1>4, <1>5, <1>6 DEF CopyNext

\* The host serves nothing that is not released, however many processes upload at once.
THEOREM ReleasedServed == BoxSpec => []ServedIsReleased
<1>1. BoxInit => ServingReleased
  <2>1. 0 \in Version
    BY BoxAssumption DEF Version
  <2> QED
    BY <2>1 DEF BoxInit, ServingReleased, HostOK, Content
<1>2. ServingReleased /\ [BoxNext]_boxVars => ServingReleased'
  <2>1. ServingReleased /\ UNCHANGED boxVars => ServingReleased'
    BY DEF ServingReleased, HostOK, Active, boxVars, cloud, host
  <2> QED
    BY <2>1, UploadReleases, CopyReleases DEF BoxNext
<1>3. ServingReleased => ServedIsReleased
  BY DEF ServingReleased, ServedIsReleased
<1> QED
  BY <1>1, <1>2, <1>3, PTL DEF BoxSpec

\* What is released stays as it is.
THEOREM ReleasedStays == ASSUME OneUploader PROVE BoxSpec => ActiveStays
<1>1. BoxInv /\ [BoxNext]_boxVars => [Stays]_boxVars
  BY BoxStep
<1> QED
  BY BoxInvariant, <1>1, PTL DEF BoxSpec, ActiveStays, Stays

\* A run of box_uploader in which nothing fails releases a version of its own.
THEOREM CleanRunPublishes == ASSUME OneUploader PROVE BoxSpec => CleanUploadPublishes
<1>1. BoxInv /\ [BoxNext]_boxVars => [Publishes]_boxVars
  BY BoxStep
<1> QED
  BY BoxInvariant, <1>1, PTL DEF BoxSpec, CleanUploadPublishes, Publishes

\* A run of cache-vagrant-box in which nothing fails leaves the whole box.
THEOREM CleanRunServes == ASSUME OneUploader PROVE BoxSpec => CleanCopyServes
<1>1. BoxInv /\ [BoxNext]_boxVars => [CopyServes]_boxVars
  BY BoxStep
<1> QED
  BY BoxInvariant, <1>1, PTL DEF BoxSpec, CleanCopyServes, CopyServes

-----------------------------------------------------------------------------
(* The pull requests: the invariant.                                       *)

BeforeCheckout == {"build", "building", "close", "checkout"}
OnBase == {"pull", "push_base", "newest", "bump", "branch"}
OnBranch == {"unlink", "symlink", "add", "commit", "push", "create", "tidy"}
AfterBuild == {"close", "checkout"} \cup OnBase \cup OnBranch

\* What the run of the job is at, whatever was in the clone when it started.
Placed ==
    /\ pc \in {"build", "building", "newest", "bump"} => job = Template
    /\ pc \in {"unlink", "symlink"} => job \in Nightly
    /\ pc = "add" /\ job \in Nightly => worktree.config = job
    /\ pc \in OnBase => head = Base
    /\ pc \in OnBranch => head = job /\ parent[job] = local[Base]
    /\ pc \in {"checkout"} \cup OnBase \cup {"unlink", "symlink", "add", "commit", "push"} =>
         fork[job] = NoTree
    /\ pc \in {"create", "tidy"} => fork[job] = local[job]

\* Upstream the configuration is never that of a nightly run.
Gated == upstream.config = Gating /\ local[Base].config = Gating

\* What the branch of the template names is released; when the next run is about to delete
\* the branch, it has released a newer version.
Bumped ==
    /\ fork[Template] # NoTree => fork[Template].defs \in Active
    /\ job = Template /\ pc \in AfterBuild => Active # {}
    /\ job = Template /\ pc = "close" /\ fork[Template] # NoTree =>
         \E v \in Active : v > fork[Template].defs
    /\ job = Template =>
         /\ pc \in {"bump", "branch"} \cup OnBranch => latestVer \in Active
         /\ pc \in {"branch", "add"} => worktree.defs = latestVer
         /\ pc = "commit" => index.defs = latestVer
         /\ pc = "push" => local[job].defs = latestVer

\* The tree that the run of the job commits.
Changed ==
    IF job = Template THEN [parent[job] EXCEPT !.defs = latestVer]
                      ELSE [parent[job] EXCEPT !.config = job]

\* What the clone holds, step by step, when it was orderly at the start.
InOrder ==
    orderly =>
        /\ pc \in BeforeCheckout => Orderly
        /\ pc \in OnBase => index = local[Base] /\ worktree.config # Missing
        /\ pc \in OnBase /\ ~(pc = "branch" /\ job = Template) => worktree.defs = index.defs
        /\ pc \in {"unlink", "symlink", "add", "commit"} => local[job] = parent[job]
        /\ pc \in {"unlink", "symlink", "add"} => index = local[job]
        /\ pc \in {"unlink", "symlink", "add"} /\ job \in Nightly => worktree.defs = index.defs
        /\ pc = "unlink" => worktree.config # Missing
        /\ pc \in {"commit", "push", "create", "tidy"} =>
             index = Changed /\ worktree.defs = index.defs
             /\ (job \in Nightly => worktree.config = job)
        /\ pc \in {"push", "create", "tidy"} => local[job] = index

\* A run in which nothing has failed.
SoundSoFar == sound => orderly /\ (pc = "create" => ~opened[job])

PRInv == TypeOK /\ BoxInv /\ Placed /\ Gated /\ Bumped /\ InOrder /\ SoundSoFar

-----------------------------------------------------------------------------
(* Trees.                                                                  *)

\* The files: the configuration may be missing.
WorkTree == [config : Nightly \cup {Gating, Missing}, defs : Version]

\* A tree is its two files.
LEMMA SameFiles ==
    ASSUME NEW r \in WorkTree, NEW s \in WorkTree, r.config = s.config, r.defs = s.defs
    PROVE  r = s
  BY DEF WorkTree

\* A tree holds the configuration, is not the absent one, and can be the files.
LEMMA TreeFiles ==
    ASSUME NEW t \in Tree
    PROVE  /\ t \in WorkTree /\ t # NoTree
           /\ t.config \in Nightly \cup {Gating} /\ t.config # Missing /\ t.defs \in Version
  BY JobAssumption DEF Tree, WorkTree, NoTree, Missing, Gating

\* A change of one file makes another tree, or the same one.
LEMMA OtherFile ==
    ASSUME NEW t \in Tree
    PROVE  /\ \A v \in Version : /\ [t EXCEPT !.defs = v] \in Tree
                                 /\ [t EXCEPT !.defs = v].config = t.config
                                 /\ [t EXCEPT !.defs = v].defs = v
           /\ \A c \in Nightly : /\ [t EXCEPT !.config = c] \in Tree
                                 /\ [t EXCEPT !.config = c].config = c
                                 /\ [t EXCEPT !.config = c].defs = t.defs
  BY DEF Tree

\* What git checkout makes of the index or of the files.
LEMMA CarriedFiles ==
    ASSUME NEW files \in WorkTree, NEW old \in Tree, NEW new \in Tree, index \in Tree
    PROVE  /\ Carried(files, old, new) \in WorkTree
           /\ files \in Tree => Carried(files, old, new) \in Tree
           /\ Carried(files, old, new).config =
                IF old.config = new.config \/ index.config = new.config THEN files.config ELSE new.config
           /\ Carried(files, old, new).defs =
                IF old.defs = new.defs \/ index.defs = new.defs THEN files.defs ELSE new.defs
  BY DEF Carried, File, Tree, WorkTree

\* From an index that is in a commit, git checkout goes to the new tree.
LEMMA Switched ==
    ASSUME index \in Tree, worktree \in WorkTree, NEW new \in Tree, Switch(index, new),
           worktree.defs = index.defs, worktree.config # Missing
    PROVE  index' = new /\ worktree'.defs = new.defs /\ worktree'.config # Missing
<1>1. index \in WorkTree /\ new \in WorkTree /\ new.config # Missing
  BY TreeFiles
<1>2. index' = Carried(index, index, new) /\ worktree' = Carried(worktree, index, new)
  BY DEF Switch
<1>3. index'.config = new.config /\ index'.defs = new.defs /\ index' \in WorkTree
  BY <1>1, <1>2, CarriedFiles
<1>4. index' = new
  BY <1>1, <1>3, SameFiles
<1>5. worktree'.defs = new.defs /\ worktree'.config # Missing
  BY <1>1, <1>2, CarriedFiles
<1> QED
  BY <1>4, <1>5

\* git checkout does not refuse if the changed file is in both trees the same.
LEMMA SwitchAllowed ==
    ASSUME NEW new, worktree.defs = index.defs,
           worktree.config = index.config \/ index.config = new.config
    PROVE  CanSwitch(index, new)
  BY DEF CanSwitch, File

-----------------------------------------------------------------------------
(* The pull requests: a step and the box.                                  *)

\* Every step but those of the playbook leaves the box alone.
LEMMA BoxLeft ==
    ASSUME Next
    PROVE  \/ UNCHANGED <<cloud, uploaders, host>> /\ (UNCHANGED boxCounts \/ Fault)
           \/ Build \/ Building
<1> USE DEF Call, Goto, Raises, Fails, boxVars, vars, prVars
<1>1. CASE \E j \in Job : StartJob(j)
  BY <1>1 DEF StartJob
<1>2. CASE Stop
  BY <1>2 DEF Stop
<1>3. CASE CloseOlderPR
  BY <1>3 DEF CloseOlderPR
<1>4. CASE FetchAndCheckout
  BY <1>4 DEF FetchAndCheckout
<1>5. CASE Pull
  BY <1>5 DEF Pull
<1>6. CASE PushBase
  BY <1>6 DEF PushBase
<1>7. CASE GetNewestTemplVer
  BY <1>7 DEF GetNewestTemplVer
<1>8. CASE BumpPrciVersion
  BY <1>8 DEF BumpPrciVersion
<1>13. CASE NewBranch \/ Symlink \/ Add \/ Merge \/ BumpByHand
  BY <1>13 DEF NewBranch, Symlink, Add, Merge, BumpByHand
<1>9. CASE Unlink \/ Commit
  BY <1>9 DEF Unlink, Commit
<1>10. CASE Push
  BY <1>10 DEF Push
<1>11. CASE CreatePR
  BY <1>11 DEF CreatePR
<1>12. CASE DeleteLocalBranch
  BY <1>12 DEF DeleteLocalBranch
<1> QED
  BY <1>1, <1>2, <1>3, <1>4, <1>5, <1>6, <1>7, <1>8, <1>9, <1>10, <1>11, <1>12,
     <1>13 DEF Next, RunNext

-----------------------------------------------------------------------------
(* The pull requests: the box, and the types.                              *)

\* What the playbook does to the box is what box_uploader does: the released versions stay,
\* and only the end of a run adds one, which is newer.
LEMMA BoxMoves ==
    ASSUME PRInv, [Next]_vars
    PROVE  /\ BoxInv' /\ Stays /\ Publishes
           /\ Active \subseteq Active' /\ Active' \subseteq Version
<1>1. Uploader = {Template}
  BY JobAssumption
<1>2. ASSUME UNCHANGED <<cloud, uploaders, host>>, UNCHANGED boxCounts \/ Fault
      PROVE  BoxInv' /\ Stays /\ Publishes
  BY <1>2, BoxStays DEF PRInv
<1>3. ASSUME Build \/ Building
      PROVE  BoxInv' /\ Stays /\ Publishes
  <2>1. UploadNext(Template) \/ (UNCHANGED <<cloud, uploaders, host>> /\ Fault)
    BY <1>3 DEF Build, Building, Fails, UploadNext
  <2> QED
    BY <1>1, <1>2, <2>1, UploadKeeps DEF PRInv
<1>4. ASSUME UNCHANGED vars
      PROVE  BoxInv' /\ Stays /\ Publishes
  BY <1>2, <1>4 DEF vars, boxVars
<1>5. BoxInv' /\ Stays /\ Publishes
  BY <1>2, <1>3, <1>4, BoxLeft
<1> QED
  BY <1>5 DEF Stays, Active

\* The types, by where the state is kept.
GithubOK ==
    /\ upstream \in Tree
    /\ fork \in [Branch -> Tree \cup {NoTree}]
    /\ opened \in [Job -> BOOLEAN]
    /\ \A j \in Job : opened[j] => fork[j] # NoTree

\* The clone.
CloneOK ==
    /\ local \in [Branch -> Tree \cup {NoTree}]
    /\ local[Base] # NoTree
    /\ parent \in [Job -> Tree]
    /\ head \in Branch
    /\ local[head] # NoTree
    /\ index \in Tree
    /\ worktree \in WorkTree

\* The run.
RunOK ==
    /\ pc \in Step \cup Ended
    /\ job \in Job
    /\ attempts \in 0 .. MaxAttempts - 1
    /\ latestVer \in Version
    /\ orderly \in BOOLEAN
    /\ sound \in BOOLEAN

\* The playbook runs as long as box_uploader does.
Together == pc = "building" <=> upc[Template] \notin Ended

\* The type invariant in its parts, in a state and in the next one.
LEMMA TypeParts ==
    /\ TypeOK <=> BoxTypeOK /\ GithubOK /\ CloneOK /\ RunOK /\ Together
    /\ TypeOK' <=> BoxTypeOK' /\ GithubOK' /\ CloneOK' /\ RunOK' /\ Together'
  BY DEF TypeOK, GithubOK, CloneOK, RunOK, Together, WorkTree

\* Branches and jobs, and their trees.
LEMMA Branches ==
    ASSUME TypeOK
    PROVE  /\ Base \in Branch /\ Base \notin Job /\ Template \in Job /\ Template \notin Nightly
           /\ job \in Job /\ job \in Branch /\ job # Base /\ (job \in Nightly <=> job # Template)
           /\ local[Base] \in Tree /\ local[head] \in Tree /\ upstream \in Tree
           /\ \A j \in Job : parent[j] \in Tree
           /\ \A t \in Tree : t \in WorkTree /\ t # NoTree
<1>1. /\ Base \in Branch /\ Base \notin Job /\ Template \in Job /\ Template \notin Nightly
      /\ job \in Job /\ job \in Branch /\ job # Base /\ (job \in Nightly <=> job # Template)
  BY JobAssumption, TypeParts DEF RunOK, Branch, Job
<1>2. local[Base] \in Tree /\ local[head] \in Tree /\ upstream \in Tree
      /\ \A j \in Job : parent[j] \in Tree
  BY <1>1, TypeParts DEF GithubOK, CloneOK
<1> QED
  BY <1>1, <1>2, TreeFiles

\* What is on GitHub keeps its type.
LEMMA GithubStep ==
    ASSUME PRInv, Next
    PROVE  GithubOK'
<1> USE DEF Call, Goto, Raises, Fails
<1>t. TypeOK
  BY DEF PRInv
<1>p. GithubOK /\ CloneOK /\ RunOK /\ Together /\ BoxTypeOK
  BY <1>t, TypeParts
<1>b. /\ Base \in Branch /\ Base \notin Job /\ Template \in Job /\ Template \in Branch
      /\ job \in Job /\ job \in Branch /\ job # Base /\ (job \in Nightly <=> job # Template)
      /\ local[Base] \in Tree /\ local[head] \in Tree /\ upstream \in Tree
      /\ \A t \in Tree : t \in WorkTree /\ t # NoTree
  BY <1>t, Branches DEF Branch
<1>m. MaxAttempts \in Nat \ {0}
  BY JobAssumption
<1>0. CASE UNCHANGED github
  BY <1>p, <1>0 DEF GithubOK, github
<1>1. CASE CloseOlderPR
  <2>1. /\ UNCHANGED upstream
        /\ \/ UNCHANGED <<fork, opened>>
           \/ fork' = [fork EXCEPT ![job] = NoTree] /\ opened' = [opened EXCEPT ![job] = FALSE]
    BY <1>1 DEF CloseOlderPR
  <2>2. fork' \in [Branch -> Tree \cup {NoTree}] /\ opened' \in [Job -> BOOLEAN]
    BY <1>p, <2>1, <1>b DEF GithubOK
  <2>3. \A j \in Job : opened'[j] => fork'[j] # NoTree
    BY <1>p, <2>1, <1>b DEF GithubOK, Branch
  <2> QED
    BY <1>p, <2>1, <2>2, <2>3 DEF GithubOK
<1>2. CASE PushBase
  <2>1. /\ UNCHANGED <<upstream, opened>>
        /\ UNCHANGED fork \/ fork' = [fork EXCEPT ![Base] = local[Base]]
    BY <1>2 DEF PushBase
  <2>2. fork' \in [Branch -> Tree \cup {NoTree}] /\ opened' \in [Job -> BOOLEAN]
    BY <1>p, <2>1, <1>b DEF GithubOK
  <2>3. \A j \in Job : opened'[j] => fork'[j] # NoTree
    BY <1>p, <2>1, <1>b DEF GithubOK, Branch
  <2> QED
    BY <1>p, <2>1, <2>2, <2>3 DEF GithubOK
<1>3. CASE Push
  <2>1. local[job] \in Tree \cup {NoTree} /\ local[job] # NoTree
    BY <1>p, <1>b, <1>3 DEF PRInv, Placed, OnBranch, CloneOK, Push
  <2>2. /\ UNCHANGED <<upstream, opened>>
        /\ UNCHANGED fork \/ fork' = [fork EXCEPT ![job] = local[job]]
    BY <1>3 DEF Push
  <2>3. fork' \in [Branch -> Tree \cup {NoTree}]
    BY <1>p, <2>1, <2>2, <1>b DEF GithubOK
  <2>4. \A j \in Job : opened'[j] => fork'[j] # NoTree
    BY <1>p, <2>1, <2>2, <1>b DEF GithubOK, Branch
  <2> QED
    BY <1>p, <2>2, <2>3, <2>4 DEF GithubOK
<1>4. CASE CreatePR
  <2>1. fork[job] # NoTree
    BY <1>p, <1>b, <1>4 DEF PRInv, Placed, OnBranch, CloneOK, CreatePR
  <2>2. opened' \in {opened, [opened EXCEPT ![job] = TRUE]} /\ UNCHANGED <<upstream, fork>>
    BY <1>4 DEF CreatePR, OpenPR
  <2> QED
    BY <1>p, <2>1, <2>2, <1>b DEF GithubOK
<1>5. CASE Merge
  <2>1. fork[Template] \in Tree /\ upstream' = fork[Template]
    BY <1>p, <1>b, <1>5 DEF GithubOK, Merge
  <2>2. UNCHANGED fork /\ opened' = [opened EXCEPT ![Template] = FALSE]
    BY <1>5 DEF Merge
  <2> QED
    BY <1>p, <2>1, <2>2, <1>b DEF GithubOK
<1>6. CASE BumpByHand
  <2>1. UNCHANGED <<fork, opened>> /\ upstream' \in Tree
    BY <1>p, <1>6, OtherFile DEF GithubOK, BumpByHand, Active
  <2> QED
    BY <1>p, <2>1 DEF GithubOK
<1> QED
  BY <1>0, <1>1, <1>2, <1>3, <1>4, <1>5, <1>6 DEF Next, RunNext, github, boxVars, StartJob,
     Stop, Build, Building, FetchAndCheckout, Pull, GetNewestTemplVer, BumpPrciVersion,
     NewBranch, Unlink, Symlink, Add, Commit, DeleteLocalBranch, clone, run

\* What is in the clone keeps its type.
LEMMA CloneStep ==
    ASSUME PRInv, Next
    PROVE  CloneOK'
<1> USE DEF Call, Goto, Raises, Fails
<1>t. TypeOK
  BY DEF PRInv
<1>p. GithubOK /\ CloneOK /\ RunOK /\ Together /\ BoxTypeOK
  BY <1>t, TypeParts
<1>b. /\ Base \in Branch /\ Base \notin Job /\ Template \in Job /\ Template \in Branch
      /\ job \in Job /\ job \in Branch /\ job # Base /\ (job \in Nightly <=> job # Template)
      /\ local[Base] \in Tree /\ local[head] \in Tree /\ upstream \in Tree
      /\ \A t \in Tree : t \in WorkTree /\ t # NoTree
  BY <1>t, Branches DEF Branch
<1>m. MaxAttempts \in Nat \ {0}
  BY JobAssumption
<1>0. CASE UNCHANGED clone
  BY <1>p, <1>0 DEF CloneOK, clone
<1>1. CASE FetchAndCheckout
  <2>1. /\ UNCHANGED <<local, parent>>
        /\ \/ UNCHANGED <<head, index, worktree>>
           \/ /\ head' = Base /\ index' = Carried(index, local[head], local[Base])
              /\ worktree' = Carried(worktree, local[head], local[Base])
    BY <1>1 DEF FetchAndCheckout, Checkout, Switch
  <2>2. index' \in Tree /\ worktree' \in WorkTree
    BY <1>p, <1>b, <2>1, CarriedFiles DEF CloneOK
  <2> QED
    BY <1>p, <1>b, <2>1, <2>2 DEF CloneOK
<1>2. CASE Pull
  <2>1. /\ UNCHANGED <<head, parent>>
        /\ \/ UNCHANGED <<local, index, worktree>>
           \/ /\ local' = [local EXCEPT ![Base] = upstream]
              /\ index' = Carried(index, local[Base], upstream)
              /\ worktree' = Carried(worktree, local[Base], upstream)
    BY <1>2 DEF Pull, Switch
  <2>2. index' \in Tree /\ worktree' \in WorkTree
    BY <1>p, <1>b, <2>1, CarriedFiles DEF CloneOK
  <2> QED
    BY <1>p, <1>b, <2>1, <2>2 DEF CloneOK
<1>3. CASE BumpPrciVersion
  <2>1. /\ UNCHANGED <<local, parent, head, index>>
        /\ worktree' \in {worktree, [worktree EXCEPT !.defs = latestVer]}
    BY <1>3 DEF BumpPrciVersion
  <2> QED
    BY <1>p, <2>1, <1>b DEF CloneOK, RunOK, WorkTree
<1>4. CASE NewBranch
  BY <1>p, <1>b, <1>4 DEF CloneOK, NewBranch
<1>5. CASE Unlink
  <2>1. UNCHANGED <<local, parent, head, index>> /\ worktree' \in {worktree, [worktree EXCEPT !.config = Missing]}
    BY <1>5 DEF Unlink
  <2> QED
    BY <1>p, <2>1, <1>b DEF CloneOK, WorkTree
<1>6. CASE Symlink
  <2>1. UNCHANGED <<local, parent, head, index>> /\ worktree' = [worktree EXCEPT !.config = job]
    BY <1>6 DEF Symlink
  <2>2. job \in Nightly
    BY <1>6 DEF PRInv, Placed, Symlink
  <2> QED
    BY <1>p, <2>1, <2>2 DEF CloneOK, WorkTree
<1>7. CASE Add
  <2>1. UNCHANGED <<local, parent, head, worktree>>
        /\ index' \in {[index EXCEPT !.defs = worktree.defs], [index EXCEPT !.config = worktree.config]}
        /\ (job \in Nightly => index' = [index EXCEPT !.config = job])
        /\ (job \notin Nightly => index' = [index EXCEPT !.defs = worktree.defs])
    BY <1>b, <1>7 DEF Add, Changes, PRInv, Placed
  <2>2. index' \in Tree
    BY <1>p, <2>1, OtherFile DEF CloneOK, WorkTree
  <2> QED
    BY <1>p, <2>1, <2>2 DEF CloneOK
<1>8. CASE Commit
  BY <1>p, <1>b, <1>8 DEF CloneOK, Commit
<1>9. CASE DeleteLocalBranch
  <2>1. /\ UNCHANGED parent
        /\ \/ UNCHANGED <<local, head, index, worktree>>
           \/ /\ local' = [local EXCEPT ![job] = NoTree] /\ head' = Base
              /\ index' = Carried(index, local[head], local[Base])
              /\ worktree' = Carried(worktree, local[head], local[Base])
    BY <1>9 DEF DeleteLocalBranch, Checkout, Switch
  <2>2. index' \in Tree /\ worktree' \in WorkTree
    BY <1>p, <1>b, <2>1, CarriedFiles DEF CloneOK
  <2> QED
    BY <1>p, <1>b, <2>1, <2>2 DEF CloneOK
<1> QED
  BY <1>0, <1>1, <1>2, <1>3, <1>4, <1>5, <1>6, <1>7, <1>8, <1>9 DEF Next, RunNext, clone,
     boxVars, StartJob, Stop, Build, Building, CloseOlderPR, PushBase, GetNewestTemplVer,
     Push, CreatePR, Merge, BumpByHand, github, run

\* The run keeps its type.
LEMMA RunStep ==
    ASSUME PRInv, Next
    PROVE  RunOK'
<1> USE DEF Call, Goto, Raises, Fails
<1>t. TypeOK
  BY DEF PRInv
<1>p. GithubOK /\ CloneOK /\ RunOK /\ Together /\ BoxTypeOK
  BY <1>t, TypeParts
<1>b. /\ Base \in Branch /\ Base \notin Job /\ Template \in Job /\ Template \in Branch
      /\ job \in Job /\ job \in Branch /\ job # Base /\ (job \in Nightly <=> job # Template)
      /\ local[Base] \in Tree /\ local[head] \in Tree /\ upstream \in Tree
      /\ \A t \in Tree : t \in WorkTree /\ t # NoTree
  BY <1>t, Branches DEF Branch
<1>m. MaxAttempts \in Nat \ {0}
  BY JobAssumption
<1>0. CASE UNCHANGED run
  BY <1>p, <1>0 DEF RunOK, run
<1>1. CASE \E j \in Job : StartJob(j)
  <2>1. /\ pc' \in {"build", "close"} /\ job' \in Job /\ attempts' = 0 /\ UNCHANGED latestVer
        /\ orderly' = Orderly /\ sound' = Orderly
    BY <1>1 DEF StartJob
  <2>2. Orderly \in BOOLEAN
    BY DEF Orderly
  <2> QED
    BY <1>p, <1>m, <2>1, <2>2 DEF RunOK, Step, Ended
<1>2. CASE Stop
  BY <1>p, <1>b, <1>2 DEF RunOK, Stop, Step, Ended
<1>3. CASE Build
  BY <1>p, <1>b, <1>3 DEF RunOK, Build, Step, Ended
<1>4. CASE Building
  <2>1. /\ UNCHANGED <<job, attempts, latestVer, orderly>>
        /\ sound' = (sound /\ clean'[Template]) /\ pc' \in {"close", "failed", "building"}
    BY <1>4 DEF Building
  <2>2. sound' \in BOOLEAN
    BY <2>1
  <2> QED
    BY <1>p, <2>1, <2>2 DEF RunOK, Step, Ended
<1>5. CASE CloseOlderPR
  BY <1>p, <1>b, <1>5 DEF RunOK, CloseOlderPR, Step, Ended
<1>6. CASE FetchAndCheckout
  BY <1>p, <1>b, <1>6 DEF RunOK, FetchAndCheckout, Step, Ended
<1>7. CASE Pull
  BY <1>p, <1>b, <1>7 DEF RunOK, Pull, Step, Ended
<1>8. CASE PushBase
  BY <1>p, <1>b, <1>8 DEF RunOK, PushBase, Step, Ended
<1>9. CASE GetNewestTemplVer
  <2>1. /\ UNCHANGED <<job, attempts, orderly>> /\ sound' \in {sound, FALSE}
        /\ \/ Active # {} /\ latestVer' = Max(Active) /\ pc' = "bump"
           \/ UNCHANGED latestVer /\ pc' = "failed"
    BY <1>9 DEF GetNewestTemplVer
  <2>2. latestVer' \in Version
    BY <1>p, <2>1, GreatestVersions DEF RunOK, Active
  <2> QED
    BY <1>p, <2>1, <2>2 DEF RunOK, Step, Ended
<1>10. CASE BumpPrciVersion
  BY <1>p, <1>b, <1>10 DEF RunOK, BumpPrciVersion, Step, Ended
<1>11. CASE NewBranch
  BY <1>p, <1>b, <1>11 DEF RunOK, NewBranch, Step, Ended
<1>12. CASE Unlink
  BY <1>p, <1>b, <1>12 DEF RunOK, Unlink, Step, Ended
<1>13. CASE Symlink
  BY <1>p, <1>b, <1>13 DEF RunOK, Symlink, Step, Ended
<1>14. CASE Add
  BY <1>p, <1>b, <1>14 DEF RunOK, Add, Step, Ended
<1>15. CASE Commit
  BY <1>p, <1>b, <1>15 DEF RunOK, Commit, Step, Ended
<1>16. CASE Push
  BY <1>p, <1>b, <1>16 DEF RunOK, Push, Step, Ended
<1>17. CASE CreatePR
  <2>1. /\ UNCHANGED <<job, latestVer, orderly>> /\ sound' \in {sound, FALSE}
        /\ \/ pc' \in {"tidy", "failed"} /\ UNCHANGED attempts
           \/ attempts + 1 < MaxAttempts /\ attempts' = attempts + 1 /\ pc' = "create"
    BY <1>17 DEF CreatePR, NextAttempt
  <2>2. attempts' \in 0 .. MaxAttempts - 1
    <3>1. attempts \in 0 .. MaxAttempts - 1
      BY <1>p DEF RunOK
    <3>2. attempts' = attempts \/ (attempts' = attempts + 1 /\ attempts + 1 < MaxAttempts)
      BY <2>1
    <3> QED
      BY <1>m, <3>1, <3>2
  <2> QED
    BY <1>p, <2>1, <2>2 DEF RunOK, Step, Ended
<1>18. CASE DeleteLocalBranch
  BY <1>p, <1>b, <1>18 DEF RunOK, DeleteLocalBranch, Step, Ended
<1> QED
  BY <1>0, <1>1, <1>2, <1>3, <1>4, <1>5, <1>6, <1>7, <1>8, <1>9, <1>10, <1>11, <1>12, <1>13,
     <1>14, <1>15, <1>16, <1>17, <1>18 DEF Next, RunNext, run, boxVars, Merge, BumpByHand,
     clone, run

\* A run of box_uploader succeeds with the release of a version that is newer than any other.
LEMMA Released ==
    ASSUME PRInv, Building
    PROVE  /\ upc'[Template] # "idle"
           /\ upc'[Template] = "succeeded" =>
                target[Template] \in Active' /\ \A v \in Active : v < target[Template]
<1>1. Template \in Uploader /\ BoxInv /\ pc = "building"
  BY JobAssumption DEF PRInv, Building
<1>2. UploadKind(Template)
  BY <1>1, UploadKinds DEF Building
<1>3. upc[Template] \notin Ended
  BY <1>1 DEF PRInv, TypeOK
<1>4. upc'[Template] # "idle"
  BY <1>1, <1>2, <1>3 DEF BoxInv, BoxTypeOK, UploadKind, Starts, Gives, Numbers, Uploads,
     Releases, Finds, Makes, Turns
<1>5. ASSUME upc'[Template] = "succeeded"
      PROVE  target[Template] \in Active' /\ \A v \in Active : v < target[Template]
  <2>1. Releases(Template)
    BY <1>1, <1>2, <1>3, <1>5 DEF BoxInv, BoxTypeOK, UploadKind, Starts, Gives, Numbers,
       Uploads, Finds, Makes, Turns
  <2>2. upc[Template] = "release" /\ state' = [state EXCEPT ![target[Template]] = "active"]
    BY <1>1, <1>5, <2>1 DEF Releases, Turns, BoxInv, BoxTypeOK
  <2>3. target[Template] \in Version /\ state'[target[Template]] = "active"
    BY <1>1, <2>2 DEF BoxInv, BoxTypeOK
  <2> QED
    BY <1>1, <2>2, <2>3 DEF Active, BoxInv, Newer, Naming
<1> QED
  BY <1>4, <1>5

\* The playbook starts and ends box_uploader.
LEMMA TogetherStep ==
    ASSUME PRInv, Next
    PROVE  Together'
<1> USE DEF Call, Goto, Raises, Fails
<1>t. TypeOK
  BY DEF PRInv
<1>p. GithubOK /\ CloneOK /\ RunOK /\ Together /\ BoxTypeOK
  BY <1>t, TypeParts
<1>b. /\ Base \in Branch /\ Base \notin Job /\ Template \in Job /\ Template \in Branch
      /\ job \in Job /\ job \in Branch /\ job # Base /\ (job \in Nightly <=> job # Template)
      /\ local[Base] \in Tree /\ local[head] \in Tree /\ upstream \in Tree
      /\ \A t \in Tree : t \in WorkTree /\ t # NoTree
  BY <1>t, Branches DEF Branch
<1>1. CASE \E j \in Job : StartJob(j)
  BY <1>p, <1>b, <1>1 DEF Together, uploaders, boxVars, Ended, run, StartJob
<1>2. CASE Stop
  BY <1>p, <1>b, <1>2 DEF Together, uploaders, boxVars, Ended, run, Stop
<1>3. CASE Build
  <2>1. Template \in Uploader
    BY JobAssumption
  <2>2. \/ pc' = "building" /\ upc' = [upc EXCEPT ![Template] = "box"]
        \/ pc' = "failed" /\ UNCHANGED upc
    BY <1>3 DEF Build, StartUpload, UploadGoto, uploaders
  <2> QED
    BY <1>p, <1>3, <2>1, <2>2 DEF Build, BoxTypeOK, Together, Ended
<1>4. CASE Building
  BY <1>p, <1>4, Released DEF Together, Ended, Building
<1>5. CASE CloseOlderPR
  BY <1>p, <1>b, <1>5 DEF Together, uploaders, boxVars, Ended, run, CloseOlderPR
<1>6. CASE FetchAndCheckout
  BY <1>p, <1>b, <1>6 DEF Together, uploaders, boxVars, Ended, run, FetchAndCheckout
<1>7. CASE Pull
  BY <1>p, <1>b, <1>7 DEF Together, uploaders, boxVars, Ended, run, Pull
<1>8. CASE PushBase
  BY <1>p, <1>b, <1>8 DEF Together, uploaders, boxVars, Ended, run, PushBase
<1>9. CASE GetNewestTemplVer
  BY <1>p, <1>b, <1>9 DEF Together, uploaders, boxVars, Ended, run, GetNewestTemplVer
<1>10. CASE BumpPrciVersion
  BY <1>p, <1>b, <1>10 DEF Together, uploaders, boxVars, Ended, run, BumpPrciVersion
<1>11. CASE NewBranch
  BY <1>p, <1>b, <1>11 DEF Together, uploaders, boxVars, Ended, run, NewBranch
<1>12. CASE Unlink
  BY <1>p, <1>b, <1>12 DEF Together, uploaders, boxVars, Ended, run, Unlink
<1>13. CASE Symlink
  BY <1>p, <1>b, <1>13 DEF Together, uploaders, boxVars, Ended, run, Symlink
<1>14. CASE Add
  BY <1>p, <1>b, <1>14 DEF Together, uploaders, boxVars, Ended, run, Add
<1>15. CASE Commit
  BY <1>p, <1>b, <1>15 DEF Together, uploaders, boxVars, Ended, run, Commit
<1>16. CASE Push
  BY <1>p, <1>b, <1>16 DEF Together, uploaders, boxVars, Ended, run, Push
<1>17. CASE CreatePR
  BY <1>p, <1>b, <1>17 DEF Together, uploaders, boxVars, Ended, run, CreatePR, NextAttempt
<1>18. CASE DeleteLocalBranch
  BY <1>p, <1>b, <1>18 DEF Together, uploaders, boxVars, Ended, run, DeleteLocalBranch
<1>19. CASE Merge
  BY <1>p, <1>b, <1>19 DEF Together, uploaders, boxVars, Ended, run, Merge
<1>20. CASE BumpByHand
  BY <1>p, <1>b, <1>20 DEF Together, uploaders, boxVars, Ended, run, BumpByHand
<1> QED
  BY <1>1, <1>2, <1>3, <1>4, <1>5, <1>6, <1>7, <1>8, <1>9, <1>10, <1>11, <1>12, <1>13, <1>14,
     <1>15, <1>16, <1>17, <1>18, <1>19, <1>20 DEF Next, RunNext

\* A step keeps the types.
LEMMA TypeStep ==
    ASSUME PRInv, Next
    PROVE  TypeOK'
<1>1. BoxTypeOK'
  BY BoxMoves DEF BoxInv
<1> QED
  BY <1>1, GithubStep, CloneStep, RunStep, TogetherStep, TypeParts

\* Each step of a run leads to the next one.
LEMMA PlacedStep ==
    ASSUME PRInv, Next
    PROVE  Placed'
<1> USE DEF Call, Goto, Raises, Fails
<1>t. TypeOK
  BY DEF PRInv
<1>p. GithubOK /\ CloneOK /\ RunOK /\ Together /\ BoxTypeOK
  BY <1>t, TypeParts
<1>b. /\ Base \in Branch /\ Base \notin Job /\ Template \in Job /\ Template \in Branch
      /\ job \in Job /\ job \in Branch /\ job # Base /\ (job \in Nightly <=> job # Template)
      /\ local[Base] \in Tree /\ local[head] \in Tree /\ upstream \in Tree
      /\ \A t \in Tree : t \in WorkTree /\ t # NoTree
  BY <1>t, Branches DEF Branch
<1>1. CASE \E j \in Job : StartJob(j)
  BY <1>p, <1>b, <1>1 DEF PRInv, Placed, OnBase, OnBranch, Ended, github, clone, run,
     GithubOK, CloneOK, StartJob
<1>2. CASE Stop
  BY <1>p, <1>b, <1>2 DEF PRInv, Placed, OnBase, OnBranch, Ended, github, clone, run,
     GithubOK, CloneOK, Stop
<1>3. CASE Build
  BY <1>p, <1>b, <1>3 DEF PRInv, Placed, OnBase, OnBranch, Ended, github, clone, run,
     GithubOK, CloneOK, Build
<1>4. CASE Building
  BY <1>p, <1>b, <1>4 DEF PRInv, Placed, OnBase, OnBranch, Ended, github, clone, run,
     GithubOK, CloneOK, Building
<1>5. CASE CloseOlderPR
  BY <1>p, <1>b, <1>5 DEF PRInv, Placed, OnBase, OnBranch, Ended, github, clone, run,
     GithubOK, CloneOK, CloseOlderPR
<1>6. CASE FetchAndCheckout
  BY <1>p, <1>b, <1>6 DEF PRInv, Placed, OnBase, OnBranch, Ended, github, clone, run,
     GithubOK, CloneOK, FetchAndCheckout, Checkout
<1>7. CASE Pull
  BY <1>p, <1>b, <1>7 DEF PRInv, Placed, OnBase, OnBranch, Ended, github, clone, run,
     GithubOK, CloneOK, Pull
<1>8. CASE PushBase
  BY <1>p, <1>b, <1>8 DEF PRInv, Placed, OnBase, OnBranch, Ended, github, clone, run,
     GithubOK, CloneOK, PushBase
<1>9. CASE GetNewestTemplVer
  BY <1>p, <1>b, <1>9 DEF PRInv, Placed, OnBase, OnBranch, Ended, github, clone, run,
     GithubOK, CloneOK, GetNewestTemplVer
<1>10. CASE BumpPrciVersion
  BY <1>p, <1>b, <1>10 DEF PRInv, Placed, OnBase, OnBranch, Ended, github, clone, run,
     GithubOK, CloneOK, BumpPrciVersion
<1>11. CASE NewBranch
  BY <1>p, <1>b, <1>11 DEF PRInv, Placed, OnBase, OnBranch, Ended, github, clone, run,
     GithubOK, CloneOK, NewBranch
<1>12. CASE Unlink
  BY <1>p, <1>b, <1>12 DEF PRInv, Placed, OnBase, OnBranch, Ended, github, clone, run,
     GithubOK, CloneOK, Unlink
<1>13. CASE Symlink
  BY <1>p, <1>b, <1>13 DEF PRInv, Placed, OnBase, OnBranch, Ended, github, clone, run,
     GithubOK, CloneOK, Symlink
<1>14. CASE Add
  BY <1>p, <1>b, <1>14 DEF PRInv, Placed, OnBase, OnBranch, Ended, github, clone, run,
     GithubOK, CloneOK, Add
<1>15. CASE Commit
  BY <1>p, <1>b, <1>15 DEF PRInv, Placed, OnBase, OnBranch, Ended, github, clone, run,
     GithubOK, CloneOK, Commit
<1>16. CASE Push
  BY <1>p, <1>b, <1>16 DEF PRInv, Placed, OnBase, OnBranch, Ended, github, clone, run,
     GithubOK, CloneOK, Push
<1>17. CASE CreatePR
  BY <1>p, <1>b, <1>17 DEF PRInv, Placed, OnBase, OnBranch, Ended, github, clone, run,
     GithubOK, CloneOK, CreatePR, NextAttempt, OpenPR
<1>18. CASE DeleteLocalBranch
  BY <1>p, <1>b, <1>18 DEF PRInv, Placed, OnBase, OnBranch, Ended, github, clone, run,
     GithubOK, CloneOK, DeleteLocalBranch
<1>19. CASE Merge
  BY <1>p, <1>b, <1>19 DEF PRInv, Placed, OnBase, OnBranch, Ended, github, clone, run,
     GithubOK, CloneOK, Merge
<1>20. CASE BumpByHand
  BY <1>p, <1>b, <1>20 DEF PRInv, Placed, OnBase, OnBranch, Ended, github, clone, run,
     GithubOK, CloneOK, BumpByHand
<1> QED
  BY <1>1, <1>2, <1>3, <1>4, <1>5, <1>6, <1>7, <1>8, <1>9, <1>10, <1>11, <1>12, <1>13, <1>14,
     <1>15, <1>16, <1>17, <1>18, <1>19, <1>20 DEF Next, RunNext

\* Nobody merges the configuration of a nightly run.
LEMMA GatedStep ==
    ASSUME PRInv, Next
    PROVE  Gated'
<1> USE DEF Call, Goto, Raises, Fails
<1>t. TypeOK
  BY DEF PRInv
<1>p. GithubOK /\ CloneOK /\ RunOK /\ Together /\ BoxTypeOK
  BY <1>t, TypeParts
<1>b. /\ Base \in Branch /\ Base \notin Job /\ Template \in Job /\ Template \in Branch
      /\ job \in Job /\ job \in Branch /\ job # Base /\ (job \in Nightly <=> job # Template)
      /\ local[Base] \in Tree /\ local[head] \in Tree /\ upstream \in Tree
      /\ \A t \in Tree : t \in WorkTree /\ t # NoTree
  BY <1>t, Branches DEF Branch
<1>1. CASE \E j \in Job : StartJob(j)
  BY <1>p, <1>b, <1>1 DEF PRInv, Gated, Placed, OnBase, OnBranch, github, clone, GithubOK,
     CloneOK, StartJob
<1>2. CASE Stop
  BY <1>p, <1>b, <1>2 DEF PRInv, Gated, Placed, OnBase, OnBranch, github, clone, GithubOK,
     CloneOK, Stop
<1>3. CASE Build
  BY <1>p, <1>b, <1>3 DEF PRInv, Gated, Placed, OnBase, OnBranch, github, clone, GithubOK,
     CloneOK, Build
<1>4. CASE Building
  BY <1>p, <1>b, <1>4 DEF PRInv, Gated, Placed, OnBase, OnBranch, github, clone, GithubOK,
     CloneOK, Building
<1>5. CASE CloseOlderPR
  BY <1>p, <1>b, <1>5 DEF PRInv, Gated, Placed, OnBase, OnBranch, github, clone, GithubOK,
     CloneOK, CloseOlderPR
<1>6. CASE FetchAndCheckout
  BY <1>p, <1>b, <1>6 DEF PRInv, Gated, Placed, OnBase, OnBranch, github, clone, GithubOK,
     CloneOK, FetchAndCheckout, Checkout
<1>7. CASE Pull
  BY <1>p, <1>b, <1>7 DEF PRInv, Gated, Placed, OnBase, OnBranch, github, clone, GithubOK,
     CloneOK, Pull
<1>8. CASE PushBase
  BY <1>p, <1>b, <1>8 DEF PRInv, Gated, Placed, OnBase, OnBranch, github, clone, GithubOK,
     CloneOK, PushBase
<1>9. CASE GetNewestTemplVer
  BY <1>p, <1>b, <1>9 DEF PRInv, Gated, Placed, OnBase, OnBranch, github, clone, GithubOK,
     CloneOK, GetNewestTemplVer
<1>10. CASE BumpPrciVersion
  BY <1>p, <1>b, <1>10 DEF PRInv, Gated, Placed, OnBase, OnBranch, github, clone, GithubOK,
     CloneOK, BumpPrciVersion
<1>11. CASE NewBranch
  BY <1>p, <1>b, <1>11 DEF PRInv, Gated, Placed, OnBase, OnBranch, github, clone, GithubOK,
     CloneOK, NewBranch
<1>12. CASE Unlink
  BY <1>p, <1>b, <1>12 DEF PRInv, Gated, Placed, OnBase, OnBranch, github, clone, GithubOK,
     CloneOK, Unlink
<1>13. CASE Symlink
  BY <1>p, <1>b, <1>13 DEF PRInv, Gated, Placed, OnBase, OnBranch, github, clone, GithubOK,
     CloneOK, Symlink
<1>14. CASE Add
  BY <1>p, <1>b, <1>14 DEF PRInv, Gated, Placed, OnBase, OnBranch, github, clone, GithubOK,
     CloneOK, Add
<1>15. CASE Commit
  BY <1>p, <1>b, <1>15 DEF PRInv, Gated, Placed, OnBase, OnBranch, github, clone, GithubOK,
     CloneOK, Commit
<1>16. CASE Push
  BY <1>p, <1>b, <1>16 DEF PRInv, Gated, Placed, OnBase, OnBranch, github, clone, GithubOK,
     CloneOK, Push
<1>17. CASE CreatePR
  BY <1>p, <1>b, <1>17 DEF PRInv, Gated, Placed, OnBase, OnBranch, github, clone, GithubOK,
     CloneOK, CreatePR
<1>18. CASE DeleteLocalBranch
  BY <1>p, <1>b, <1>18 DEF PRInv, Gated, Placed, OnBase, OnBranch, github, clone, GithubOK,
     CloneOK, DeleteLocalBranch
<1>19. CASE Merge
  BY <1>p, <1>b, <1>19 DEF PRInv, Gated, Placed, OnBase, OnBranch, github, clone, GithubOK,
     CloneOK, Merge
<1>20. CASE BumpByHand
  BY <1>p, <1>b, <1>20 DEF PRInv, Gated, Placed, OnBase, OnBranch, github, clone, GithubOK,
     CloneOK, BumpByHand
<1> QED
  BY <1>1, <1>2, <1>3, <1>4, <1>5, <1>6, <1>7, <1>8, <1>9, <1>10, <1>11, <1>12, <1>13, <1>14,
     <1>15, <1>16, <1>17, <1>18, <1>19, <1>20 DEF Next, RunNext

\* What the branch of the template names has been released.
LEMMA BumpedStep ==
    ASSUME PRInv, Next
    PROVE  Bumped'
<1> USE DEF Call, Goto, Raises, Fails
<1>t. TypeOK
  BY DEF PRInv
<1>p. GithubOK /\ CloneOK /\ RunOK /\ Together /\ BoxTypeOK
  BY <1>t, TypeParts
<1>b. /\ Base \in Branch /\ Base \notin Job /\ Template \in Job /\ Template \in Branch
      /\ job \in Job /\ job \in Branch /\ job # Base /\ (job \in Nightly <=> job # Template)
      /\ local[Base] \in Tree /\ local[head] \in Tree /\ upstream \in Tree
      /\ \A t \in Tree : t \in WorkTree /\ t # NoTree
  BY <1>t, Branches DEF Branch
<1>a. Active \subseteq Active' /\ Active' \subseteq Version /\ Active \subseteq Version
  BY BoxMoves DEF Active
<1>1. CASE \E j \in Job : StartJob(j)
  BY <1>p, <1>b, <1>a, <1>1 DEF PRInv, Bumped, Placed, OnBase, OnBranch, AfterBuild,
     BeforeCheckout, Ended, github, clone, run, GithubOK, CloneOK, StartJob
<1>2. CASE Stop
  BY <1>p, <1>b, <1>a, <1>2 DEF PRInv, Bumped, Placed, OnBase, OnBranch, AfterBuild,
     BeforeCheckout, Ended, github, clone, run, GithubOK, CloneOK, Stop
<1>3. CASE Build
  BY <1>p, <1>b, <1>a, <1>3 DEF PRInv, Bumped, Placed, OnBase, OnBranch, AfterBuild,
     BeforeCheckout, Ended, github, clone, run, GithubOK, CloneOK, Build
<1>4. CASE Building
  <2>1. /\ UNCHANGED <<fork, job, latestVer>> /\ pc' \in {"close", "failed", "building"}
        /\ pc' = "close" => upc'[Template] = "succeeded"
    BY <1>4 DEF Building, github, run
  <2>2. pc' = "close" => target[Template] \in Active' /\ \A v \in Active : v < target[Template]
    BY <1>4, <2>1, Released
  <2>3. /\ fork'[Template] # NoTree => fork'[Template].defs \in Active'
        /\ pc' = "close" => Active' # {}
        /\ pc' = "close" /\ fork'[Template] # NoTree => target[Template] > fork'[Template].defs
    BY <1>p, <1>a, <2>1, <2>2 DEF PRInv, Bumped, Version
  <2> QED
    BY <2>1, <2>2, <2>3 DEF Bumped, AfterBuild, OnBase, OnBranch
<1>5. CASE CloseOlderPR
  BY <1>p, <1>b, <1>a, <1>5 DEF PRInv, Bumped, Placed, OnBase, OnBranch, AfterBuild,
     BeforeCheckout, Ended, github, clone, run, GithubOK, CloneOK, CloseOlderPR
<1>6. CASE FetchAndCheckout
  BY <1>p, <1>b, <1>a, <1>6 DEF PRInv, Bumped, Placed, OnBase, OnBranch, AfterBuild,
     BeforeCheckout, Ended, github, clone, run, GithubOK, CloneOK, FetchAndCheckout, Checkout
<1>7. CASE Pull
  BY <1>p, <1>b, <1>a, <1>7 DEF PRInv, Bumped, Placed, OnBase, OnBranch, AfterBuild,
     BeforeCheckout, Ended, github, clone, run, GithubOK, CloneOK, Pull
<1>8. CASE PushBase
  BY <1>p, <1>b, <1>a, <1>8 DEF PRInv, Bumped, Placed, OnBase, OnBranch, AfterBuild,
     BeforeCheckout, Ended, github, clone, run, GithubOK, CloneOK, PushBase
<1>9. CASE GetNewestTemplVer
  <2>1. /\ UNCHANGED <<fork, job>>
        /\ (pc' = "bump" /\ Active # {} /\ latestVer' = Max(Active)) \/ pc' = "failed"
    BY <1>9 DEF GetNewestTemplVer, github
  <2>2. Active # {} => Max(Active) \in Active
    BY <1>a, GreatestVersions
  <2> QED
    BY <1>a, <2>1, <2>2 DEF PRInv, Bumped, AfterBuild, OnBase, OnBranch
<1>10. CASE BumpPrciVersion
  <2>1. /\ pc = "bump" /\ UNCHANGED <<fork, job, latestVer>>
        /\ \/ pc' = "failed"
           \/ pc' = "branch" /\ worktree' = [worktree EXCEPT !.defs = latestVer]
    BY <1>10 DEF BumpPrciVersion, github
  <2>2. pc' = "branch" => worktree'.defs = latestVer
    BY <1>p, <2>1 DEF CloneOK, WorkTree
  <2> QED
    BY <1>a, <2>1, <2>2 DEF PRInv, Bumped, AfterBuild, OnBase, OnBranch
<1>11. CASE NewBranch
  BY <1>p, <1>b, <1>a, <1>11 DEF PRInv, Bumped, Placed, OnBase, OnBranch, AfterBuild,
     BeforeCheckout, Ended, github, clone, run, GithubOK, CloneOK, NewBranch
<1>12. CASE Unlink
  BY <1>p, <1>b, <1>a, <1>12 DEF PRInv, Bumped, Placed, OnBase, OnBranch, AfterBuild,
     BeforeCheckout, Ended, github, clone, run, GithubOK, CloneOK, Unlink
<1>13. CASE Symlink
  BY <1>p, <1>b, <1>a, <1>13 DEF PRInv, Bumped, Placed, OnBase, OnBranch, AfterBuild,
     BeforeCheckout, Ended, github, clone, run, GithubOK, CloneOK, Symlink
<1>14. CASE Add
  <2>1. /\ pc = "add" /\ pc' = "commit" /\ UNCHANGED <<fork, job, latestVer>>
        /\ job = Template => index' = [index EXCEPT !.defs = worktree.defs]
    BY <1>14 DEF Add, Changes, github, run
  <2>a. worktree.defs \in Version /\ index \in Tree
    BY <1>p DEF CloneOK, WorkTree
  <2>2. job = Template => index'.defs = worktree.defs
    BY <2>1, <2>a DEF Tree
  <2> QED
    BY <1>a, <2>1, <2>2 DEF PRInv, Bumped, AfterBuild, OnBase, OnBranch
<1>15. CASE Commit
  BY <1>p, <1>b, <1>a, <1>15 DEF PRInv, Bumped, Placed, OnBase, OnBranch, AfterBuild,
     BeforeCheckout, Ended, github, clone, run, GithubOK, CloneOK, Commit
<1>16. CASE Push
  BY <1>p, <1>b, <1>a, <1>16 DEF PRInv, Bumped, Placed, OnBase, OnBranch, AfterBuild,
     BeforeCheckout, Ended, github, clone, run, GithubOK, CloneOK, Push
<1>17. CASE CreatePR
  BY <1>p, <1>b, <1>a, <1>17 DEF PRInv, Bumped, Placed, OnBase, OnBranch, AfterBuild,
     BeforeCheckout, Ended, github, clone, run, GithubOK, CloneOK, CreatePR, NextAttempt,
     OpenPR
<1>18. CASE DeleteLocalBranch
  BY <1>p, <1>b, <1>a, <1>18 DEF PRInv, Bumped, Placed, OnBase, OnBranch, AfterBuild,
     BeforeCheckout, Ended, github, clone, run, GithubOK, CloneOK, DeleteLocalBranch, Checkout
<1>19. CASE Merge
  BY <1>p, <1>b, <1>a, <1>19 DEF PRInv, Bumped, Placed, OnBase, OnBranch, AfterBuild,
     BeforeCheckout, Ended, github, clone, run, GithubOK, CloneOK, Merge
<1>20. CASE BumpByHand
  BY <1>p, <1>b, <1>a, <1>20 DEF PRInv, Bumped, Placed, OnBase, OnBranch, AfterBuild,
     BeforeCheckout, Ended, github, clone, run, GithubOK, CloneOK, BumpByHand
<1> QED
  BY <1>1, <1>2, <1>3, <1>4, <1>5, <1>6, <1>7, <1>8, <1>9, <1>10, <1>11, <1>12, <1>13, <1>14,
     <1>15, <1>16, <1>17, <1>18, <1>19, <1>20 DEF Next, RunNext

\* An orderly clone holds what the steps so far have made.
LEMMA InOrderStep ==
    ASSUME PRInv, Next
    PROVE  InOrder'
<1> USE DEF Call, Goto, Raises, Fails
<1>t. TypeOK
  BY DEF PRInv
<1>p. GithubOK /\ CloneOK /\ RunOK /\ Together /\ BoxTypeOK
  BY <1>t, TypeParts
<1>b. /\ Base \in Branch /\ Base \notin Job /\ Template \in Job /\ Template \in Branch
      /\ job \in Job /\ job \in Branch /\ job # Base /\ (job \in Nightly <=> job # Template)
      /\ local[Base] \in Tree /\ local[head] \in Tree /\ upstream \in Tree
      /\ \A t \in Tree : t \in WorkTree /\ t # NoTree
  BY <1>t, Branches DEF Branch
<1>1. CASE \E j \in Job : StartJob(j)
  BY <1>p, <1>b, <1>1 DEF PRInv, InOrder, Placed, OnBase, OnBranch, AfterBuild,
     BeforeCheckout, Ended, github, clone, run, GithubOK, CloneOK, StartJob, Orderly
<1>2. CASE Stop
  BY <1>p, <1>b, <1>2 DEF PRInv, InOrder, Placed, OnBase, OnBranch, AfterBuild,
     BeforeCheckout, Ended, github, clone, run, GithubOK, CloneOK, Stop
<1>3. CASE Build
  BY <1>p, <1>b, <1>3 DEF PRInv, InOrder, Placed, OnBase, OnBranch, AfterBuild,
     BeforeCheckout, Ended, github, clone, run, GithubOK, CloneOK, Build, Orderly
<1>4. CASE Building
  BY <1>p, <1>b, <1>4 DEF PRInv, InOrder, Placed, OnBase, OnBranch, AfterBuild,
     BeforeCheckout, Ended, github, clone, run, GithubOK, CloneOK, Building, Orderly
<1>5. CASE CloseOlderPR
  BY <1>p, <1>b, <1>5 DEF PRInv, InOrder, Placed, OnBase, OnBranch, AfterBuild,
     BeforeCheckout, Ended, github, clone, run, GithubOK, CloneOK, CloseOlderPR, Orderly
<1>6. CASE FetchAndCheckout
  <2>1. \/ pc' = "failed" /\ UNCHANGED orderly
        \/ /\ pc = "checkout" /\ pc' = "pull" /\ UNCHANGED <<job, local, orderly>>
           /\ Switch(local[head], local[Base]) /\ head' = Base
    BY <1>6 DEF FetchAndCheckout, Checkout
  <2>2. CASE pc' = "failed"
    BY <2>2 DEF InOrder, BeforeCheckout, OnBase
  <2>3. CASE orderly /\ pc' = "pull"
    <3>1. index = local[head] /\ worktree.defs = index.defs /\ worktree.config # Missing
      BY <1>p, <2>1, <2>3, TreeFiles DEF PRInv, InOrder, Orderly, BeforeCheckout, CloneOK
    <3>2. index' = local[Base] /\ worktree'.defs = local[Base].defs /\ worktree'.config # Missing
      BY <1>p, <1>b, <2>1, <2>3, <3>1, Switched DEF CloneOK
    <3> QED
      BY <2>1, <2>3, <3>2 DEF InOrder, BeforeCheckout, OnBase
  <2> QED
    BY <2>1, <2>2, <2>3 DEF InOrder
<1>7. CASE Pull
  <2>1. \/ pc' = "failed" /\ UNCHANGED orderly
        \/ /\ pc = "pull" /\ pc' = "push_base" /\ UNCHANGED <<job, orderly>>
           /\ Switch(local[Base], upstream) /\ local' = [local EXCEPT ![Base] = upstream]
    BY <1>7 DEF Pull
  <2>2. CASE pc' = "failed"
    BY <2>2 DEF InOrder, BeforeCheckout, OnBase
  <2>3. CASE orderly /\ pc' = "push_base"
    <3>1. index = local[Base] /\ worktree.defs = index.defs /\ worktree.config # Missing
      BY <2>1, <2>3 DEF PRInv, InOrder, OnBase
    <3>2. index' = upstream /\ worktree'.defs = upstream.defs /\ worktree'.config # Missing
      BY <1>p, <1>b, <2>1, <2>3, <3>1, Switched DEF CloneOK
    <3>3. local'[Base] = upstream
      BY <1>p, <1>b, <2>1, <2>3 DEF CloneOK
    <3> QED
      BY <2>1, <2>3, <3>2, <3>3 DEF InOrder, BeforeCheckout, OnBase
  <2> QED
    BY <2>1, <2>2, <2>3 DEF InOrder
<1>8. CASE PushBase
  BY <1>p, <1>b, <1>8 DEF PRInv, InOrder, Placed, OnBase, OnBranch, AfterBuild,
     BeforeCheckout, Ended, github, clone, run, GithubOK, CloneOK, PushBase
<1>9. CASE GetNewestTemplVer
  BY <1>p, <1>b, <1>9 DEF PRInv, InOrder, Placed, OnBase, OnBranch, AfterBuild,
     BeforeCheckout, Ended, github, clone, run, GithubOK, CloneOK, GetNewestTemplVer
<1>10. CASE BumpPrciVersion
  <2>1. /\ pc = "bump" /\ UNCHANGED <<job, orderly, local, index>>
        /\ \/ pc' = "failed"
           \/ pc' = "branch" /\ worktree' = [worktree EXCEPT !.defs = latestVer]
    BY <1>10 DEF BumpPrciVersion
  <2>2. pc' = "branch" => worktree'.config = worktree.config
    BY <1>p, <2>1 DEF CloneOK, WorkTree
  <2> QED
    BY <2>1, <2>2 DEF PRInv, InOrder, Placed, BeforeCheckout, OnBase
<1>11. CASE NewBranch
  BY <1>p, <1>b, <1>11 DEF PRInv, InOrder, Placed, OnBase, OnBranch, AfterBuild,
     BeforeCheckout, Ended, github, clone, run, GithubOK, CloneOK, NewBranch
<1>12. CASE Unlink
  <2>1. \/ pc' = "failed" /\ UNCHANGED orderly
        \/ /\ pc = "unlink" /\ pc' = "symlink" /\ UNCHANGED <<job, orderly, local, parent, index>>
           /\ worktree' = [worktree EXCEPT !.config = Missing]
    BY <1>12 DEF Unlink
  <2>2. pc' = "symlink" => worktree'.defs = worktree.defs
    BY <1>p, <2>1 DEF CloneOK, WorkTree
  <2> QED
    BY <2>1, <2>2 DEF PRInv, InOrder, BeforeCheckout, OnBase
<1>13. CASE Symlink
  BY <1>p, <1>b, <1>13 DEF PRInv, InOrder, Placed, OnBase, OnBranch, AfterBuild,
     BeforeCheckout, Ended, github, clone, run, GithubOK, CloneOK, Symlink
<1>14. CASE Add
  <2>1. /\ pc = "add" /\ pc' = "commit" /\ UNCHANGED <<orderly, job, latestVer, local, parent, worktree>>
        /\ job = Template => index' = [index EXCEPT !.defs = worktree.defs] /\ worktree.defs = latestVer
        /\ job # Template => index' = [index EXCEPT !.config = worktree.config] /\ worktree.config = job
    BY <1>b, <1>14 DEF Add, Changes, run, PRInv, Placed, Bumped
  <2>2. orderly => /\ index = parent[job] /\ local[job] = parent[job]
                   /\ job \in Nightly => worktree.defs = index.defs
    BY <2>1 DEF PRInv, InOrder
  <2>3. index'.defs = IF job = Template THEN worktree.defs ELSE index.defs
    BY <1>p, <1>b, <2>1, OtherFile DEF CloneOK, WorkTree
  <2>4. orderly => index' = Changed
    BY <2>1, <2>2 DEF Changed
  <2>5. Changed' = Changed
    BY <2>1 DEF Changed
  <2> QED
    BY <1>b, <2>1, <2>2, <2>3, <2>4, <2>5 DEF InOrder, BeforeCheckout, OnBase
<1>15. CASE Commit
  BY <1>p, <1>b, <1>15 DEF PRInv, InOrder, Placed, OnBase, OnBranch, AfterBuild,
     BeforeCheckout, Ended, github, clone, run, GithubOK, CloneOK, Commit, Changed
<1>16. CASE Push
  BY <1>p, <1>b, <1>16 DEF PRInv, InOrder, Placed, OnBase, OnBranch, AfterBuild,
     BeforeCheckout, Ended, github, clone, run, GithubOK, CloneOK, Push, Changed
<1>17. CASE CreatePR
  BY <1>p, <1>b, <1>17 DEF PRInv, InOrder, Placed, OnBase, OnBranch, AfterBuild,
     BeforeCheckout, Ended, github, clone, run, GithubOK, CloneOK, CreatePR, NextAttempt,
     OpenPR, Changed
<1>18. CASE DeleteLocalBranch
  BY <1>p, <1>b, <1>18 DEF PRInv, InOrder, Placed, OnBase, OnBranch, AfterBuild,
     BeforeCheckout, Ended, github, clone, run, GithubOK, CloneOK, DeleteLocalBranch, Checkout
<1>19. CASE Merge
  BY <1>p, <1>b, <1>19 DEF PRInv, InOrder, Placed, OnBase, OnBranch, AfterBuild,
     BeforeCheckout, Ended, github, clone, run, GithubOK, CloneOK, Merge, Orderly, Changed
<1>20. CASE BumpByHand
  BY <1>p, <1>b, <1>20 DEF PRInv, InOrder, Placed, OnBase, OnBranch, AfterBuild,
     BeforeCheckout, Ended, github, clone, run, GithubOK, CloneOK, BumpByHand, Orderly,
     Changed
<1> QED
  BY <1>1, <1>2, <1>3, <1>4, <1>5, <1>6, <1>7, <1>8, <1>9, <1>10, <1>11, <1>12, <1>13, <1>14,
     <1>15, <1>16, <1>17, <1>18, <1>19, <1>20 DEF Next, RunNext

\* As long as nothing fails the clone is orderly and no pull request is in the way.
LEMMA SoundStep ==
    ASSUME PRInv, Next
    PROVE  SoundSoFar'
<1> USE DEF Call, Goto, Raises, Fails
<1>t. TypeOK
  BY DEF PRInv
<1>p. GithubOK /\ CloneOK /\ RunOK /\ Together /\ BoxTypeOK
  BY <1>t, TypeParts
<1>b. /\ Base \in Branch /\ Base \notin Job /\ Template \in Job /\ Template \in Branch
      /\ job \in Job /\ job \in Branch /\ job # Base /\ (job \in Nightly <=> job # Template)
      /\ local[Base] \in Tree /\ local[head] \in Tree /\ upstream \in Tree
      /\ \A t \in Tree : t \in WorkTree /\ t # NoTree
  BY <1>t, Branches DEF Branch
<1>1. CASE \E j \in Job : StartJob(j)
  BY <1>p, <1>b, <1>1 DEF PRInv, SoundSoFar, Placed, github, run, GithubOK, StartJob
<1>2. CASE Stop
  BY <1>p, <1>b, <1>2 DEF PRInv, SoundSoFar, Placed, github, run, GithubOK, Stop
<1>3. CASE Build
  BY <1>p, <1>b, <1>3 DEF PRInv, SoundSoFar, Placed, github, run, GithubOK, Build
<1>4. CASE Building
  BY <1>p, <1>b, <1>4 DEF PRInv, SoundSoFar, Placed, github, run, GithubOK, Building
<1>5. CASE CloseOlderPR
  BY <1>p, <1>b, <1>5 DEF PRInv, SoundSoFar, Placed, github, run, GithubOK, CloseOlderPR
<1>6. CASE FetchAndCheckout
  BY <1>p, <1>b, <1>6 DEF PRInv, SoundSoFar, Placed, github, run, GithubOK, FetchAndCheckout
<1>7. CASE Pull
  BY <1>p, <1>b, <1>7 DEF PRInv, SoundSoFar, Placed, github, run, GithubOK, Pull
<1>8. CASE PushBase
  BY <1>p, <1>b, <1>8 DEF PRInv, SoundSoFar, Placed, github, run, GithubOK, PushBase
<1>9. CASE GetNewestTemplVer
  BY <1>p, <1>b, <1>9 DEF PRInv, SoundSoFar, Placed, github, run, GithubOK, GetNewestTemplVer
<1>10. CASE BumpPrciVersion
  BY <1>p, <1>b, <1>10 DEF PRInv, SoundSoFar, Placed, github, run, GithubOK, BumpPrciVersion
<1>11. CASE NewBranch
  BY <1>p, <1>b, <1>11 DEF PRInv, SoundSoFar, Placed, github, run, GithubOK, NewBranch
<1>12. CASE Unlink
  BY <1>p, <1>b, <1>12 DEF PRInv, SoundSoFar, Placed, github, run, GithubOK, Unlink
<1>13. CASE Symlink
  BY <1>p, <1>b, <1>13 DEF PRInv, SoundSoFar, Placed, github, run, GithubOK, Symlink
<1>14. CASE Add
  BY <1>p, <1>b, <1>14 DEF PRInv, SoundSoFar, Placed, github, run, GithubOK, Add
<1>15. CASE Commit
  BY <1>p, <1>b, <1>15 DEF PRInv, SoundSoFar, Placed, github, run, GithubOK, Commit
<1>16. CASE Push
  BY <1>p, <1>b, <1>16 DEF PRInv, SoundSoFar, Placed, github, run, GithubOK, Push
<1>17. CASE CreatePR
  BY <1>p, <1>b, <1>17 DEF PRInv, SoundSoFar, Placed, github, run, GithubOK, CreatePR,
     NextAttempt, OpenPR
<1>18. CASE DeleteLocalBranch
  BY <1>p, <1>b, <1>18 DEF PRInv, SoundSoFar, Placed, github, run, GithubOK, DeleteLocalBranch
<1>19. CASE Merge
  BY <1>p, <1>b, <1>19 DEF PRInv, SoundSoFar, Placed, github, run, GithubOK, Merge
<1>20. CASE BumpByHand
  BY <1>p, <1>b, <1>20 DEF PRInv, SoundSoFar, Placed, github, run, GithubOK, BumpByHand
<1> QED
  BY <1>1, <1>2, <1>3, <1>4, <1>5, <1>6, <1>7, <1>8, <1>9, <1>10, <1>11, <1>12, <1>13, <1>14,
     <1>15, <1>16, <1>17, <1>18, <1>19, <1>20 DEF Next, RunNext

-----------------------------------------------------------------------------
(* The pull requests: the theorems.                                        *)

\* The invariant holds initially.
LEMMA InitPR == Init => PRInv
<1> SUFFICES ASSUME Init PROVE PRInv
  OBVIOUS
<1>1. BoxInv
  BY InitBox DEF Init
<1>2. 0 \in Version /\ Gating \in Nightly \cup {Gating} /\ Start \in Tree /\ Template \in Job
  BY BoxAssumption DEF Version, Start, Tree, Job
<1>3. Start \in WorkTree /\ Start # NoTree /\ Base \in Branch
  BY <1>2, TreeFiles DEF Branch
<1>4. GithubOK /\ CloneOK
  BY <1>2, <1>3 DEF Init, GithubOK, CloneOK
<1>5. RunOK /\ Together
  BY <1>1, <1>2, JobAssumption DEF Init, RunOK, Together, BoxInit, Ended
<1>6. TypeOK
  BY <1>1, <1>4, <1>5, TypeParts DEF BoxInv
<1>7. Placed /\ Gated /\ SoundSoFar
  BY <1>2, <1>3 DEF Init, Placed, Gated, SoundSoFar, OnBase, OnBranch, Start
<1>8. Bumped
  <2>1. fork[Template] = NoTree /\ pc = "idle"
    BY <1>2, JobAssumption DEF Init, Branch, Job
  <2> QED
    BY <2>1 DEF Bumped, AfterBuild, OnBase, OnBranch
<1>9. InOrder
  BY DEF Init, InOrder, BeforeCheckout, OnBase
<1> QED
  BY <1>1, <1>6, <1>7, <1>8, <1>9 DEF PRInv

\* A step keeps the invariant.
LEMMA PRStep ==
    ASSUME PRInv, [Next]_vars
    PROVE  PRInv'
<1>1. BoxInv'
  BY BoxMoves
<1>2. CASE Next
  BY <1>1, <1>2, TypeStep, PlacedStep, GatedStep, BumpedStep, InOrderStep, SoundStep DEF PRInv
<1>3. CASE UNCHANGED vars
  <2>1. TypeOK'
    BY <1>1, <1>3, TypeParts DEF PRInv, BoxInv, GithubOK, CloneOK, RunOK, Together, vars,
       prVars, boxVars,
                                 github, clone, run, uploaders
  <2>2. Placed' /\ Gated' /\ SoundSoFar'
    BY <1>3 DEF PRInv, Placed, Gated, SoundSoFar, vars, prVars, github, clone, run
  <2>3. Bumped'
    BY <1>3 DEF PRInv, Bumped, Active, vars, prVars, boxVars, cloud, github, clone, run
  <2>4. InOrder'
    BY <1>3 DEF PRInv, InOrder, Orderly, Changed, vars, prVars, github, clone, run
  <2> QED
    BY <1>1, <2>1, <2>2, <2>3, <2>4 DEF PRInv
<1> QED
  BY <1>2, <1>3

\* The invariant, for any jobs, any number of runs, and failures at any call.
THEOREM PRInvariant == Spec => []PRInv
<1>1. PRInv /\ [Next]_vars => PRInv'
  BY PRStep
<1> QED
  BY InitPR, <1>1, PTL DEF Spec

\* Type correctness.
THEOREM TypeCorrect == Spec => []TypeOK
<1>1. PRInv => TypeOK
  BY DEF PRInv
<1> QED
  BY PRInvariant, <1>1, PTL

\* A pull request that is opened changes what its job is for and nothing else.
LEMMA OwnChanges ==
    ASSUME PRInv, Next, NEW j \in Job, ~opened[j], opened'[j], orderly
    PROVE  IF j = Template
             THEN fork[j].config = parent[j].config /\ fork[j].defs \in Active
             ELSE fork[j] = [parent[j] EXCEPT !.config = j]
<1>t. TypeOK
  BY DEF PRInv
<1>p. GithubOK /\ CloneOK /\ RunOK
  BY <1>t, TypeParts
<1>1. CreatePR
  <2>1. opened' # opened
    OBVIOUS
  <2>2. CASE CloseOlderPR
    BY <1>p, <2>2 DEF CloseOlderPR, Call, Fails, GithubOK, RunOK
  <2>3. CASE Merge
    BY <1>p, <2>3 DEF Merge, GithubOK
  <2> QED
    BY <2>1, <2>2, <2>3 DEF Next, RunNext, StartJob, Stop, Build, Building, FetchAndCheckout,
       Pull, PushBase,
         GetNewestTemplVer, BumpPrciVersion, NewBranch, Unlink, Symlink, Add, Commit, Push, DeleteLocalBranch,
         BumpByHand, github
<1>2. pc = "create" /\ j = job
  BY <1>1, <1>p DEF CreatePR, OpenPR, GithubOK, RunOK
<1>3. fork[j] = local[j] /\ local[j] = Changed /\ parent[j] \in Tree /\ latestVer \in Version
  BY <1>2, <1>p DEF PRInv, Placed, InOrder, CloneOK, RunOK
<1>4. CASE j = Template
  <2>1. latestVer \in Active
    BY <1>2, <1>4 DEF PRInv, Bumped, OnBranch
  <2> QED
    BY <1>2, <1>3, <1>4, <2>1, OtherFile DEF Changed
<1>5. CASE j # Template
  BY <1>2, <1>3, <1>5 DEF Changed
<1> QED
  BY <1>4, <1>5

\* Whatever earlier runs have left in an orderly clone, a pull request is its job's own change.
THEOREM OwnChangeOnly == Spec => OwnChange
<1> DEFINE A == \A j \in Job : ~opened[j] /\ opened'[j] /\ orderly =>
                  IF j = Template
                    THEN fork[j].config = parent[j].config /\ fork[j].defs \in Active
                    ELSE fork[j] = [parent[j] EXCEPT !.config = j]
<1>1. PRInv /\ [Next]_vars => [A]_vars
  BY OwnChanges
<1> QED
  BY PRInvariant, <1>1, PTL DEF Spec, OwnChange

\* The branch of the template goes when a newer version is there.
LEMMA BumpGoes ==
    ASSUME PRInv, Next, opened[Template], fork'[Template] = NoTree
    PROVE  \E v \in Active : v > fork[Template].defs
<1>t. TypeOK
  BY DEF PRInv
<1>p. GithubOK /\ CloneOK /\ RunOK
  BY <1>t, TypeParts
<1>b. /\ Base \in Branch /\ Base \notin Job /\ Template \in Job /\ Template \in Branch
      /\ job \in Job /\ job \in Branch
  BY <1>t, Branches DEF Branch
<1>1. fork[Template] # NoTree
  BY <1>p, <1>b DEF GithubOK
<1>2. CASE CloseOlderPR
  <2>1. pc = "close" /\ job = Template
    BY <1>p, <1>b, <1>1, <1>2 DEF CloseOlderPR, Call, Fails, GithubOK
  <2> QED
    BY <1>1, <2>1 DEF PRInv, Bumped
<1>3. CASE PushBase
  BY <1>p, <1>b, <1>1, <1>3 DEF PushBase, Call, Fails, GithubOK
<1>4. CASE Push
  <2>1. fork[job] = NoTree \/ UNCHANGED fork
    BY <1>4 DEF Push, Call, Fails
  <2> QED
    BY <1>p, <1>b, <1>1, <1>4, <2>1 DEF Push, Call, Fails, GithubOK
<1>5. UNCHANGED fork \/ CloseOlderPR \/ PushBase \/ Push
  BY DEF Next, RunNext, StartJob, Stop, Build, Building, FetchAndCheckout, Pull,
     GetNewestTemplVer,
         BumpPrciVersion, NewBranch, Unlink, Symlink, Add, Commit, CreatePR, DeleteLocalBranch, Merge,
         BumpByHand, github
<1> QED
  BY <1>1, <1>2, <1>3, <1>4, <1>5

\* A bump that nobody has merged is not closed before there is a newer version.
THEOREM BumpOutlives == Spec => BumpOutlivesFailedBuilds
<1> DEFINE A == opened[Template] /\ fork'[Template] = NoTree => \E v \in Active : v > fork[Template].defs
<1>1. PRInv /\ [Next]_vars => [A]_vars
  BY BumpGoes
<1> QED
  BY PRInvariant, <1>1, PTL DEF Spec, BumpOutlivesFailedBuilds

\* Where a run with no fault ends, it has opened its pull request or has nothing to commit.
LEMMA SoundRuns ==
    ASSUME PRInv, Next, pc \notin Ended, pc' \in Ended, sound'
    PROVE  pc' = "succeeded" \/ (job = Template /\ local[Base].defs = latestVer)
<1> USE DEF Call, Goto, Raises, Fails
<1>t. TypeOK
  BY DEF PRInv
<1>p. GithubOK /\ CloneOK /\ RunOK /\ Together /\ BoxTypeOK
  BY <1>t, TypeParts
<1>b. /\ job \in Job /\ job \in Branch /\ job # Base /\ (job \in Nightly <=> job # Template)
      /\ local[Base] \in Tree /\ local[head] \in Tree /\ upstream \in Tree /\ parent[job] \in Tree
  BY <1>t, Branches DEF Branch
<1>o. sound => orderly
  BY DEF PRInv, SoundSoFar
<1>1. CASE (\E j \in Job : StartJob(j)) \/ Stop \/ Build \/ CloseOlderPR \/ PushBase \/ BumpPrciVersion
            \/ NewBranch \/ Symlink \/ Add
  BY <1>1 DEF StartJob, Stop, Build, CloseOlderPR, PushBase, BumpPrciVersion, NewBranch,
     Symlink, Add, Ended
<1>2. CASE Building
  <2>1. clean'[Template] /\ upc[Template] \notin Ended /\ upc'[Template] = "failed"
    BY <1>p, <1>2, Released DEF Building, Together, Ended
  <2>2. upc'[Template] = "succeeded"
    BY <2>1, BoxMoves, JobAssumption DEF Publishes, Ended
  <2> QED
    BY <2>1, <2>2
<1>3. CASE FetchAndCheckout
  <2>1. pc = "checkout" /\ sound /\ ~CanSwitch(local[head], local[Base])
    BY <1>3 DEF FetchAndCheckout, Ended
  <2>2. Orderly
    BY <1>o, <2>1 DEF PRInv, InOrder, BeforeCheckout
  <2>3. index = local[head] /\ worktree.defs = index.defs
        /\ (worktree.config = index.config \/ index.config = local[Base].config)
    BY <2>2 DEF Orderly
  <2> QED
    BY <2>1, <2>3, SwitchAllowed
<1>4. CASE Pull
  <2>1. pc = "pull" /\ sound /\ ~CanSwitch(local[Base], upstream)
    BY <1>4 DEF Pull, Ended
  <2>2. index = local[Base] /\ worktree.defs = index.defs /\ index.config = upstream.config
    BY <1>o, <2>1 DEF PRInv, InOrder, OnBase, Gated
  <2> QED
    BY <2>1, <2>2, SwitchAllowed
<1>5. CASE GetNewestTemplVer
  <2>1. pc = "newest" /\ Active = {}
    BY <1>5 DEF GetNewestTemplVer, Ended
  <2> QED
    BY <2>1 DEF PRInv, Placed, Bumped, AfterBuild, OnBase
<1>6. CASE Unlink
  <2>1. pc = "unlink" /\ sound /\ worktree.config = Missing
    BY <1>6 DEF Unlink, Ended
  <2> QED
    BY <1>o, <2>1 DEF PRInv, InOrder
<1>7. CASE Commit
  <2>1. pc = "commit" /\ sound /\ index = local[head]
    BY <1>7 DEF Commit, Ended
  <2>2. head = job /\ parent[job] = local[Base] /\ local[job] = parent[job] /\ index = Changed
    BY <1>o, <2>1 DEF PRInv, InOrder, Placed, OnBranch
  <2>3. CASE job = Template
    <3>1. local[Base].defs = [local[Base] EXCEPT !.defs = latestVer].defs /\ latestVer \in Version
      BY <1>p, <2>1, <2>2, <2>3 DEF Changed, RunOK
    <3> QED
      BY <1>b, <2>3, <3>1, OtherFile
  <2>4. CASE job # Template
    <3>1. local[Base].config = [local[Base] EXCEPT !.config = job].config /\ job \in Nightly
      BY <1>b, <2>1, <2>2, <2>4 DEF Changed
    <3>2. local[Base].config = job
      BY <1>b, <3>1, OtherFile
    <3> QED
      BY <3>1, <3>2, JobAssumption DEF PRInv, Gated
  <2> QED
    BY <2>3, <2>4
<1>8. CASE Push
  <2>1. pc = "push" /\ fork[job] # NoTree
    BY <1>8 DEF Push, Ended
  <2> QED
    BY <2>1 DEF PRInv, Placed
<1>9. CASE CreatePR
  <2>1. pc = "create" /\ sound /\ opened[job]
    BY <1>9 DEF CreatePR, NextAttempt, Ended
  <2> QED
    BY <2>1 DEF PRInv, SoundSoFar
<1>10. CASE DeleteLocalBranch
  <2>1. pc = "tidy" /\ (pc' = "succeeded" \/ (sound /\ ~CanSwitch(local[head], local[Base])))
    BY <1>10 DEF DeleteLocalBranch, Ended
  <2>2. ASSUME sound
        PROVE  CanSwitch(local[head], local[Base])
    <3>1. /\ head = job /\ parent[job] = local[Base] /\ local[job] = index /\ index = Changed
          /\ worktree.defs = index.defs /\ (job \in Nightly => worktree.config = job)
      BY <1>o, <2>1, <2>2 DEF PRInv, InOrder, Placed, OnBranch
    <3>2. job = Template => index.config = local[Base].config
      BY <1>b, <1>p, <3>1, OtherFile DEF Changed, RunOK
    <3>3. job # Template => worktree.config = index.config
      BY <1>b, <1>p, <3>1, OtherFile DEF Changed
    <3> QED
      BY <1>b, <3>1, <3>2, <3>3, SwitchAllowed
  <2> QED
    BY <2>1, <2>2
<1>11. CASE Merge \/ BumpByHand
  BY <1>11 DEF Merge, BumpByHand, run
<1> QED
  BY <1>1, <1>2, <1>3, <1>4, <1>5, <1>6, <1>7, <1>8, <1>9, <1>10, <1>11 DEF Next, RunNext

\* A run in which nothing fails opens its pull request, or finds its version upstream.
THEOREM SoundRunsOpen == Spec => SoundRunOpens
<1> DEFINE A == pc \notin Ended /\ pc' \in Ended /\ sound' =>
                  \/ pc' = "succeeded"
                  \/ job = Template /\ local[Base].defs = latestVer
<1>1. PRInv /\ [Next]_vars => [A]_vars
  BY SoundRuns
<1> QED
  BY PRInvariant, <1>1, PTL DEF Spec, SoundRunOpens

=============================================================================

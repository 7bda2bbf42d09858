------------------------ MODULE BucketCleaningProofs ------------------------
(***************************************************************************)
(* Invariants of the cleaning job beside the pipeline.  Its types hold     *)
(* whatever runs beside it.  What it promises about images holds only when *)
(* it has the bucket to itself, and is not inductive: what is safe to      *)
(* sweep depends on which documents the job has looked at, and a document  *)
(* reaches the bucket by way of a copy that some step of a run holds.      *)
(***************************************************************************)
EXTENDS BucketCleaning, ReleasePipelineProofs

\* A manifest set is only made of manifests that are there.
Complete(s) == s # Nil => \A f \in Flavours : s.manifests[f] # Nil

CompleteSets ==
    /\ \A k \in SetKeys : Complete(sets[k])
    /\ \A r \in Runs : Complete(heldSet[r])

JobTypes ==
    /\ begun \in [Runs -> Time]
    /\ job \in JobPhase
    /\ cutoff \in -MaxAge..MaxTime
    /\ listed \subseteq Documents /\ doomed \subseteq Documents
    /\ marked \subseteq ImageObjects \cup LogObjects
    /\ seen \subseteq ImageObjects \cup LogObjects
    /\ loose \subseteq ImageObjects \cup LogObjects
    /\ aborts \in 0..MaxAborts

CleaningTypes == TypeInv /\ CompleteSets /\ JobTypes

\* The image of a manifest, or of each manifest of a set, is there.
HasImage(f, m, present) == m # Nil => PathsOf(f, m) \subseteq present
HasImages(s, present) == s # Nil => \A f \in Flavours : HasImage(f, s.manifests[f], present)

ImagesInBucket ==
    /\ \A f \in Flavours : HasImage(f, singles[f], objects)
    /\ \A k \in SetKeys : HasImages(sets[k], objects)

\* The copies that a run in flight is about to use.  What an ended run leaves in its
\* memory may name an image that is swept.
InUse(r, f) ==
    /\ build[r][f] \in {"publish_oci", "upload_manifest"} =>
          ImageObject(f, output[r][f]) \in objects
    /\ \/ build[r][f] \in {"publish", "persist"}
       \/ test[r][f] = "upload_result"
       \/ attaching[r] = f
       => HasImage(f, held[r][f], objects)
    /\ promote[r] = "collect" /\ f \notin todo[r] => HasImage(f, found[r][f], objects)

ImagesInUse ==
    /\ \A r \in Runs, f \in Flavours : InUse(r, f)
    /\ \A r \in Runs : phase[r] = "attach_set" => HasImages(heldSet[r], objects)

\* While the job or its pool of threads is at work no run is in flight.
BySelf == job # "idle" \/ doomed # {} => InFlight = {}

\* Of the sets only snapshots are looked at to be deleted.
OnlySnapshots ==
    \A k \in SetKeys :
        Set(k) \in doomed \/ (job = "sets" /\ Set(k) \in listed) => k[1] = "snapshot"

\* A document that the marking has passed is marked, and what is marked is not loose.
Marking ==
    /\ \A k \in SetKeys :
          /\ sets[k] # Nil
          /\ \/ job = "mark_sets" /\ Set(k) \notin listed
             \/ job \in {"mark_singles", "sweep"}
          => MarkedBySet(sets[k]) \subseteq marked
    /\ \A f \in Flavours :
          /\ singles[f] # Nil
          /\ \/ job = "mark_singles" /\ Single(f) \notin listed
             \/ job = "sweep"
          => PathsOf(f, singles[f]) \subseteq marked
    /\ loose # {} => job = "sweep" /\ loose \cap marked = {}

Undisturbed == ImagesInBucket /\ ImagesInUse /\ BySelf /\ OnlySnapshots /\ Marking

-----------------------------------------------------------------------------
(* Types.                                                                    *)

LEMMA CutoffInRange ==
    ASSUME TypeOK
    PROVE  clock - MaxAge \in -MaxAge..MaxTime /\ 0 \in -MaxAge..MaxTime
BY ConstantsAssumption, CleaningAssumption DEF TypeOK, Time

LEMMA DocumentsAreDocuments ==
    /\ StoredSingles \subseteq Documents
    /\ \A kinds : StoredSets(kinds) \subseteq Documents
BY DEF StoredSingles, StoredSets, Documents

LEMMA PathsInRange ==
    ASSUME NEW m \in Manifest, NEW f \in Flavours
    PROVE  PathsOf(f, m) \subseteq ImageObjects
BY DEF PathsOf, Manifest, ImageObjects

LEMMA MarkedInRange ==
    ASSUME NEW s \in ManifestSet, \A f \in Flavours : s.manifests[f] # Nil
    PROVE  MarkedBySet(s) \subseteq ImageObjects \cup LogObjects
<1>1. s.logs \subseteq LogObjects
  BY DEF ManifestSet
<1>2. \A f \in Flavours : s.manifests[f] \in Manifest
  BY DEF ManifestSet
<1>3. \A f \in Flavours : PathsOf(f, s.manifests[f]) \subseteq ImageObjects
  BY <1>2, PathsInRange
<1> QED
  BY <1>1, <1>3 DEF MarkedBySet

\* A change of the bucket that leaves the runs alone.
LEMMA BucketKeepsTypes ==
    ASSUME TypeInv, UNCHANGED runState,
           objects' \subseteq ImageObjects \cup LogObjects,
           singles' \in [Flavours -> Manifest \cup {Nil}],
           sets' \in [SetKeys -> ManifestSet \cup {Nil}]
    PROVE  TypeInv'
<1> USE DEF TypeInv, runState, outside, given, buildPc, promotePc, notifyPc
<1>1. TypeOK'
  BY DEF TypeOK
<1>2. Scheduling'
  BY DEF Scheduling
<1>3. Holding'
  BY DEF Holding
<1> QED
  BY <1>1, <1>2, <1>3

LEMMA PurgeKeepsTypes ==
    ASSUME CleaningTypes, Purge
    PROVE  CleaningTypes'
<1> USE DEF CleaningTypes
<1>1. ASSUME NEW f \in Flavours, ReadSingle(f)
      PROVE  CleaningTypes'
  <2>1. UNCHANGED <<vars, begun, job, cutoff, marked, seen, loose, aborts>>
    BY <1>1 DEF ReadSingle
  <2>2. listed' \subseteq Documents /\ doomed' \subseteq Documents
    BY <1>1 DEF ReadSingle, JobTypes, Documents
  <2> QED
    BY <2>1, <2>2, StutterKeepsTypes DEF JobTypes, CompleteSets, vars, bucket, notifyPc
<1>2. ASSUME NEW f \in Flavours, DeleteSingle(f)
      PROVE  CleaningTypes'
  <2>1. TypeInv'
    BY <1>2, BucketKeepsTypes DEF DeleteSingle, TypeInv, TypeOK
  <2>2. doomed' \subseteq Documents /\ UNCHANGED <<sets, heldSet>>
    BY <1>2 DEF DeleteSingle, JobTypes, runState, notifyPc
  <2> QED
    BY <1>2, <2>1, <2>2 DEF DeleteSingle, JobTypes, CompleteSets
<1>3. CASE TurnToSets
  <2>1. UNCHANGED <<vars, begun, doomed, marked, seen, loose, aborts>>
    BY <1>3 DEF TurnToSets
  <2>2. listed' \subseteq Documents /\ cutoff' \in -MaxAge..MaxTime /\ job' \in JobPhase
    BY <1>3, CutoffInRange, DocumentsAreDocuments DEF TurnToSets, JobPhase, TypeInv
  <2> QED
    BY <2>1, <2>2, StutterKeepsTypes DEF JobTypes, CompleteSets, vars, bucket, notifyPc
<1>4. ASSUME NEW k \in SetKeys, ReadSet(k)
      PROVE  CleaningTypes'
  <2>1. UNCHANGED <<vars, begun, job, cutoff, marked, seen, loose, aborts>>
    BY <1>4 DEF ReadSet
  <2>2. listed' \subseteq Documents /\ doomed' \subseteq Documents
    BY <1>4 DEF ReadSet, JobTypes, Documents
  <2> QED
    BY <2>1, <2>2, StutterKeepsTypes DEF JobTypes, CompleteSets, vars, bucket, notifyPc
<1>5. ASSUME NEW k \in SetKeys, DeleteSet(k)
      PROVE  CleaningTypes'
  <2>1. TypeInv'
    BY <1>5, BucketKeepsTypes DEF DeleteSet, TypeInv, TypeOK
  <2>2. CompleteSets'
    BY <1>5 DEF DeleteSet, CompleteSets, Complete, runState, notifyPc, TypeInv, TypeOK
  <2> QED
    BY <1>5, <2>1, <2>2 DEF DeleteSet, JobTypes
<1> QED
  BY <1>1, <1>2, <1>3, <1>4, <1>5 DEF Purge

LEMMA MarkAndSweepKeepsTypes ==
    ASSUME CleaningTypes, MarkAndSweep
    PROVE  CleaningTypes'
<1> USE DEF CleaningTypes
<1>1. CASE TurnToMarking \/ TurnToSingles \/ TurnToSweep
  <2>1. UNCHANGED <<vars, begun, cutoff, doomed, marked, seen, loose, aborts>>
    BY <1>1 DEF TurnToMarking, TurnToSingles, TurnToSweep
  <2>2. listed' \subseteq Documents /\ job' \in JobPhase
    BY <1>1, DocumentsAreDocuments
       DEF TurnToMarking, TurnToSingles, TurnToSweep, JobTypes, JobPhase
  <2> QED
    BY <2>1, <2>2, StutterKeepsTypes DEF JobTypes, CompleteSets, vars, bucket, notifyPc
<1>2. ASSUME NEW k \in SetKeys, MarkSet(k)
      PROVE  CleaningTypes'
  <2>1. UNCHANGED <<vars, begun, job, cutoff, doomed, seen, loose, aborts>>
    BY <1>2 DEF MarkSet
  <2>2. sets[k] \in ManifestSet /\ \A f \in Flavours : sets[k].manifests[f] # Nil
    BY <1>2 DEF MarkSet, TypeInv, TypeOK, CompleteSets, Complete
  <2>3. listed' \subseteq Documents /\ marked' \subseteq ImageObjects \cup LogObjects
    BY <1>2, <2>2, MarkedInRange DEF MarkSet, JobTypes
  <2> QED
    BY <2>1, <2>3, StutterKeepsTypes DEF JobTypes, CompleteSets, vars, bucket, notifyPc
<1>3. ASSUME NEW f \in Flavours, MarkSingle(f)
      PROVE  CleaningTypes'
  <2>1. UNCHANGED <<vars, begun, job, cutoff, doomed, seen, loose, aborts>>
    BY <1>3 DEF MarkSingle
  <2>2. singles[f] \in Manifest
    BY <1>3 DEF MarkSingle, TypeInv, TypeOK
  <2>3. listed' \subseteq Documents /\ marked' \subseteq ImageObjects \cup LogObjects
    BY <1>3, <2>2, PathsInRange DEF MarkSingle, JobTypes
  <2> QED
    BY <2>1, <2>3, StutterKeepsTypes DEF JobTypes, CompleteSets, vars, bucket, notifyPc
<1>4. CASE ListPage
  <2>1. UNCHANGED <<vars, begun, job, cutoff, listed, doomed, marked, aborts>>
    BY <1>4 DEF ListPage
  <2>2. PICK page \in Pages : seen' = seen \cup page /\ loose' = page \ marked
    BY <1>4 DEF ListPage
  <2>3. page \subseteq ImageObjects \cup LogObjects
    BY DEF Pages, TypeInv, TypeOK
  <2> QED
    BY <2>1, <2>2, <2>3, StutterKeepsTypes
       DEF JobTypes, CompleteSets, vars, bucket, notifyPc
<1>5. CASE DeleteLoose
  <2>1. TypeInv'
    BY <1>5, BucketKeepsTypes DEF DeleteLoose, TypeInv, TypeOK
  <2>2. UNCHANGED <<sets, heldSet>>
    BY <1>5 DEF DeleteLoose, runState, notifyPc
  <2> QED
    BY <1>5, <2>1, <2>2 DEF DeleteLoose, JobTypes, CompleteSets
<1>6. CASE EndJob
  <2>1. UNCHANGED <<vars, begun, listed, doomed, loose, aborts>>
    BY <1>6 DEF EndJob
  <2>2. job' \in JobPhase /\ cutoff' \in -MaxAge..MaxTime /\ marked' = {} /\ seen' = {}
    BY <1>6, CutoffInRange DEF EndJob, JobPhase, TypeInv
  <2> QED
    BY <2>1, <2>2, StutterKeepsTypes DEF JobTypes, CompleteSets, vars, bucket, notifyPc
<1> QED
  BY <1>1, <1>2, <1>3, <1>4, <1>5, <1>6 DEF MarkAndSweep

LEMMA JobKeepsTypes ==
    ASSUME CleaningTypes, JobStep \/ JobAborts
    PROVE  CleaningTypes'
<1> USE DEF CleaningTypes
<1>1. CASE StartJob
  <2>1. UNCHANGED <<vars, begun, doomed, marked, seen, loose, aborts>>
    BY <1>1 DEF StartJob
  <2>2. listed' \subseteq Documents /\ cutoff' \in -MaxAge..MaxTime /\ job' \in JobPhase
    BY <1>1, CutoffInRange, DocumentsAreDocuments DEF StartJob, JobPhase, TypeInv
  <2> QED
    BY <2>1, <2>2, StutterKeepsTypes DEF JobTypes, CompleteSets, vars, bucket, notifyPc
<1>2. CASE JobAborts
  <2>1. UNCHANGED <<vars, begun>>
    BY <1>2 DEF JobAborts
  <2>2. JobTypes'
    <3>1. aborts' \in 0..MaxAborts
      BY <1>2, CleaningAssumption DEF JobAborts, JobTypes
    <3> QED
      BY <1>2, <3>1, CutoffInRange DEF JobAborts, JobTypes, JobPhase, TypeInv
  <2> QED
    BY <2>1, <2>2, StutterKeepsTypes DEF CompleteSets, vars, bucket, notifyPc
<1> QED
  BY <1>1, <1>2, PurgeKeepsTypes, MarkAndSweepKeepsTypes DEF JobStep

\* A set reaches the bucket only when every release was found, and as it was read.
LEMMA RunKeepsComplete ==
    ASSUME TypeInv, CompleteSets, NEW r \in Runs, RunStep(r)
    PROVE  CompleteSets'
<1>1. sets \in [SetKeys -> ManifestSet \cup {Nil}] /\ heldSet \in [Runs -> ManifestSet \cup {Nil}]
  BY DEF TypeInv, TypeOK
<1>2. ASSUME NEW f \in Flavours, BuildTask(r, f) \/ TestTask(r, f)
      PROVE  UNCHANGED <<sets, heldSet>>
  BY <1>2 DEF BuildTask, PreBuild, BuildImage, UploadObjects, PublishOci, UploadManifest,
     PromoteSingle, PublishImage, PublishFails, PersistSingle, BuildFails,
     TestTask, PreCheckTests, RunTests, UploadTestResult, TestFails, bucket, notifyPc
<1>3. CASE PromoteTask(r)
  <2>1. UNCHANGED heldSet
    BY <1>3 DEF PromoteTask, BuildComponentDescriptor, CollectRelease, PromoteSet,
       ReleaseStep, PromoteFails, notifyPc
  <2>2. CASE UNCHANGED sets
    BY <2>1, <2>2 DEF CompleteSets
  <2>3. CASE PromoteSet(r) /\ \A f \in Flavours : found[r][f] # Nil
    <3> DEFINE made == [manifests |-> found[r], logs |-> {}]
               key == SetKeyOf(kind[r], clock)
    <3>1. Complete(made)
      BY <2>3 DEF Complete
    <3>2. sets' = [sets EXCEPT ![key] = made]
      BY <2>3 DEF UploadReleaseManifestSet, PromoteSet
    <3> HIDE DEF made, key
    <3> QED
      BY <1>1, <2>1, <3>1, <3>2 DEF CompleteSets
  <2> QED
    BY <1>3, <2>2, <2>3 DEF PromoteTask, BuildComponentDescriptor, CollectRelease, PromoteSet,
       ReleaseStep, PromoteFails, bucket
<1>4. CASE NotifyTask(r)
  <2>1. CASE UNCHANGED <<sets, heldSet>>
    BY <2>1 DEF CompleteSets
  <2>2. CASE FetchSet(r) /\ setKey[r] # Nil /\ sets[setKey[r]] # Nil
    <3> DEFINE s == [sets[setKey[r]] EXCEPT !.logs = @ \cup {logKey[r]}]
    <3>1. heldSet' = [heldSet EXCEPT ![r] = s] /\ UNCHANGED sets
      BY <2>2 DEF ReleaseManifestSet, FetchSet, bucket
    <3>2. sets[setKey[r]] \in ManifestSet /\ Complete(sets[setKey[r]])
      BY <2>2 DEF CompleteSets, TypeInv, TypeOK
    <3>3. s.manifests = sets[setKey[r]].manifests
      BY <3>2 DEF ManifestSet
    <3>4. Complete(s)
      BY <2>2, <3>2, <3>3 DEF Complete
    <3> HIDE DEF s
    <3> QED
      BY <1>1, <3>1, <3>4 DEF CompleteSets
  <2>3. ASSUME NEW f \in Flavours, CollectLog(r, f), heldSet' # heldSet
        PROVE  CompleteSets'
    <3> DEFINE s == [heldSet[r] EXCEPT !.logs = @ \cup {singles[f].log}]
    <3>1. heldSet' = [heldSet EXCEPT ![r] = s] /\ UNCHANGED sets
      BY <2>3 DEF CollectLog, bucket
    <3>2. heldSet[r] \in ManifestSet /\ Complete(heldSet[r])
      BY <2>3 DEF CollectLog, CompleteSets, TypeInv, Holding
    <3>3. s.manifests = heldSet[r].manifests /\ heldSet[r] # Nil
      BY <3>2, NoDocumentIsNil DEF ManifestSet
    <3>4. Complete(s)
      BY <3>2, <3>3 DEF Complete
    <3> HIDE DEF s
    <3> QED
      BY <1>1, <3>1, <3>4 DEF CompleteSets
  <2>4. CASE AttachSet(r)
    <3>1. setKey[r] \in SetKeys /\ Complete(heldSet[r]) /\ Complete(Nil)
      BY <2>4 DEF AttachSet, TypeInv, Holding, CompleteSets, Complete
    <3>2. /\ sets' = [sets EXCEPT ![setKey[r]] = heldSet[r]]
          /\ heldSet' = [heldSet EXCEPT ![r] = Nil]
      BY <2>4 DEF AttachSet, UploadReleaseManifestSet
    <3> QED
      BY <1>1, <3>1, <3>2 DEF CompleteSets
  <2>5. CASE heldSet' = [heldSet EXCEPT ![r] = Nil] /\ UNCHANGED sets
    BY <1>1, <2>5 DEF CompleteSets, Complete
  <2> QED
    BY <1>4, <2>1, <2>2, <2>3, <2>4, <2>5
       DEF NotifyTask, UploadLogs, AttachRead, AttachWrite, FetchSet, CollectLog, NotifyFails,
           UploadReleaseManifest, ReleaseManifestSet, bucket, notifyPc
<1> QED
  BY <1>2, <1>3, <1>4 DEF RunStep, CompleteSets

LEMMA PipelineKeepsTypes ==
    ASSUME CleaningTypes, PipelineStep
    PROVE  CleaningTypes'
<1> USE DEF CleaningTypes
<1>1. TypeInv'
  BY StepKeepsTypes DEF PipelineStep, Next
<1>2. CompleteSets'
  <2>1. CASE Tick \/ \E r \in Runs : StartRun(r)
    BY <2>1 DEF Tick, StartRun, CompleteSets, bucket, notifyPc
  <2> QED
    BY <2>1, RunKeepsComplete DEF PipelineStep
<1>3. JobTypes'
  <2>1. begun' \in [Runs -> Time]
    <3>1. clock \in Time /\ 0 \in Time /\ begun \in [Runs -> Time]
      BY ConstantsAssumption DEF TypeInv, TypeOK, JobTypes, Time
    <3> QED
      BY <3>1 DEF PipelineStep
  <2>2. UNCHANGED jobVars
    BY DEF PipelineStep
  <2> QED
    BY <2>1, <2>2 DEF JobTypes, jobVars
<1> QED
  BY <1>1, <1>2, <1>3

LEMMA InitCleaningTypes == CleaningInit => CleaningTypes
<1> SUFFICES ASSUME CleaningInit
             PROVE  CleaningTypes
  OBVIOUS
<1>1. TypeInv
  BY InitTypes DEF CleaningInit
<1>2. CompleteSets
  BY DEF CleaningInit, Init, CompleteSets, Complete
<1>3. JobTypes
  <2>1. 0 \in Time /\ 0 \in 0..MaxAborts /\ "idle" \in JobPhase
    BY ConstantsAssumption, CleaningAssumption DEF Time, JobPhase
  <2> QED
    BY <1>1, <2>1, CutoffInRange DEF CleaningInit, JobTypes, TypeInv
<1> QED
  BY <1>1, <1>2, <1>3 DEF CleaningTypes

LEMMA StepKeepsCleaningTypes == CleaningTypes /\ [CleaningNext]_allVars => CleaningTypes'
<1> SUFFICES ASSUME CleaningTypes, [CleaningNext]_allVars
             PROVE  CleaningTypes'
  OBVIOUS
<1>1. CASE UNCHANGED allVars
  <2>1. TypeInv'
    BY <1>1, StutterKeepsTypes DEF CleaningTypes, allVars
  <2> QED
    BY <1>1, <2>1 DEF CleaningTypes, CompleteSets, JobTypes, allVars, vars, bucket, notifyPc,
       jobVars
<1> QED
  BY <1>1, PipelineKeepsTypes, JobKeepsTypes DEF CleaningNext

\* The variables of the job and of the pipelines keep their types, also when runs come
\* and go while the job reads, deletes and breaks off.
THEOREM CleaningTypeCorrect == CleaningSpec => []CleaningTypeOK
<1>1. CleaningTypes => CleaningTypeOK
  BY DEF CleaningTypes, TypeInv, JobTypes, CleaningTypeOK
<1> QED
  BY InitCleaningTypes, StepKeepsCleaningTypes, <1>1, PTL DEF CleaningSpec

-----------------------------------------------------------------------------
(* The job by itself: what it deletes, and what it does not.                 *)

\* Once no run is in flight nothing it may have left in memory is used again.
LEMMA NobodyUses ==
    ASSUME TypeInv, InFlight = {}, UNCHANGED runState
    PROVE  ImagesInUse' /\ InFlight' = {}
<1>1. ASSUME NEW r \in Runs
      PROVE  phase[r] \in {"idle", "done", "failed"}
  BY DEF InFlight
<1>2. ASSUME NEW r \in Runs
      PROVE  /\ promote[r] \in Idle /\ attaching[r] = Nil
             /\ \A f \in Flavours : build[r][f] \in Idle /\ test[r][f] \in Idle
  BY <1>1 DEF TypeInv, Scheduling
<1>3. UNCHANGED <<phase, build, test, promote, attaching>>
  BY DEF runState, buildPc, promotePc, notifyPc
<1>4. ASSUME NEW r \in Runs, NEW f \in Flavours
      PROVE  InUse(r, f)'
  <2>1. attaching[r] # f
    BY <1>2, ConstantsAssumption
  <2> QED
    BY <1>2, <1>3, <2>1 DEF InUse, Idle
<1> QED
  BY <1>1, <1>3, <1>4 DEF ImagesInUse, InFlight

LEMMA RunStateOfVars ==
    ASSUME UNCHANGED vars
    PROVE  UNCHANGED <<runState, objects, singles, sets>>
BY DEF vars, runState, bucket

LEMMA KeysOfDocuments ==
    /\ \A k, q : Set(k) = Set(q) => k = q
    /\ \A f, g : Single(f) = Single(g) => f = g
    /\ \A k, f : Set(k) # Single(f)
BY DEF Set, Single

LEMMA StoredAre ==
    /\ \A f \in Flavours : singles[f] # Nil => Single(f) \in StoredSingles
    /\ \A kinds : \A k \in SetKeys : Set(k) \in StoredSets(kinds) <=> k[1] \in kinds /\ sets[k] # Nil
    /\ \A k \in SetKeys : Set(k) \notin StoredSingles
<1>1. \A f \in Flavours : singles[f] # Nil => Single(f) \in StoredSingles
  BY DEF StoredSingles
<1>2. ASSUME NEW k \in SetKeys, NEW kinds
      PROVE  Set(k) \in StoredSets(kinds) <=> k[1] \in kinds /\ sets[k] # Nil
  BY KeysOfDocuments DEF StoredSets
<1>3. \A k \in SetKeys : Set(k) \notin StoredSingles
  BY KeysOfDocuments DEF StoredSingles
<1> QED
  BY <1>1, <1>2, <1>3

\* The steps of the job that leave the bucket alone.
LEMMA ReadingKeepsImages ==
    ASSUME CleaningTypes, Undisturbed, UNCHANGED vars, BySelf', OnlySnapshots', Marking'
    PROVE  Undisturbed'
<1>1. UNCHANGED <<runState, objects, singles, sets>>
  BY RunStateOfVars
<1>2. ImagesInBucket'
  BY <1>1 DEF Undisturbed, ImagesInBucket
<1>3. ImagesInUse'
  BY <1>1 DEF Undisturbed, ImagesInUse, InUse, runState, buildPc, promotePc, notifyPc
<1> QED
  BY <1>2, <1>3 DEF Undisturbed

\* Nobody is disturbed as long as the job keeps to its order and nobody starts.
LEMMA WorkingKeepsImages ==
    ASSUME CleaningTypes, Undisturbed, UNCHANGED runState, job # "idle" \/ doomed # {},
           ImagesInBucket', OnlySnapshots', Marking'
    PROVE  Undisturbed'
<1>1. InFlight = {}
  BY DEF Undisturbed, BySelf
<1>2. ImagesInUse' /\ BySelf'
  BY <1>1, NobodyUses DEF CleaningTypes, BySelf
<1> QED
  BY <1>2 DEF Undisturbed

LEMMA PurgeKeepsImages ==
    ASSUME CleaningTypes, Undisturbed, Purge
    PROVE  Undisturbed'
<1>1. ASSUME NEW f \in Flavours, ReadSingle(f)
      PROVE  Undisturbed'
  <2>1. UNCHANGED <<runState, objects, singles, sets>> /\ UNCHANGED <<job, marked, loose>>
    BY <1>1, RunStateOfVars DEF ReadSingle
  <2>2. job = "singles" /\ doomed' \subseteq doomed \cup {Single(f)}
    BY <1>1 DEF ReadSingle
  <2>3. OnlySnapshots'
    BY <2>1, <2>2, KeysOfDocuments DEF Undisturbed, OnlySnapshots
  <2>4. ImagesInBucket' /\ Marking'
    BY <2>1, <2>2 DEF Undisturbed, ImagesInBucket, Marking
  <2> QED
    BY <2>1, <2>2, <2>3, <2>4, WorkingKeepsImages
<1>2. ASSUME NEW f \in Flavours, DeleteSingle(f)
      PROVE  Undisturbed'
  <2>1. /\ UNCHANGED <<objects, sets, runState, job, listed, marked, loose>>
        /\ doomed # {} /\ doomed' \subseteq doomed
    BY <1>2 DEF DeleteSingle
  <2>2. \A g \in Flavours : singles'[g] = singles[g] \/ singles'[g] = Nil
    BY <1>2 DEF DeleteSingle, CleaningTypes, TypeInv, TypeOK
  <2>3. ImagesInBucket'
    BY <2>1, <2>2 DEF Undisturbed, ImagesInBucket, HasImage
  <2>4. OnlySnapshots' /\ Marking'
    BY <2>1, <2>2 DEF Undisturbed, OnlySnapshots, Marking
  <2> QED
    BY <2>1, <2>3, <2>4, WorkingKeepsImages
<1>3. CASE TurnToSets
  <2>1. UNCHANGED <<runState, objects, singles, sets>> /\ UNCHANGED <<doomed, marked, loose>>
    BY <1>3, RunStateOfVars DEF TurnToSets
  <2>2. job = "singles" /\ job' = "sets" /\ listed' = StoredSets({"snapshot"})
    BY <1>3 DEF TurnToSets
  <2>3. OnlySnapshots'
    BY <2>1, <2>2, StoredAre DEF Undisturbed, OnlySnapshots
  <2>4. ImagesInBucket' /\ Marking'
    BY <2>1, <2>2 DEF Undisturbed, ImagesInBucket, Marking
  <2> QED
    BY <2>1, <2>2, <2>3, <2>4, WorkingKeepsImages
<1>4. ASSUME NEW k \in SetKeys, ReadSet(k)
      PROVE  Undisturbed'
  <2>1. UNCHANGED <<runState, objects, singles, sets>> /\ UNCHANGED <<job, marked, loose>>
    BY <1>4, RunStateOfVars DEF ReadSet
  <2>2. /\ job = "sets" /\ Set(k) \in listed
        /\ listed' \subseteq listed /\ doomed' \subseteq doomed \cup {Set(k)}
    BY <1>4 DEF ReadSet
  <2>3. OnlySnapshots'
    BY <2>1, <2>2, KeysOfDocuments DEF Undisturbed, OnlySnapshots
  <2>4. ImagesInBucket' /\ Marking'
    BY <2>1, <2>2 DEF Undisturbed, ImagesInBucket, Marking
  <2> QED
    BY <2>1, <2>2, <2>3, <2>4, WorkingKeepsImages
<1>5. ASSUME NEW k \in SetKeys, DeleteSet(k)
      PROVE  Undisturbed'
  <2>1. /\ UNCHANGED <<objects, singles, runState, job, listed, marked, loose>>
        /\ doomed # {} /\ doomed' \subseteq doomed
    BY <1>5 DEF DeleteSet
  <2>2. \A q \in SetKeys : sets'[q] = sets[q] \/ sets'[q] = Nil
    BY <1>5 DEF DeleteSet, CleaningTypes, TypeInv, TypeOK
  <2>3. ImagesInBucket'
    BY <2>1, <2>2 DEF Undisturbed, ImagesInBucket, HasImages
  <2>4. OnlySnapshots' /\ Marking'
    BY <2>1, <2>2 DEF Undisturbed, OnlySnapshots, Marking
  <2> QED
    BY <2>1, <2>3, <2>4, WorkingKeepsImages
<1> QED
  BY <1>1, <1>2, <1>3, <1>4, <1>5 DEF Purge

LEMMA MarkingKeepsImages ==
    ASSUME CleaningTypes, Undisturbed, TurnToMarking \/ TurnToSingles \/ TurnToSweep
    PROVE  Undisturbed'
<1>1. UNCHANGED <<runState, objects, singles, sets>> /\ UNCHANGED <<doomed, marked, loose>>
  BY RunStateOfVars DEF TurnToMarking, TurnToSingles, TurnToSweep
<1>2. /\ job \in {"sets", "mark_sets", "mark_singles"}
      /\ job' \in {"mark_sets", "mark_singles", "sweep"}
  BY DEF TurnToMarking, TurnToSingles, TurnToSweep
<1>3. ImagesInBucket' /\ OnlySnapshots'
  BY <1>1, <1>2 DEF Undisturbed, ImagesInBucket, OnlySnapshots
<1>4. loose' = {}
  BY <1>1, <1>2 DEF Undisturbed, Marking
<1>5. Marking'
  <2>1. CASE TurnToMarking
    <3>1. job' = "mark_sets" /\ listed' = StoredSets(Kind)
      BY <2>1 DEF TurnToMarking
    <3>2. \A k \in SetKeys : sets[k] # Nil => Set(k) \in listed'
      BY <3>1, StoredAre DEF SetKeys
    <3> QED
      BY <1>1, <1>4, <3>1, <3>2 DEF Marking
  <2>2. CASE TurnToSingles
    <3>1. /\ job = "mark_sets" /\ listed = {}
          /\ job' = "mark_singles" /\ listed' = StoredSingles
      BY <2>2 DEF TurnToSingles
    <3>2. \A f \in Flavours : singles[f] # Nil => Single(f) \in listed'
      BY <3>1, StoredAre
    <3> QED
      BY <1>1, <1>4, <3>1, <3>2 DEF Marking, Undisturbed
  <2>3. CASE TurnToSweep
    <3>1. job = "mark_singles" /\ listed = {} /\ job' = "sweep" /\ UNCHANGED listed
      BY <2>3 DEF TurnToSweep
    <3> QED
      BY <1>1, <1>4, <3>1 DEF Marking, Undisturbed
  <2> QED
    BY <2>1, <2>2, <2>3
<1> QED
  BY <1>1, <1>2, <1>3, <1>5, WorkingKeepsImages

LEMMA MarkKeepsImages ==
    ASSUME CleaningTypes, Undisturbed,
           (\E k \in SetKeys : MarkSet(k)) \/ (\E f \in Flavours : MarkSingle(f))
    PROVE  Undisturbed'
<1>1. /\ UNCHANGED <<runState, objects, singles, sets>> /\ UNCHANGED <<job, doomed, loose>>
      /\ job \in {"mark_sets", "mark_singles"}
  BY RunStateOfVars DEF MarkSet, MarkSingle
<1>2. ImagesInBucket' /\ OnlySnapshots' /\ loose' = {}
  BY <1>1 DEF Undisturbed, ImagesInBucket, OnlySnapshots, Marking
<1>3. ASSUME NEW k \in SetKeys, MarkSet(k)
      PROVE  Marking'
  <2>1. /\ job = "mark_sets" /\ listed' = listed \ {Set(k)}
        /\ marked' = marked \cup MarkedBySet(sets[k])
    BY <1>3 DEF MarkSet
  <2>2. \A q \in SetKeys : sets[q] # Nil /\ Set(q) \notin listed' => MarkedBySet(sets[q]) \subseteq marked'
    BY <2>1, KeysOfDocuments DEF Undisturbed, Marking
  <2> QED
    BY <1>1, <1>2, <2>1, <2>2 DEF Marking
<1>4. ASSUME NEW f \in Flavours, MarkSingle(f)
      PROVE  Marking'
  <2>1. /\ job = "mark_singles" /\ listed' = listed \ {Single(f)}
        /\ marked' = marked \cup PathsOf(f, singles[f])
    BY <1>4 DEF MarkSingle
  <2>2. \A g \in Flavours : singles[g] # Nil /\ Single(g) \notin listed' => PathsOf(g, singles[g]) \subseteq marked'
    BY <2>1, KeysOfDocuments DEF Undisturbed, Marking
  <2>3. \A q \in SetKeys : sets[q] # Nil => MarkedBySet(sets[q]) \subseteq marked'
    BY <2>1 DEF Undisturbed, Marking
  <2> QED
    BY <1>1, <1>2, <2>1, <2>2, <2>3 DEF Marking
<1> QED
  BY <1>1, <1>2, <1>3, <1>4, WorkingKeepsImages

\* The images that documents name are marked when it comes to the sweep.
LEMMA SweepSpares ==
    ASSUME CleaningTypes, Undisturbed, DeleteLoose
    PROVE  /\ job = "sweep"
           /\ \A f \in Flavours : singles[f] # Nil => PathsOf(f, singles[f]) \cap loose = {}
           /\ \A k \in SetKeys : sets[k] # Nil => MarkedBySet(sets[k]) \cap loose = {}
BY DEF DeleteLoose, Undisturbed, Marking

LEMMA SweepKeepsImages ==
    ASSUME CleaningTypes, Undisturbed, ListPage \/ DeleteLoose
    PROVE  Undisturbed'
<1>1. CASE ListPage
  <2>1. /\ UNCHANGED <<runState, objects, singles, sets>> /\ UNCHANGED <<job, listed, doomed, marked>>
        /\ job = "sweep" /\ loose' \cap marked = {}
    BY <1>1, RunStateOfVars DEF ListPage
  <2>2. ImagesInBucket' /\ OnlySnapshots' /\ Marking'
    BY <2>1 DEF Undisturbed, ImagesInBucket, OnlySnapshots, Marking
  <2> QED
    BY <2>1, <2>2, WorkingKeepsImages
<1>2. CASE DeleteLoose
  <2>1. /\ UNCHANGED <<singles, sets, runState, job, listed, doomed, marked>>
        /\ objects' = objects \ loose /\ loose' = {}
    BY <1>2 DEF DeleteLoose
  <2>2. OnlySnapshots' /\ Marking'
    BY <2>1 DEF Undisturbed, OnlySnapshots, Marking
  <2>3. ASSUME NEW f \in Flavours
        PROVE  HasImage(f, singles[f], objects')
    BY <1>2, <2>1, SweepSpares DEF Undisturbed, ImagesInBucket, HasImage
  <2>4. ASSUME NEW k \in SetKeys
        PROVE  HasImages(sets[k], objects')
    <3> SUFFICES ASSUME sets[k] # Nil, NEW f \in Flavours
                 PROVE  HasImage(f, sets[k].manifests[f], objects')
      BY DEF HasImages
    <3>1. PathsOf(f, sets[k].manifests[f]) \subseteq MarkedBySet(sets[k])
      BY DEF MarkedBySet
    <3> QED
      BY <1>2, <2>1, <3>1, SweepSpares DEF Undisturbed, ImagesInBucket, HasImages, HasImage
  <2>5. ImagesInBucket'
    BY <2>1, <2>3, <2>4 DEF ImagesInBucket
  <2> QED
    BY <1>2, <2>1, <2>2, <2>5, SweepSpares, WorkingKeepsImages
<1> QED
  BY <1>1, <1>2

\* The job begins when no run is in flight, and ends or breaks off at any point.
LEMMA JobKeepsImages ==
    ASSUME CleaningTypes, Undisturbed, ~CleanWhileRunning, JobStep \/ JobAborts
    PROVE  Undisturbed'
<1>1. CASE StartJob
  <2>1. UNCHANGED vars /\ UNCHANGED <<doomed, marked, loose>>
    BY <1>1 DEF StartJob
  <2>2. /\ InFlight = {} /\ job = "idle" /\ doomed = {}
        /\ job' = "singles" /\ listed' = StoredSingles
    BY <1>1 DEF StartJob, Idling
  <2>3. BySelf'
    <3>1. UNCHANGED runState
      BY <2>1, RunStateOfVars
    <3> QED
      BY <2>2, <3>1, NobodyUses DEF BySelf, CleaningTypes
  <2>4. OnlySnapshots' /\ Marking'
    BY <2>1, <2>2 DEF Undisturbed, OnlySnapshots, Marking
  <2> QED
    BY <2>1, <2>3, <2>4, ReadingKeepsImages
<1>2. CASE EndJob \/ JobAborts
  <2>1. /\ UNCHANGED vars /\ job # "idle" /\ job' = "idle"
        /\ doomed' \subseteq doomed /\ loose' = {}
    BY <1>2 DEF EndJob, JobAborts
  <2>2. BySelf'
    <3>1. UNCHANGED runState
      BY <2>1, RunStateOfVars
    <3> QED
      BY <2>1, <3>1, NobodyUses DEF BySelf, CleaningTypes, Undisturbed
  <2>3. OnlySnapshots' /\ Marking'
    BY <2>1 DEF Undisturbed, OnlySnapshots, Marking
  <2> QED
    BY <2>1, <2>2, <2>3, ReadingKeepsImages
<1> QED
  BY <1>1, <1>2, PurgeKeepsImages, MarkingKeepsImages, MarkKeepsImages, SweepKeepsImages
     DEF JobStep, MarkAndSweep

-----------------------------------------------------------------------------
(* The runs: a document reaches the bucket after its image, or is a copy of   *)
(* one that did.                                                             *)

Images == ImagesInBucket /\ ImagesInUse

LEMMA ImageStays ==
    ASSUME NEW A, NEW B, A \subseteq B
    PROVE  /\ \A f, m : HasImage(f, m, A) => HasImage(f, m, B)
           /\ \A s : HasImages(s, A) => HasImages(s, B)
BY DEF HasImage, HasImages

\* Amending a manifest does not change which image it names.
LEMMA AmendedHasImage ==
    ASSUME NEW m \in Manifest, NEW f, NEW A, HasImage(f, m, A)
    PROVE  /\ \A p : HasImage(f, [m EXCEPT !.pub = p], A)
           /\ \A t : HasImage(f, [m EXCEPT !.test = t], A)
           /\ \A l : HasImage(f, [m EXCEPT !.log = l], A)
<1>1. m # Nil
  BY NoDocumentIsNil
<1>2. \A p : [m EXCEPT !.pub = p].content = m.content
  BY DEF Manifest
<1>3. \A t : [m EXCEPT !.test = t].content = m.content
  BY DEF Manifest
<1>4. \A l : [m EXCEPT !.log = l].content = m.content
  BY DEF Manifest
<1> QED
  BY <1>1, <1>2, <1>3, <1>4 DEF HasImage, PathsOf

\* What a step puts into the bucket has its image there.
Upheld ==
    /\ objects \subseteq objects'
    /\ \A f \in Flavours : singles'[f] = singles[f] \/ HasImage(f, singles'[f], objects')
    /\ \A k \in SetKeys : sets'[k] = sets[k] \/ HasImages(sets'[k], objects')

LEMMA UpheldBucket ==
    ASSUME ImagesInBucket, Upheld
    PROVE  ImagesInBucket'
BY ImageStays DEF ImagesInBucket, Upheld

\* What the step does not touch is used as before.
LEMMA StillInUse ==
    ASSUME NEW r \in Runs, NEW f \in Flavours, InUse(r, f), objects \subseteq objects',
           build'[r][f] = build[r][f], output'[r][f] = output[r][f],
           held'[r][f] = held[r][f], test'[r][f] = test[r][f], attaching'[r] = attaching[r],
           promote'[r] = promote[r], todo'[r] = todo[r], found'[r][f] = found[r][f]
    PROVE  InUse(r, f)'
BY ImageStays DEF InUse

LEMMA BuildUpholds ==
    ASSUME TypeInv, Images, NEW r \in Runs, NEW f \in Flavours, BuildMoves(r, f),
           objects \subseteq objects',
           \A g \in Flavours : singles'[g] = singles[g] \/ HasImage(g, singles'[g], objects'),
           build'[r][f] \in {"publish_oci", "upload_manifest"} => ImageObject(f, output'[r][f]) \in objects',
           build'[r][f] \in {"publish", "persist"} => HasImage(f, held'[r][f], objects')
    PROVE  Images'
<1>1. UNCHANGED <<sets, test, promote, found, attaching, todo, heldSet, phase>>
  BY DEF BuildMoves
<1>2. test[r][f] = "pending" /\ attaching[r] = Nil
  BY DEF BuildMoves, TypeInv, Scheduling
<1>3. ASSUME NEW q \in Runs, NEW g \in Flavours
      PROVE  InUse(q, g)'
  <2>0. InUse(q, g)
    BY DEF Images, ImagesInUse
  <2>1. CASE q = r /\ g = f
    <3>1. attaching[r] # f
      BY <1>2, ConstantsAssumption
    <3> QED
      BY <1>1, <1>2, <2>0, <2>1, <3>1, ImageStays DEF InUse
  <2>2. CASE q # r \/ g # f
    BY <1>1, <2>0, <2>2, StillInUse DEF BuildMoves, Elsewhere
  <2> QED
    BY <2>1, <2>2
<1>4. \A q \in Runs : phase'[q] = "attach_set" => HasImages(heldSet'[q], objects')
  BY <1>1, ImageStays DEF Images, ImagesInUse
<1>5. Upheld
  BY <1>1 DEF Upheld
<1> QED
  BY <1>3, <1>4, <1>5, UpheldBucket DEF Images, ImagesInUse

LEMMA BuildKeepsImages ==
    ASSUME TypeInv, Images, NEW r \in Runs, NEW f \in Flavours, BuildTask(r, f)
    PROVE  Images'
<1>0. build \in [Runs -> [Flavours -> BuildStep]]
  BY DEF TypeInv, TypeOK
<1>1. CASE PreBuild(r, f)
  <2>1. BuildMoves(r, f)
    BY <1>1, PreBuildMoves
  <2>2. /\ build'[r][f] \notin {"publish_oci", "upload_manifest", "publish", "persist"}
        /\ UNCHANGED <<objects, singles>>
    BY <1>0, <1>1 DEF PreBuild, GoBuild, bucket
  <2> QED
    BY <2>1, <2>2, BuildUpholds
<1>2. CASE BuildImage(r, f)
  <2>1. BuildMoves(r, f)
    BY <1>2, BuildImageMoves
  <2>2. /\ build'[r][f] \notin {"publish_oci", "upload_manifest", "publish", "persist"}
        /\ UNCHANGED <<objects, singles>>
    BY <1>0, <1>2 DEF BuildImage, GoBuild, bucket
  <2> QED
    BY <2>1, <2>2, BuildUpholds
<1>3. CASE UploadObjects(r, f)
  <2>1. BuildMoves(r, f)
    BY <1>3, UploadObjectsMoves
  <2>2. /\ objects \subseteq objects' /\ UNCHANGED singles
        /\ ImageObject(f, output'[r][f]) \in objects'
        /\ build'[r][f] \notin {"publish", "persist"}
    BY <1>0, <1>3 DEF UploadObjects, GoBuild, AfterObjects
  <2> QED
    BY <2>1, <2>2, BuildUpholds
<1>4. CASE PublishOci(r, f)
  <2>1. BuildMoves(r, f)
    BY <1>4, PublishOciMoves
  <2>2. /\ UNCHANGED <<objects, singles, output>>
        /\ ImageObject(f, output[r][f]) \in objects
        /\ build'[r][f] \notin {"publish", "persist"}
    BY <1>0, <1>4 DEF PublishOci, GoBuild, Images, ImagesInUse, InUse, bucket
  <2> QED
    BY <2>1, <2>2, BuildUpholds
<1>5. CASE UploadManifest(r, f)
  <2> DEFINE m == FreshManifest(r, f)
  <2>1. BuildMoves(r, f)
    BY <1>5, UploadManifestMoves
  <2>2. ImageObject(f, output[r][f]) \in objects
    BY <1>5 DEF UploadManifest, Images, ImagesInUse, InUse
  <2>3. HasImage(f, m, objects)
    BY <2>2 DEF HasImage, PathsOf, FreshManifest
  <2>4. singles' = [singles EXCEPT ![f] = m] /\ UNCHANGED objects
    BY <1>5 DEF UploadReleaseManifest, UploadManifest
  <2>5. singles \in [Flavours -> Manifest \cup {Nil}]
    BY DEF TypeInv, TypeOK
  <2> HIDE DEF m
  <2>6. \A g \in Flavours : singles'[g] = singles[g] \/ HasImage(g, singles'[g], objects')
    BY <2>3, <2>4, <2>5
  <2>7. build'[r][f] \notin {"publish_oci", "upload_manifest", "publish", "persist"}
    BY <1>0, <1>5 DEF UploadManifest, GoBuild
  <2> QED
    BY <2>1, <2>4, <2>6, <2>7, BuildUpholds
<1>6. CASE PromoteSingle(r, f)
  <2>1. BuildMoves(r, f)
    BY <1>6, PromoteSingleMoves
  <2>2. build'[r][f] \notin {"publish_oci", "upload_manifest"} /\ UNCHANGED <<objects, singles>>
    BY <1>0, <1>6 DEF PromoteSingle, GoBuild, bucket
  <2>3. CASE build'[r][f] \notin {"publish", "persist"}
    BY <2>1, <2>2, <2>3, BuildUpholds
  <2>4. CASE singles[f] # Nil /\ held' = [held EXCEPT ![r][f] = Prepared(f)]
    <3>1. singles[f] \in Manifest /\ HasImage(f, singles[f], objects)
      BY <2>4 DEF TypeInv, TypeOK, Images, ImagesInBucket
    <3>2. HasImage(f, Prepared(f), objects)
      BY <3>1, AmendedHasImage DEF Prepared
    <3>3. held'[r][f] = Prepared(f)
      BY <2>4 DEF TypeInv, TypeOK
    <3> QED
      BY <2>1, <2>2, <3>2, <3>3, BuildUpholds
  <2> QED
    BY <1>0, <1>6, <2>3, <2>4 DEF PromoteSingle, GoBuild
<1>7. CASE PublishImage(r, f)
  <2>1. BuildMoves(r, f)
    BY <1>7, PublishImageMoves
  <2>2. build'[r][f] \notin {"publish_oci", "upload_manifest"} /\ UNCHANGED <<objects, singles>>
    BY <1>0, <1>7 DEF PublishImage, GoBuild, bucket
  <2>3. held[r][f] \in Manifest /\ HasImage(f, held[r][f], objects)
    BY <1>7 DEF PublishImage, TypeInv, Holding, Images, ImagesInUse, InUse
  <2>4. held'[r][f] \in {held[r][f], [held[r][f] EXCEPT !.pub = r]}
    BY <1>7 DEF PublishImage, TypeInv, TypeOK
  <2>5. HasImage(f, [held[r][f] EXCEPT !.pub = r], objects)
    BY <2>3, AmendedHasImage
  <2>6. HasImage(f, held'[r][f], objects')
    BY <2>2, <2>3, <2>4, <2>5
  <2> QED
    BY <2>1, <2>2, <2>6, BuildUpholds
<1>8. CASE PublishFails(r, f)
  <2>1. BuildMoves(r, f)
    BY <1>8, PublishFailsMoves
  <2>2. build'[r][f] \notin {"publish_oci", "upload_manifest"} /\ UNCHANGED <<objects, singles>>
    BY <1>0, <1>8 DEF PublishFails, GoBuild, bucket
  <2>3. HasImage(f, held[r][f], objects)
    BY <1>8 DEF PublishFails, Images, ImagesInUse, InUse
  <2>4. held'[r][f] = held[r][f] \/ held'[r][f] = Nil
    BY <1>8 DEF PublishFails, Drop, TypeInv, TypeOK
  <2>5. HasImage(f, held'[r][f], objects')
    BY <2>2, <2>3, <2>4 DEF HasImage
  <2> QED
    BY <2>1, <2>2, <2>5, BuildUpholds
<1>9. CASE PersistSingle(r, f)
  <2>1. BuildMoves(r, f)
    BY <1>9, PersistSingleMoves
  <2>2. /\ build'[r][f] \notin {"publish_oci", "upload_manifest", "publish", "persist"}
        /\ UNCHANGED objects
    BY <1>0, <1>9 DEF PersistSingle, GoBuild
  <2>3. HasImage(f, held[r][f], objects)
    BY <1>9 DEF PersistSingle, Images, ImagesInUse, InUse
  <2>4. \A g \in Flavours : singles'[g] = singles[g] \/ HasImage(g, singles'[g], objects')
    BY <1>9, <2>2, <2>3 DEF UploadReleaseManifest, PersistSingle, TypeInv, TypeOK
  <2> QED
    BY <2>1, <2>2, <2>4, BuildUpholds
<1>10. CASE BuildFails(r, f)
  <2>1. BuildMoves(r, f)
    BY <1>10, BuildFailsMoves
  <2>2. /\ build'[r][f] \notin {"publish_oci", "upload_manifest", "publish", "persist"}
        /\ UNCHANGED <<objects, singles>>
    BY <1>0, <1>10 DEF BuildFails, GoBuild, bucket
  <2> QED
    BY <2>1, <2>2, BuildUpholds
<1> QED
  BY <1>1, <1>2, <1>3, <1>4, <1>5, <1>6, <1>7, <1>8, <1>9, <1>10 DEF BuildTask

LEMMA TestKeepsImages ==
    ASSUME TypeInv, Images, NEW r \in Runs, NEW f \in Flavours, TestTask(r, f)
    PROVE  Images'
<1>1. TestMoves(r, f)
  BY PreCheckTestsMoves, RunTestsMoves, UploadTestResultMoves, TestFailsMoves DEF TestTask
<1>2. UNCHANGED <<objects, sets, build, output, promote, found, attaching, todo, heldSet, phase>>
  BY <1>1 DEF TestMoves, buildPc, promotePc, notifyPc
<1>3. build[r][f] = "done" /\ attaching[r] = Nil
  BY <1>1 DEF TestMoves, TypeInv, Scheduling
<1>4. /\ test \in [Runs -> [Flavours -> TestStep]]
      /\ held \in [Runs -> [Flavours -> Manifest \cup {Nil}]]
      /\ singles \in [Flavours -> Manifest \cup {Nil}]
  BY DEF TypeInv, TypeOK
<1>5. test'[r][f] = "upload_result" => HasImage(f, held'[r][f], objects)
  <2>1. CASE RunTests(r, f) /\ singles[f] # Nil /\ "manifest" \in targets[r]
    <3>1. PICK res \in {"OK", "FAILED"} :
                 held' = [held EXCEPT ![r][f] = [singles[f] EXCEPT !.test = res]]
      BY <2>1 DEF RunTests
    <3>2. singles[f] \in Manifest /\ HasImage(f, singles[f], objects)
      BY <1>4, <2>1 DEF Images, ImagesInBucket
    <3>3. HasImage(f, [singles[f] EXCEPT !.test = res], objects)
      BY <3>2, AmendedHasImage
    <3> QED
      BY <1>4, <3>1, <3>3
  <2>2. CASE ~(RunTests(r, f) /\ singles[f] # Nil /\ "manifest" \in targets[r])
    <3>1. test'[r][f] # "upload_result"
      BY <1>4, <2>2
         DEF TestTask, PreCheckTests, RunTests, UploadTestResult, TestFails, GoTest
    <3> QED
      BY <3>1
  <2> QED
    BY <2>1, <2>2
<1>6. ASSUME NEW q \in Runs, NEW g \in Flavours
      PROVE  InUse(q, g)'
  <2>0. InUse(q, g)
    BY DEF Images, ImagesInUse
  <2>1. CASE q = r /\ g = f
    <3>1. attaching[r] # f
      BY <1>3, ConstantsAssumption
    <3> QED
      BY <1>2, <1>3, <1>5, <2>0, <2>1, <3>1 DEF InUse
  <2>2. CASE q # r \/ g # f
    BY <1>1, <1>2, <2>0, <2>2, StillInUse DEF TestMoves, Elsewhere
  <2> QED
    BY <2>1, <2>2
<1>7. \A g \in Flavours : singles'[g] = singles[g] \/ HasImage(g, singles'[g], objects')
  <2>1. CASE UNCHANGED singles
    BY <2>1
  <2>2. CASE UploadTestResult(r, f)
    BY <1>2, <1>4, <2>2
       DEF UploadReleaseManifest, UploadTestResult, Images, ImagesInUse, InUse
  <2> QED
    BY <2>1, <2>2 DEF TestTask, PreCheckTests, RunTests, TestFails, bucket
<1>8. Upheld
  BY <1>2, <1>7 DEF Upheld
<1> QED
  BY <1>2, <1>6, <1>8, UpheldBucket DEF Images, ImagesInUse

LEMMA PromoteKeepsImages ==
    ASSUME TypeInv, Images, NEW r \in Runs, PromoteTask(r)
    PROVE  Images'
<1>0. /\ found \in [Runs -> [Flavours -> Manifest \cup {Nil}]]
      /\ sets \in [SetKeys -> ManifestSet \cup {Nil}]
      /\ todo \in [Runs -> SUBSET Flavours] /\ promote \in [Runs -> PromoteStep]
  BY DEF TypeInv, TypeOK
<1>1. UNCHANGED <<objects, singles, held, build, output, test, attaching, heldSet, phase>>
  BY DEF PromoteTask, BuildComponentDescriptor, CollectRelease, PromoteSet, ReleaseStep,
     PromoteFails, bucket, buildPc, notifyPc
<1>2. ASSUME NEW q \in Runs \ {r}
      PROVE  promote'[q] = promote[q] /\ todo'[q] = todo[q] /\ found'[q] = found[q]
  BY <1>0, <1>2 DEF PromoteTask, BuildComponentDescriptor, CollectRelease, PromoteSet,
     ReleaseStep, PromoteFails, GoPromote
<1>3. ASSUME NEW g \in Flavours, promote'[r] = "collect", g \notin todo'[r]
      PROVE  HasImage(g, found'[r][g], objects)
  <2>1. CASE BuildComponentDescriptor(r)
    <3>1. todo'[r] = Flavours
      BY <1>0, <1>3, <2>1 DEF BuildComponentDescriptor, GoPromote
    <3> QED
      BY <1>3, <3>1
  <2>2. ASSUME NEW f \in Flavours, CollectRelease(r, f)
        PROVE  HasImage(g, found'[r][g], objects)
    <3>1. /\ promote[r] = "collect" /\ todo'[r] = todo[r] \ {f}
          /\ found'[r][g] = IF g = f THEN singles[f] ELSE found[r][g]
      BY <1>0, <2>2 DEF CollectRelease
    <3> QED
      BY <1>3, <3>1 DEF Images, ImagesInBucket, ImagesInUse, InUse
  <2>3. CASE PromoteSet(r) \/ ReleaseStep(r) \/ PromoteFails(r)
    BY <1>0, <1>3, <2>3 DEF PromoteSet, ReleaseStep, PromoteFails, GoPromote
  <2> QED
    BY <2>1, <2>2, <2>3 DEF PromoteTask
<1>4. ASSUME NEW q \in Runs, NEW g \in Flavours
      PROVE  InUse(q, g)'
  <2>0. InUse(q, g)
    BY DEF Images, ImagesInUse
  <2>1. CASE q = r
    BY <1>1, <1>3, <2>0, <2>1 DEF InUse
  <2>2. CASE q # r
    BY <1>1, <1>2, <2>0, <2>2, StillInUse
  <2> QED
    BY <2>1, <2>2
<1>5. \A k \in SetKeys : sets'[k] = sets[k] \/ HasImages(sets'[k], objects')
  <2>1. CASE UNCHANGED sets
    BY <2>1
  <2>2. CASE PromoteSet(r) /\ \A f \in Flavours : found[r][f] # Nil
    <3> DEFINE made == [manifests |-> found[r], logs |-> {}]
               key == SetKeyOf(kind[r], clock)
    <3>1. HasImages(made, objects')
      <4>1. \A f \in Flavours : HasImage(f, found[r][f], objects')
        BY <1>1, <2>2 DEF PromoteSet, Images, ImagesInUse, InUse
      <4> QED
        BY <4>1 DEF HasImages
    <3>2. sets' = [sets EXCEPT ![key] = made]
      BY <2>2 DEF UploadReleaseManifestSet, PromoteSet
    <3> HIDE DEF made, key
    <3> QED
      BY <1>0, <3>1, <3>2
  <2> QED
    BY <2>1, <2>2 DEF PromoteTask, BuildComponentDescriptor, CollectRelease, PromoteSet,
       ReleaseStep, PromoteFails, bucket
<1>6. Upheld
  BY <1>1, <1>5 DEF Upheld
<1> QED
  BY <1>1, <1>4, <1>6, UpheldBucket DEF Images, ImagesInUse

LEMMA NotifyKeepsImages ==
    ASSUME TypeInv, Images, NEW r \in Runs, NotifyTask(r)
    PROVE  Images'
<1>0. /\ held \in [Runs -> [Flavours -> Manifest \cup {Nil}]]
      /\ heldSet \in [Runs -> ManifestSet \cup {Nil}]
      /\ attaching \in [Runs -> Flavours \cup {Nil}]
      /\ phase \in [Runs -> Phase] /\ todo \in [Runs -> SUBSET Flavours]
      /\ singles \in [Flavours -> Manifest \cup {Nil}]
      /\ sets \in [SetKeys -> ManifestSet \cup {Nil}]
  BY DEF TypeInv, TypeOK
<1>1. UNCHANGED <<build, output, test, promote, found>> /\ objects \subseteq objects'
  BY DEF UploadLogArchive, NotifyTask, UploadLogs, AttachRead, AttachWrite, FetchSet,
     CollectLog, AttachSet, NotifyFails, bucket, buildPc, promotePc
<1>2. ASSUME NEW q \in Runs \ {r}
      PROVE  /\ attaching'[q] = attaching[q] /\ held'[q] = held[q] /\ todo'[q] = todo[q]
             /\ phase'[q] = phase[q] /\ heldSet'[q] = heldSet[q]
  BY <1>0, <1>2 DEF NotifyTask, UploadLogs, AttachRead, AttachWrite, FetchSet, CollectLog,
     AttachSet, NotifyFails, GoPhase, Drop, notifyPc
<1>3. /\ promote[r] \in Idle
      /\ \A f \in Flavours : build[r][f] \in Idle /\ test[r][f] \in Idle
  BY NotifyIsAlone DEF NotifyTask, UploadLogs, AttachRead, AttachWrite, FetchSet, CollectLog,
     AttachSet, NotifyFails
<1>4. ASSUME NEW g \in Flavours, attaching'[r] = g
      PROVE  HasImage(g, held'[r][g], objects')
  <2>1. CASE UNCHANGED <<attaching, held>>
    BY <1>1, <1>4, <2>1, ImageStays DEF Images, ImagesInUse, InUse
  <2>2. ASSUME NEW f \in Flavours, AttachRead(r, f)
        PROVE  HasImage(g, held'[r][g], objects')
    <3>1. f = g /\ singles[f] \in Manifest /\ HasImage(f, singles[f], objects')
      BY <1>0, <1>1, <1>4, <2>2, ImageStays DEF AttachRead, Images, ImagesInBucket
    <3>2. HasImage(f, WithLogfile(singles[f], r), objects')
      BY <3>1, AmendedHasImage DEF WithLogfile
    <3>3. held'[r][f] = WithLogfile(singles[f], r)
      BY <1>0, <2>2 DEF AttachRead
    <3> QED
      BY <3>1, <3>2, <3>3
  <2>3. CASE NotifyFails(r) \/ \E f \in Flavours : AttachWrite(r, f)
    <3>1. attaching'[r] = Nil
      BY <1>0, <2>3 DEF NotifyFails, AttachWrite
    <3> QED
      BY <1>4, <3>1, ConstantsAssumption
  <2> QED
    BY <2>1, <2>2, <2>3
       DEF NotifyTask, UploadLogs, FetchSet, CollectLog, AttachSet
<1>5. ASSUME NEW q \in Runs, NEW g \in Flavours
      PROVE  InUse(q, g)'
  <2>0. InUse(q, g)
    BY DEF Images, ImagesInUse
  <2>1. CASE q = r
    BY <1>1, <1>3, <1>4, <2>1 DEF InUse, Idle
  <2>2. CASE q # r
    BY <1>1, <1>2, <2>0, <2>2, StillInUse
  <2> QED
    BY <2>1, <2>2
<1>6. phase'[r] = "attach_set" => HasImages(heldSet'[r], objects')
  <2>1. CASE UNCHANGED heldSet /\ (phase'[r] = "attach_set" => phase[r] = "attach_set")
    BY <1>1, <2>1, ImageStays DEF Images, ImagesInUse
  <2>2. CASE phase'[r] # "attach_set"
    BY <2>2
  <2>3. CASE FetchSet(r) /\ setKey[r] # Nil /\ sets[setKey[r]] # Nil
    <3> DEFINE s == [sets[setKey[r]] EXCEPT !.logs = @ \cup {logKey[r]}]
    <3>1. heldSet' = [heldSet EXCEPT ![r] = s]
      BY <2>3 DEF ReleaseManifestSet, FetchSet
    <3>2. sets[setKey[r]] \in ManifestSet /\ HasImages(sets[setKey[r]], objects)
      BY <2>3 DEF Images, ImagesInBucket, TypeInv, TypeOK
    <3>3. s.manifests = sets[setKey[r]].manifests
      BY <3>2 DEF ManifestSet
    <3>4. HasImages(s, objects)
      BY <2>3, <3>2, <3>3 DEF HasImages
    <3> HIDE DEF s
    <3> QED
      BY <1>0, <1>1, <3>1, <3>4, ImageStays
  <2>4. ASSUME NEW f \in Flavours, CollectLog(r, f), heldSet' # heldSet
        PROVE  HasImages(heldSet'[r], objects')
    <3> DEFINE s == [heldSet[r] EXCEPT !.logs = @ \cup {singles[f].log}]
    <3>1. heldSet' = [heldSet EXCEPT ![r] = s]
      BY <2>4 DEF CollectLog
    <3>2. heldSet[r] \in ManifestSet /\ HasImages(heldSet[r], objects)
      BY <2>4 DEF CollectLog, Images, ImagesInUse, TypeInv, Holding
    <3>3. s.manifests = heldSet[r].manifests /\ heldSet[r] # Nil
      BY <3>2, NoDocumentIsNil DEF ManifestSet
    <3>4. HasImages(s, objects)
      BY <3>2, <3>3 DEF HasImages
    <3> HIDE DEF s
    <3> QED
      BY <1>0, <1>1, <3>1, <3>4, ImageStays
  <2> QED
    BY <1>0, <2>1, <2>2, <2>3, <2>4
       DEF NotifyTask, UploadLogs, AttachRead, AttachWrite, FetchSet, CollectLog, AttachSet,
           NotifyFails, GoPhase, ReleaseManifestSet, notifyPc
<1>7. \A q \in Runs : phase'[q] = "attach_set" => HasImages(heldSet'[q], objects')
  <2>1. ASSUME NEW q \in Runs \ {r}, phase'[q] = "attach_set"
        PROVE  HasImages(heldSet'[q], objects')
    BY <1>1, <1>2, <2>1, ImageStays DEF Images, ImagesInUse
  <2> QED
    BY <1>6, <2>1
<1>8. \A g \in Flavours : singles'[g] = singles[g] \/ HasImage(g, singles'[g], objects')
  <2>1. CASE UNCHANGED singles
    BY <2>1
  <2>2. ASSUME NEW f \in Flavours, AttachWrite(r, f)
        PROVE  \A g \in Flavours : singles'[g] = singles[g] \/ HasImage(g, singles'[g], objects')
    <3>1. HasImage(f, held[r][f], objects')
      BY <1>1, <2>2, ImageStays DEF AttachWrite, Images, ImagesInUse, InUse
    <3> QED
      BY <1>0, <2>2, <3>1 DEF AttachWrite, UploadReleaseManifest
  <2> QED
    BY <2>1, <2>2 DEF NotifyTask, UploadLogs, AttachRead, FetchSet, CollectLog, AttachSet,
       NotifyFails, bucket
<1>9. \A k \in SetKeys : sets'[k] = sets[k] \/ HasImages(sets'[k], objects')
  <2>1. CASE UNCHANGED sets
    BY <2>1
  <2>2. CASE AttachSet(r)
    <3>1. HasImages(heldSet[r], objects')
      BY <1>1, <2>2, ImageStays DEF AttachSet, Images, ImagesInUse
    <3> QED
      BY <1>0, <2>2, <3>1 DEF AttachSet, UploadReleaseManifestSet
  <2> QED
    BY <2>1, <2>2 DEF NotifyTask, UploadLogs, AttachRead, AttachWrite, FetchSet, CollectLog,
       NotifyFails, bucket
<1>10. Upheld
  BY <1>1, <1>8, <1>9 DEF Upheld
<1> QED
  BY <1>5, <1>7, <1>10, UpheldBucket DEF Images, ImagesInUse

\* Only a run in flight makes steps.
LEMMA RunsInFlight ==
    ASSUME TypeInv, NEW r \in Runs, RunStep(r)
    PROVE  r \in InFlight
<1>1. ASSUME NEW f \in Flavours, BuildTask(r, f)
      PROVE  phase[r] = "tasks"
  BY <1>1, BuildIsActive DEF BuildTask, PreBuild, BuildMayStart, BuildImage, UploadObjects,
     PublishOci, UploadManifest, PromoteSingle, PublishImage, PublishFails, PersistSingle,
     BuildFails, Idle
<1>2. ASSUME NEW f \in Flavours, TestTask(r, f)
      PROVE  phase[r] = "tasks"
  BY <1>2, TestIsActive DEF TestTask, PreCheckTests, TestMayStart, RunTests,
     UploadTestResult, TestFails, Idle
<1>3. CASE PromoteTask(r)
  BY <1>3, PromoteIsActive DEF PromoteTask, BuildComponentDescriptor, PromoteMayStart,
     CollectRelease, PromoteSet, ReleaseStep, PromoteFails, Idle, InFlight
<1>4. CASE NotifyTask(r)
  BY <1>4 DEF NotifyTask, UploadLogs, Settled, AttachRead, AttachWrite, FetchSet, CollectLog,
     AttachSet, NotifyFails, InFlight
<1> QED
  BY <1>1, <1>2, <1>3, <1>4 DEF RunStep, InFlight

LEMMA StillImages ==
    ASSUME TypeInv, Images, Tick \/ \E r \in Runs : StartRun(r)
    PROVE  Images'
<1>1. /\ UNCHANGED <<objects, singles, sets, build, output, test, promote, found, todo, held,
                     attaching, heldSet>>
      /\ \A r \in Runs : phase'[r] = "attach_set" => phase[r] = "attach_set"
  BY DEF Tick, StartRun, TypeInv, TypeOK, bucket, buildPc, promotePc, notifyPc
<1>2. ImagesInBucket'
  BY <1>1 DEF Images, ImagesInBucket
<1>3. ImagesInUse'
  BY <1>1 DEF Images, ImagesInUse, InUse
<1> QED
  BY <1>2, <1>3 DEF Images

LEMMA PipelineKeepsImages ==
    ASSUME CleaningTypes, Undisturbed, ~CleanWhileRunning, PipelineStep
    PROVE  Undisturbed'
<1>1. UNCHANGED <<job, listed, doomed, marked, loose>>
  BY DEF PipelineStep, jobVars
<1>2. Images'
  BY StillImages, BuildKeepsImages, TestKeepsImages, PromoteKeepsImages, NotifyKeepsImages
     DEF PipelineStep, RunStep, CleaningTypes, Undisturbed, Images
<1>3. OnlySnapshots'
  BY <1>1 DEF Undisturbed, OnlySnapshots
<1>4. CASE Idling
  <2>1. BySelf'
    BY <1>1, <1>4 DEF BySelf, Idling
  <2>2. Marking'
    BY <1>1, <1>4 DEF Undisturbed, Marking, Idling
  <2> QED
    BY <1>2, <1>3, <2>1, <2>2 DEF Undisturbed, Images
<1>5. CASE ~Idling
  <2>1. InFlight = {}
    BY <1>5 DEF Undisturbed, BySelf, Idling
  <2>2. Tick
    BY <1>5, <2>1, RunsInFlight DEF PipelineStep, CleaningTypes
  <2>3. UNCHANGED <<singles, sets, phase>>
    BY <2>2 DEF Tick, bucket
  <2>4. BySelf'
    BY <2>1, <2>3 DEF BySelf, InFlight
  <2>5. Marking'
    BY <1>1, <2>3 DEF Undisturbed, Marking
  <2> QED
    BY <1>2, <1>3, <2>4, <2>5 DEF Undisturbed, Images
<1> QED
  BY <1>4, <1>5

LEMMA InitUndisturbed == CleaningInit => Undisturbed
<1> SUFFICES ASSUME CleaningInit
             PROVE  Undisturbed
  OBVIOUS
<1>1. /\ \A f \in Flavours : singles[f] = Nil
      /\ \A k \in SetKeys : sets[k] = Nil
      /\ \A r \in Runs : phase[r] = "idle" /\ promote[r] = "pending" /\ attaching[r] = Nil
  BY DEF CleaningInit, Init
<1>2. \A r \in Runs, f \in Flavours :
         build[r][f] = "pending" /\ test[r][f] = "pending" /\ attaching[r] # f
  BY <1>1, ConstantsAssumption DEF CleaningInit, Init
<1>3. ImagesInBucket
  BY <1>1 DEF ImagesInBucket, HasImage, HasImages
<1>4. ImagesInUse
  BY <1>1, <1>2 DEF ImagesInUse, InUse
<1>5. BySelf /\ OnlySnapshots /\ Marking
  BY DEF CleaningInit, BySelf, OnlySnapshots, Marking
<1> QED
  BY <1>3, <1>4, <1>5 DEF Undisturbed

LEMMA StepKeepsUndisturbed ==
    ASSUME ~CleanWhileRunning
    PROVE  CleaningTypes /\ Undisturbed /\ [CleaningNext]_allVars => Undisturbed'
<1> SUFFICES ASSUME CleaningTypes, Undisturbed, [CleaningNext]_allVars
             PROVE  Undisturbed'
  OBVIOUS
<1>1. CASE UNCHANGED allVars
  <2>1. UNCHANGED vars /\ UNCHANGED <<job, listed, doomed, marked, loose>>
    BY <1>1 DEF allVars, jobVars
  <2>2. BySelf' /\ OnlySnapshots' /\ Marking'
    BY <2>1 DEF Undisturbed, BySelf, OnlySnapshots, Marking, InFlight, vars, bucket
  <2> QED
    BY <2>1, <2>2, ReadingKeepsImages
<1> QED
  BY <1>1, PipelineKeepsImages, JobKeepsImages DEF CleaningNext

\* Runs and job keep out of each other's way: while the one works on the bucket, what the
\* other has read of it and is about to use stays true.
THEOREM NobodyIsDisturbed ==
    ASSUME ~CleanWhileRunning
    PROVE  CleaningSpec => [](CleaningTypes /\ Undisturbed)
<1>1. CleaningInit => CleaningTypes /\ Undisturbed
  BY InitCleaningTypes, InitUndisturbed
<1>2. CleaningTypes /\ Undisturbed /\ [CleaningNext]_allVars => (CleaningTypes /\ Undisturbed)'
  BY StepKeepsCleaningTypes, StepKeepsUndisturbed
<1> QED
  BY <1>1, <1>2, PTL DEF CleaningSpec

LEMMA NamedImagesAreThere ==
    ASSUME CleaningTypes, ImagesInBucket
    PROVE  ImagesAreKept
BY DEF CleaningTypes, CompleteSets, Complete, ImagesInBucket, HasImage, HasImages,
   ImagesAreKept

\* The sweep takes no image that a manifest or a manifest set names, in whatever order the
\* documents are read, however many runs fill the bucket between two jobs, and wherever a
\* job or a run breaks off, as long as job and runs do not overlap.
THEOREM ImagesStay ==
    ASSUME ~CleanWhileRunning
    PROVE  CleaningSpec => []ImagesAreKept
<1>1. CleaningTypes /\ Undisturbed => ImagesAreKept
  BY NamedImagesAreThere DEF Undisturbed
<1> QED
  BY NobodyIsDisturbed, <1>1, PTL

LEMMA ObjectsStay ==
    ASSUME CleaningTypes, Undisturbed, [CleaningNext]_allVars
    PROVE  objects \subseteq objects' \/ DeleteLoose
<1>1. CASE UNCHANGED vars
  BY <1>1 DEF vars, bucket
<1>2. CASE Purge \/ MarkAndSweep \/ StartJob \/ JobAborts
  BY <1>1, <1>2 DEF Purge, ReadSingle, DeleteSingle, TurnToSets, ReadSet, DeleteSet,
     MarkAndSweep, TurnToMarking, TurnToSingles, TurnToSweep, MarkSet, MarkSingle, ListPage,
     EndJob, StartJob, JobAborts
<1>3. CASE Tick \/ \E r \in Runs : StartRun(r)
  BY <1>3 DEF Tick, StartRun, bucket
<1>4. ASSUME NEW r \in Runs, NEW f \in Flavours, BuildTask(r, f) \/ TestTask(r, f)
      PROVE  objects \subseteq objects'
  BY <1>4 DEF BuildTask, PreBuild, BuildImage, UploadObjects, PublishOci, UploadManifest,
     PromoteSingle, PublishImage, PublishFails, PersistSingle, BuildFails,
     TestTask, PreCheckTests, RunTests, UploadTestResult, TestFails, bucket
<1>5. ASSUME NEW r \in Runs, PromoteTask(r) \/ NotifyTask(r)
      PROVE  objects \subseteq objects'
  BY <1>5 DEF PromoteTask, BuildComponentDescriptor, CollectRelease, PromoteSet, ReleaseStep,
     PromoteFails, NotifyTask, UploadLogs, UploadLogArchive, AttachRead, AttachWrite, FetchSet,
     CollectLog, AttachSet, NotifyFails, bucket
<1>6. CASE UNCHANGED allVars
  BY <1>1, <1>6 DEF allVars
<1> QED
  BY <1>2, <1>3, <1>4, <1>5, <1>6 DEF CleaningNext, JobStep, PipelineStep, RunStep

\* The sweep takes no log archive that a manifest set names: the logs of a set are marked
\* with its images.
THEOREM SetLogsStay ==
    ASSUME ~CleanWhileRunning
    PROVE  CleaningSpec => SetLogsAreSpared
<1>1. ASSUME CleaningTypes, Undisturbed, [CleaningNext]_allVars,
             NEW k \in SetKeys, sets[k] # Nil
      PROVE  sets[k].logs \cap objects \subseteq objects'
  <2>1. CASE objects \subseteq objects'
    BY <2>1
  <2>2. CASE DeleteLoose
    <3>1. MarkedBySet(sets[k]) \cap loose = {} /\ objects' = objects \ loose
      BY <1>1, <2>2, SweepSpares DEF DeleteLoose
    <3> QED
      BY <3>1 DEF MarkedBySet
  <2> QED
    BY <1>1, <2>1, <2>2, ObjectsStay
<1>2. CleaningTypes /\ Undisturbed /\ [CleaningNext]_allVars
        => [\A k \in SetKeys : sets[k] # Nil /\ sets'[k] = sets[k] =>
               sets[k].logs \cap objects \subseteq objects']_allVars
  BY <1>1
<1> QED
  BY NobodyIsDisturbed, <1>2, PTL DEF CleaningSpec, SetLogsAreSpared

LEMMA ReleasesAreNotDeleted ==
    ASSUME CleaningTypes, Undisturbed, [CleaningNext]_allVars,
           NEW k \in SetKeys, k[1] # "snapshot", sets[k] # Nil
    PROVE  sets'[k] # Nil
<1>0. sets \in [SetKeys -> ManifestSet \cup {Nil}]
  BY DEF CleaningTypes, TypeInv, TypeOK
<1>1. CASE UNCHANGED sets
  BY <1>1
<1>2. ASSUME NEW q \in SetKeys, DeleteSet(q)
      PROVE  sets'[k] # Nil
  <2>1. q # k
    BY <1>2 DEF DeleteSet, Undisturbed, OnlySnapshots
  <2> QED
    BY <1>0, <1>2, <2>1 DEF DeleteSet
<1>3. ASSUME NEW r \in Runs, PromoteSet(r)
      PROVE  sets'[k] # Nil
  <2> DEFINE made == [manifests |-> found[r], logs |-> {}]
  <2>1. UNCHANGED sets \/ sets' = [sets EXCEPT ![SetKeyOf(kind[r], clock)] = made]
    BY <1>3 DEF PromoteSet, UploadReleaseManifestSet
  <2>2. (\A f \in Flavours : found[r][f] # Nil) => made # Nil
    <3>1. found[r] \in [Flavours -> Manifest \cup {Nil}]
      BY DEF CleaningTypes, TypeInv, TypeOK
    <3>2. made \in ManifestSet
      BY <3>1 DEF ManifestSet
    <3> QED
      BY <3>2, NoDocumentIsNil
  <2>3. UNCHANGED sets \/ \A f \in Flavours : found[r][f] # Nil
    BY <1>3 DEF PromoteSet
  <2> HIDE DEF made
  <2> QED
    BY <1>0, <2>1, <2>2, <2>3
<1>4. ASSUME NEW r \in Runs, AttachSet(r)
      PROVE  sets'[k] # Nil
  <2>1. heldSet[r] # Nil
    BY <1>4, NoDocumentIsNil DEF AttachSet, CleaningTypes, TypeInv, Holding
  <2> QED
    BY <1>0, <1>4, <2>1 DEF AttachSet, UploadReleaseManifestSet
<1>5. CASE PipelineStep
  <2>1. CASE Tick \/ \E r \in Runs : StartRun(r)
    BY <1>1, <2>1 DEF Tick, StartRun, bucket
  <2>2. ASSUME NEW r \in Runs, NEW f \in Flavours, BuildTask(r, f) \/ TestTask(r, f)
        PROVE  UNCHANGED sets
    BY <2>2 DEF BuildTask, PreBuild, BuildImage, UploadObjects, PublishOci, UploadManifest,
       PromoteSingle, PublishImage, PublishFails, PersistSingle, BuildFails,
       TestTask, PreCheckTests, RunTests, UploadTestResult, TestFails, bucket
  <2>3. ASSUME NEW r \in Runs, PromoteTask(r)
        PROVE  UNCHANGED sets \/ PromoteSet(r)
    BY <2>3 DEF PromoteTask, BuildComponentDescriptor, CollectRelease, ReleaseStep,
       PromoteFails, bucket
  <2>4. ASSUME NEW r \in Runs, NotifyTask(r)
        PROVE  UNCHANGED sets \/ AttachSet(r)
    BY <2>4 DEF NotifyTask, UploadLogs, AttachRead, AttachWrite, FetchSet, CollectLog,
       NotifyFails, bucket
  <2> QED
    BY <1>1, <1>3, <1>4, <1>5, <2>1, <2>2, <2>3, <2>4 DEF PipelineStep, RunStep
<1>6. CASE JobStep \/ JobAborts \/ UNCHANGED allVars
  <2>1. UNCHANGED sets \/ \E q \in SetKeys : DeleteSet(q)
    BY <1>6 DEF JobStep, StartJob, Purge, ReadSingle, DeleteSingle, TurnToSets, ReadSet,
       MarkAndSweep, TurnToMarking, TurnToSingles, TurnToSweep, MarkSet, MarkSingle, ListPage,
       DeleteLoose, EndJob, JobAborts, allVars, vars, bucket
  <2> QED
    BY <1>1, <1>2, <2>1
<1> QED
  BY <1>5, <1>6 DEF CleaningNext

\* A daily or release set, once made, is there with all its images, whatever the job purges
\* of the single manifests and snapshots it was made from.
THEOREM ReleasesStay ==
    ASSUME ~CleanWhileRunning
    PROVE  CleaningSpec => ReleasesStayDownloadable
<1>1. ASSUME CleaningTypes, Undisturbed, [CleaningNext]_allVars,
             CleaningTypes', Undisturbed',
             NEW k \in SetKeys, k[1] # "snapshot", sets[k] # Nil
      PROVE  /\ sets'[k] # Nil
             /\ \A f \in Flavours : PathsOf(f, sets'[k].manifests[f]) \subseteq objects'
  <2>1. sets'[k] # Nil
    BY <1>1, ReleasesAreNotDeleted
  <2>2. \A f \in Flavours : sets'[k].manifests[f] # Nil
    BY <1>1, <2>1 DEF CleaningTypes, CompleteSets, Complete
  <2> QED
    BY <1>1, <2>1, <2>2 DEF Undisturbed, ImagesInBucket, HasImages, HasImage
<1>2. /\ CleaningTypes /\ Undisturbed /\ [CleaningNext]_allVars
      /\ CleaningTypes' /\ Undisturbed'
      => [\A k \in SetKeys : k[1] # "snapshot" /\ sets[k] # Nil =>
             /\ sets'[k] # Nil
             /\ \A f \in Flavours : PathsOf(f, sets'[k].manifests[f]) \subseteq objects']_allVars
  BY <1>1
<1> QED
  BY NobodyIsDisturbed, <1>2, PTL DEF CleaningSpec, ReleasesStayDownloadable
=============================================================================

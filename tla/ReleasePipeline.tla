-------------------------- MODULE ReleasePipeline --------------------------
(***************************************************************************)
(* The image pipeline of ci/: Tekton runs that build, publish, test and    *)
(* promote the flavours of one flavour set of one commit, and the S3       *)
(* bucket they share.  Every S3 request is one atomic action; what a step  *)
(* has read and not yet written back is kept in a variable of its run.     *)
(*                                                                         *)
(* All runs build the same commit and version, so they meet at the same    *)
(* keys: meta/singles has one object per flavour, meta/sets one per        *)
(* release (or one per second for snapshot and daily sets), and objects/   *)
(* holds the images (named by content) and the log archives (named by the  *)
(* second of their upload).                                                *)
(***************************************************************************)
EXTENDS Integers, FiniteSets

CONSTANTS Runs,        \* pipeline runs
          Flavours,    \* the flavour set of the pipeline
          Azure,       \* the flavours whose platform is azure
          Oci,         \* the flavours whose platform is oci
          Unpublishable, \* those whose platform publish_image does not know (kvm, metal, ...)
          Contents,    \* what a build of a flavour may produce (its sha1)
          TargetSets,  \* sets of build targets a run may be rendered with
          Kinds,       \* promote targets a run may be rendered with
          MaxTime,     \* bound on the clock (seconds)
          MaxActive,   \* how many runs may be in flight at the same time
          Nil

BuildTarget == {"build-baseimage", "build", "manifest", "component-descriptor",
                "tests", "publish", "freeze-version", "github-release"}

Kind == {"snapshot", "daily", "release"}

Time == 0..MaxTime

ASSUME ConstantsAssumption ==
    /\ Azure \subseteq Flavours
    /\ Oci \subseteq Flavours
    /\ Unpublishable \subseteq Flavours
    /\ Azure \cap Oci = {}
    /\ Unpublishable \cap (Azure \cup Oci) = {}
    /\ TargetSets \subseteq SUBSET BuildTarget
    /\ Kinds \subseteq Kind
    /\ MaxTime \in Nat
    /\ MaxActive \in Nat
    /\ IsFiniteSet(Runs)
    /\ Nil \notin Flavours \cup Contents \cup Runs \cup {"provisional", "OK"}

VARIABLES
    clock,      \* the second shown by the wall clock
    objects,    \* keys present under objects/
    singles,    \* meta/singles: the release manifest of each flavour
    sets,       \* meta/sets: the release manifest sets
    images,     \* <<flavour, run>>: the image that run published for the flavour
    descriptor, \* flavours listed by the component descriptor a run uploaded
    phase,      \* of a run: idle, tasks, attach_singles, attach_set, done or failed
    targets, kind,  \* the parameters a run was rendered with
    base,       \* state of the task build-baseimage
    build,      \* state of each build task: the step it is at
    output,     \* the build directory of each build task
    result,     \* whether a build task reports a non-empty build_result
    test,       \* state of each test task
    held,       \* the manifest that a task is about to write back
    promote,    \* state of the task promote-gardenlinux-task
    found,      \* the manifests collected by promote_step
    setKey,     \* the task result manifest_set_key_result
    todo,       \* flavours a loop has still to visit
    attaching,  \* the flavour whose manifest attach_log is about to write back
    logKey,     \* the log archive uploaded by a run
    heldSet     \* the manifest set that attach_log is about to write back

bucket   == <<objects, singles, sets>>
outside  == <<images, descriptor>>
given    == <<targets, kind, base>>
buildPc  == <<build, output, result>>
notifyPc == <<attaching, logKey, heldSet>>
promotePc == <<promote, found, setKey>>
vars == <<clock, bucket, outside, phase, given, buildPc, test, held, promotePc,
          todo, notifyPc>>

-----------------------------------------------------------------------------
(* Keys and documents.                                                      *)

ImageObject(f, c) == <<"image", f, c>>
LogObject(t)      == <<"log", t>>
ImageObjects == {ImageObject(f, c) : f \in Flavours, c \in Contents}
LogObjects   == {LogObject(t) : t \in Time}

\* A release manifest with the two attributes later steps patch in.  pub is the
\* run whose images the published_image_metadata names, "provisional" for the
\* placeholder written for azure.
Manifest == [content : Contents, ts : Time,
             pub  : Runs \cup {"provisional", Nil},
             test : {"OK", "FAILED", Nil},
             log  : LogObjects \cup {Nil}]

ManifestSet == [manifests : [Flavours -> Manifest \cup {Nil}],
                logs : SUBSET LogObjects]

ASSUME NoDocumentIsNil == Nil \notin Manifest \cup ManifestSet \cup LogObjects

SetKeys == Kind \X Time

\* The key of a manifest set: snapshot and daily sets carry the second they were
\* made, a release set is named after the version alone.
SetKeyOf(k, t) == <<k, IF k = "release" THEN 0 ELSE t>>

-----------------------------------------------------------------------------
(* Reading and writing them: an object is fetched and replaced as a whole,  *)
(* and nobody asks whether it is still the one that was read.               *)

UploadReleaseManifest(f, m) == singles' = [singles EXCEPT ![f] = m]

UploadReleaseManifestSet(k, s) == sets' = [sets EXCEPT ![k] = s]

\* Neither a key that was not reported nor, with absent_ok, an object that is not there
\* is an error.
ReleaseManifestSet(k) == IF k = Nil THEN Nil ELSE sets[k]

-----------------------------------------------------------------------------
(* Build targets.                                                           *)

Requires(t) ==
    CASE t \in {"build-baseimage", "build"} -> {}
      [] t \in {"manifest", "component-descriptor", "tests"} -> {"build"}
      [] t = "publish" -> {"build", "manifest", "component-descriptor"}
      [] t = "freeze-version" ->
            {"build-baseimage", "build", "manifest", "component-descriptor"}
      [] t = "github-release" ->
            {"build-baseimage", "build", "manifest", "component-descriptor",
             "freeze-version"}

\* (mutant) the targets that a target requires are not looked at
CheckRequirements_Skipped(ts) == ts \subseteq BuildTarget

CheckRequirements(ts) == \A t \in ts : Requires(t) \subseteq ts

-----------------------------------------------------------------------------
(* The task graph rendered by mk_pipeline, as Tekton runs it: a failed task  *)
(* keeps further tasks from being scheduled, tasks that run go on, and the   *)
(* tasks under finally start when nothing runs any more.                     *)

Idle == {"pending", "done", "failed"}

NoFailure(r) ==
    /\ base[r] = "done"
    /\ \A f \in Flavours : build[r][f] # "failed" /\ test[r][f] # "failed"
    /\ promote[r] # "failed"

BuildMayStart(r, f)  == phase[r] = "tasks" /\ build[r][f] = "pending" /\ NoFailure(r)
TestMayStart(r, f)   == /\ phase[r] = "tasks" /\ test[r][f] = "pending" /\ NoFailure(r)
                        /\ build[r][f] = "done"
\* (mutant) the promote task is rendered without runAfter
PromoteMayStart_NoRunAfter(r) ==
    phase[r] = "tasks" /\ promote[r] = "pending" /\ NoFailure(r)

PromoteMayStart(r)   == /\ phase[r] = "tasks" /\ promote[r] = "pending" /\ NoFailure(r)
                        /\ \A f \in Flavours : build[r][f] = "done"

\* (mutant) the tasks under finally are ordinary tasks that wait for all others
Settled_AllDone(r) ==
    /\ phase[r] = "tasks"
    /\ promote[r] = "done"
    /\ \A f \in Flavours : build[r][f] = "done" /\ test[r][f] = "done"

Settled(r) ==
    /\ phase[r] = "tasks"
    /\ promote[r] \in Idle
    /\ \A f \in Flavours : build[r][f] \in Idle /\ test[r][f] \in Idle
    /\ ~PromoteMayStart(r)
    /\ \A f \in Flavours : ~BuildMayStart(r, f) /\ ~TestMayStart(r, f)

InFlight == {r \in Runs : phase[r] \notin {"idle", "done", "failed"}}

\* A run is rendered and applied to the cluster; its base image task ends well or not.
StartRun(r) ==
    /\ phase[r] = "idle"
    /\ Cardinality(InFlight) < MaxActive
    /\ \E ts \in TargetSets, k \in Kinds, b \in {"done", "failed"} :
          /\ CheckRequirements(ts)
          /\ targets' = [targets EXCEPT ![r] = ts]
          /\ kind' = [kind EXCEPT ![r] = k]
          /\ base' = [base EXCEPT ![r] = b]
    /\ phase' = [phase EXCEPT ![r] = "tasks"]
    /\ UNCHANGED <<clock, bucket, outside, buildPc, test, held, promotePc, todo, notifyPc>>

-----------------------------------------------------------------------------
(* The build task of a flavour.                                             *)

GoBuild(r, f, step) == build' = [build EXCEPT ![r][f] = step]

\* What a pod holds in memory is gone when its step ends.
Drop(local, r, f) == [local EXCEPT ![r][f] = Nil]

\* (mutant) every run builds anew
AlreadyBuilt_Never(f) == f \notin Flavours

\* find_release: all runs name a flavour by the same key, so what it finds matches.
AlreadyBuilt(f) == singles[f] # Nil

\* pre_build_step: the marker skip_build makes the next steps exit at once.
PreBuild(r, f) ==
    /\ BuildMayStart(r, f)
    /\ GoBuild(r, f, IF "build" \notin targets[r] \/ AlreadyBuilt(f)
                     THEN "promote_single" ELSE "build_image")
    /\ UNCHANGED <<clock, bucket, outside, phase, given, output, result, test, held,
                   promotePc, todo, notifyPc>>

BuildImage(r, f) ==
    /\ build[r][f] = "build_image"
    /\ IF "manifest" \in targets[r]
         THEN /\ \E c \in Contents : output' = [output EXCEPT ![r][f] = c]
              /\ GoBuild(r, f, "upload_objects")
         ELSE GoBuild(r, f, "promote_single") /\ UNCHANGED output
    /\ UNCHANGED <<clock, bucket, outside, phase, given, result, test, held,
                   promotePc, todo, notifyPc>>

\* An oci image is published before there is a manifest of it.
AfterObjects(f) == IF f \in Oci THEN "publish_oci" ELSE "upload_manifest"

\* (mutant) upload_files is a generator: without tuple() around it nothing is uploaded
UploadObjects_Lazy(r, f) ==
    /\ build[r][f] = "upload_objects"
    /\ GoBuild(r, f, AfterObjects(f))
    /\ UNCHANGED <<clock, objects, singles, sets, outside, phase, given, output, result, test,
                   held, promotePc, todo, notifyPc>>

\* upload_files: the artifacts are uploaded before a manifest refers to them.
UploadObjects(r, f) ==
    /\ build[r][f] = "upload_objects"
    /\ objects' = objects \cup {ImageObject(f, output[r][f])}
    /\ GoBuild(r, f, AfterObjects(f))
    /\ UNCHANGED <<clock, singles, sets, outside, phase, given, output, result, test, held,
                   promotePc, todo, notifyPc>>

PublishOci(r, f) ==
    /\ build[r][f] = "publish_oci"
    /\ images' = images \cup {<<f, r>>}
    /\ GoBuild(r, f, "upload_manifest")
    /\ UNCHANGED <<clock, bucket, descriptor, phase, given, output, result, test, held,
                   promotePc, todo, notifyPc>>

\* Only an oci image is published at this point.
FreshManifest(r, f) ==
    [content |-> output[r][f], ts |-> clock, pub |-> IF f \in Oci THEN r ELSE Nil,
     test |-> Nil, log |-> Nil]

\* The rest of upload_results_step: a fresh manifest replaces whatever is at the key.
UploadManifest(r, f) ==
    /\ build[r][f] = "upload_manifest"
    /\ UploadReleaseManifest(f, FreshManifest(r, f))
    /\ result' = [result EXCEPT ![r][f] = TRUE]
    /\ output' = Drop(output, r, f)
    /\ GoBuild(r, f, "promote_single")
    /\ UNCHANGED <<clock, objects, sets, outside, phase, given, test, held,
                   promotePc, todo, notifyPc>>

\* (mutant) a release is published by every run
AlreadyPublished_Never(f) == f \notin Flavours

AlreadyPublished(f) == singles[f].pub # Nil

\* (mutant) the provisional metadata is not prepared
Prepared_Unchanged(f) == singles[f]

\* On azure the manifest is given provisional metadata before anything is published.
Prepared(f) ==
    IF f \in Azure THEN [singles[f] EXCEPT !.pub = "provisional"] ELSE singles[f]

\* promote_single_step up to the call of publish_image.
PromoteSingle(r, f) ==
    /\ build[r][f] = "promote_single"
    /\ IF "publish" \notin targets[r]
         THEN GoBuild(r, f, "done") /\ UNCHANGED held
       ELSE IF singles[f] = Nil
         THEN GoBuild(r, f, "failed") /\ UNCHANGED held
       ELSE IF AlreadyPublished(f)
         THEN GoBuild(r, f, "done") /\ UNCHANGED held
       ELSE /\ GoBuild(r, f, "publish")
            /\ held' = [held EXCEPT ![r][f] = Prepared(f)]
    /\ UNCHANGED <<clock, bucket, outside, phase, given, output, result, test,
                   promotePc, todo, notifyPc>>

\* publish_image returns the release with the images it has made, or as it is if it does
\* "not know how to publish" for the platform.
PublishImage(r, f) ==
    /\ build[r][f] = "publish"
    /\ IF f \in Unpublishable
         THEN UNCHANGED <<images, held>>
         ELSE /\ images' = images \cup {<<f, r>>}
              /\ held' = [held EXCEPT ![r][f].pub = r]
    /\ GoBuild(r, f, "persist")
    /\ UNCHANGED <<clock, bucket, descriptor, phase, given, output, result, test,
                   promotePc, todo, notifyPc>>

\* Publishing fails: on azure the provisional metadata is kept.
PublishFails(r, f) ==
    /\ build[r][f] = "publish" /\ f \notin Unpublishable
    /\ IF f \in Azure THEN GoBuild(r, f, "persist") /\ UNCHANGED held
                      ELSE GoBuild(r, f, "failed") /\ held' = Drop(held, r, f)
    /\ UNCHANGED <<clock, bucket, outside, phase, given, output, result, test,
                   promotePc, todo, notifyPc>>

\* The manifest read by PromoteSingle is written back, with image ids if there are any.
PersistSingle(r, f) ==
    /\ build[r][f] = "persist"
    /\ UploadReleaseManifest(f, held[r][f])
    /\ held' = Drop(held, r, f)
    /\ GoBuild(r, f, "done")
    /\ UNCHANGED <<clock, objects, sets, outside, phase, given, output, result, test,
                   promotePc, todo, notifyPc>>

\* An exception, a timeout or the loss of the pod.  The results of a failed task may
\* or may not be reported.
BuildFails(r, f) ==
    /\ build[r][f] \notin Idle
    /\ GoBuild(r, f, "failed")
    /\ \E b \in {FALSE, result[r][f]} : result' = [result EXCEPT ![r][f] = b]
    /\ output' = Drop(output, r, f)
    /\ held' = Drop(held, r, f)
    /\ UNCHANGED <<clock, bucket, outside, phase, given, test, promotePc, todo, notifyPc>>

BuildTask(r, f) ==
    \/ PreBuild(r, f) \/ BuildImage(r, f) \/ UploadObjects(r, f) \/ PublishOci(r, f)
    \/ UploadManifest(r, f) \/ PromoteSingle(r, f) \/ PublishImage(r, f) \/ PublishFails(r, f)
    \/ PersistSingle(r, f) \/ BuildFails(r, f)

-----------------------------------------------------------------------------
(* The test task of a flavour.                                              *)

GoTest(r, f, step) == test' = [test EXCEPT ![r][f] = step]

PreCheckTests(r, f) ==
    /\ TestMayStart(r, f)
    /\ GoTest(r, f, IF \/ "tests" \notin targets[r]
                       \/ singles[f] # Nil /\ singles[f].test = "OK"
                    THEN "done" ELSE "run_tests")
    /\ UNCHANGED <<clock, bucket, outside, phase, given, buildPc, held, promotePc, todo,
                   notifyPc>>

\* The tests run, and upload_test_results reads the manifest it will amend.
RunTests(r, f) ==
    /\ test[r][f] = "run_tests"
    /\ IF "manifest" \notin targets[r]
         THEN GoTest(r, f, "done") /\ UNCHANGED held
       ELSE IF singles[f] = Nil
         THEN GoTest(r, f, "failed") /\ UNCHANGED held
       ELSE /\ GoTest(r, f, "upload_result")
            /\ \E res \in {"OK", "FAILED"} :
                  held' = [held EXCEPT ![r][f] = [singles[f] EXCEPT !.test = res]]
    /\ UNCHANGED <<clock, bucket, outside, phase, given, buildPc, promotePc, todo, notifyPc>>

\* The amended manifest is uploaded; the step then fails if the tests did.
UploadTestResult(r, f) ==
    /\ test[r][f] = "upload_result"
    /\ UploadReleaseManifest(f, held[r][f])
    /\ GoTest(r, f, IF held[r][f].test = "OK" THEN "done" ELSE "failed")
    /\ held' = Drop(held, r, f)
    /\ UNCHANGED <<clock, objects, sets, outside, phase, given, buildPc, promotePc, todo,
                   notifyPc>>

TestFails(r, f) ==
    /\ test[r][f] \notin Idle
    /\ GoTest(r, f, "failed")
    /\ held' = Drop(held, r, f)
    /\ UNCHANGED <<clock, bucket, outside, phase, given, buildPc, promotePc, todo, notifyPc>>

TestTask(r, f) ==
    PreCheckTests(r, f) \/ RunTests(r, f) \/ UploadTestResult(r, f) \/ TestFails(r, f)

-----------------------------------------------------------------------------
(* The promote task.                                                        *)

GoPromote(r, step) == promote' = [promote EXCEPT ![r] = step]

\* build_component_descriptor lists the releases it finds, however many these are.
BuildComponentDescriptor(r) ==
    /\ PromoteMayStart(r)
    /\ descriptor' = IF "component-descriptor" \in targets[r]
                     THEN [descriptor EXCEPT ![r] = {f \in Flavours : singles[f] # Nil}]
                     ELSE descriptor
    /\ IF "manifest" \in targets[r]
         THEN GoPromote(r, "collect") /\ todo' = [todo EXCEPT ![r] = Flavours]
         ELSE GoPromote(r, "release") /\ UNCHANGED todo
    /\ UNCHANGED <<clock, bucket, images, phase, given, buildPc, test, held, found, setKey,
                   notifyPc>>

\* One round of find_releases.
CollectRelease(r, f) ==
    /\ promote[r] = "collect"
    /\ f \in todo[r]
    /\ found' = [found EXCEPT ![r][f] = singles[f]]
    /\ todo' = [todo EXCEPT ![r] = @ \ {f}]
    /\ UNCHANGED <<clock, bucket, outside, phase, given, buildPc, test, held, promote, setKey,
                   notifyPc>>

\* A set is only made of a complete release.  Its logs are attached later.
PromoteSet(r) ==
    /\ promote[r] = "collect"
    /\ todo[r] = {}
    /\ LET key == SetKeyOf(kind[r], clock)
       IN IF \E f \in Flavours : found[r][f] = Nil
            THEN GoPromote(r, "failed") /\ UNCHANGED <<sets, setKey>>
            ELSE /\ UploadReleaseManifestSet(key, [manifests |-> found[r], logs |-> {}])
                 /\ setKey' = [setKey EXCEPT ![r] = key]
                 /\ GoPromote(r, "release")
    /\ found' = [found EXCEPT ![r] = [f \in Flavours |-> Nil]]
    /\ UNCHANGED <<clock, objects, singles, outside, phase, given, buildPc, test, held, todo,
                   notifyPc>>

\* release_step: with the target github-release it asks the module release for a
\* helper that module does not have, and the task fails.
ReleaseStep(r) ==
    /\ promote[r] = "release"
    /\ GoPromote(r, IF "github-release" \in targets[r] THEN "failed" ELSE "done")
    /\ UNCHANGED <<clock, bucket, outside, phase, given, buildPc, test, held, found, setKey,
                   todo, notifyPc>>

PromoteFails(r) ==
    /\ promote[r] \notin Idle
    /\ GoPromote(r, "failed")
    /\ \E k \in {Nil, setKey[r]} : setKey' = [setKey EXCEPT ![r] = k]
    /\ found' = [found EXCEPT ![r] = [f \in Flavours |-> Nil]]
    /\ todo' = [todo EXCEPT ![r] = {}]
    /\ UNCHANGED <<clock, bucket, outside, phase, given, buildPc, test, held, notifyPc>>

PromoteTask(r) ==
    \/ BuildComponentDescriptor(r) \/ PromoteSet(r) \/ ReleaseStep(r) \/ PromoteFails(r)
    \/ \E f \in Flavours : CollectRelease(r, f)

-----------------------------------------------------------------------------
(* The step attach_log of the task under finally.                           *)

GoPhase(r, p) == phase' = [phase EXCEPT ![r] = p]

UploadLogArchive == objects' = objects \cup {LogObject(clock)}

\* get_task_result for each build task: a failed task may have reported a result too.
BuildResults(r) == {f \in Flavours : result[r][f]}

\* The logs of all pods are zipped and uploaded before anything refers to the archive.
UploadLogs(r) ==
    /\ Settled(r)
    /\ UploadLogArchive
    /\ logKey' = [logKey EXCEPT ![r] = LogObject(clock)]
    /\ IF "manifest" \in targets[r]
         THEN /\ GoPhase(r, "attach_singles")
              /\ todo' = [todo EXCEPT ![r] = BuildResults(r)]
         ELSE GoPhase(r, "done") /\ UNCHANGED todo
    /\ UNCHANGED <<clock, singles, sets, outside, given, buildPc, test, held, promotePc,
                   attaching, heldSet>>

\* (mutant) the copy made by dataclasses.replace is not used
WithLogfile_Dropped(m, r) == m

\* with_logfile: the log archive of this run replaces any other.
WithLogfile(m, r) == [m EXCEPT !.log = logKey[r]]

\* _attach_logs_to_single_manifest reads the manifest of one task that built ...
AttachRead(r, f) ==
    /\ phase[r] = "attach_singles"
    /\ attaching[r] = Nil
    /\ f \in todo[r]
    /\ singles[f] # Nil
    /\ held' = [held EXCEPT ![r][f] = WithLogfile(singles[f], r)]
    /\ attaching' = [attaching EXCEPT ![r] = f]
    /\ UNCHANGED <<clock, bucket, outside, phase, given, buildPc, test, promotePc, todo,
                   logKey, heldSet>>

\* ... and uploads what became of it.
AttachWrite(r, f) ==
    /\ phase[r] = "attach_singles"
    /\ attaching[r] = f
    /\ UploadReleaseManifest(f, held[r][f])
    /\ held' = Drop(held, r, f)
    /\ attaching' = [attaching EXCEPT ![r] = Nil]
    /\ todo' = [todo EXCEPT ![r] = @ \ {f}]
    /\ UNCHANGED <<clock, objects, sets, outside, phase, given, buildPc, test, promotePc,
                   logKey, heldSet>>

\* The manifest set named by the promote task is read, if there is one; if there is
\* none, the run ends well, whatever kind of run it is.
FetchSet(r) ==
    /\ phase[r] = "attach_singles"
    /\ attaching[r] = Nil
    /\ todo[r] = {}
    /\ LET manifestSet == ReleaseManifestSet(setKey[r])
       IN IF manifestSet = Nil
            THEN GoPhase(r, "done") /\ UNCHANGED <<todo, heldSet>>
            ELSE /\ GoPhase(r, "attach_set")
                 /\ todo' = [todo EXCEPT ![r] = Flavours]
                 /\ heldSet' = [heldSet EXCEPT ![r] =
                                  [manifestSet EXCEPT !.logs = @ \cup {logKey[r]}]]
    /\ UNCHANGED <<clock, bucket, outside, given, buildPc, test, held, promotePc, attaching,
                   logKey>>

\* (mutant) a manifest without logs is not left out
CollectLog_Unchecked(r, f) ==
    /\ phase[r] = "attach_set"
    /\ f \in todo[r]
    /\ heldSet' = [heldSet EXCEPT ![r].logs = @ \cup {singles[f].log}]
    /\ todo' = [todo EXCEPT ![r] = @ \ {f}]
    /\ UNCHANGED <<clock, bucket, outside, phase, given, buildPc, test, held, promotePc,
                   attaching, logKey>>

\* (mutant) only the log archive of this run is attached to the set
CollectLog_OwnOnly(r, f) ==
    /\ phase[r] = "attach_set"
    /\ f \in todo[r]
    /\ todo' = [todo EXCEPT ![r] = @ \ {f}]
    /\ UNCHANGED <<clock, bucket, outside, phase, given, buildPc, test, held, promotePc,
                   notifyPc>>

\* The log archive of a flavour that an earlier run built is collected too.
CollectLog(r, f) ==
    /\ phase[r] = "attach_set"
    /\ f \in todo[r]
    /\ heldSet' = IF singles[f] = Nil THEN heldSet
                  ELSE IF singles[f].log = Nil THEN heldSet
                  ELSE [heldSet EXCEPT ![r].logs = @ \cup {singles[f].log}]
    /\ todo' = [todo EXCEPT ![r] = @ \ {f}]
    /\ UNCHANGED <<clock, bucket, outside, phase, given, buildPc, test, held, promotePc,
                   attaching, logKey>>

AttachSet(r) ==
    /\ phase[r] = "attach_set"
    /\ todo[r] = {}
    /\ UploadReleaseManifestSet(setKey[r], heldSet[r])
    /\ heldSet' = [heldSet EXCEPT ![r] = Nil]
    /\ GoPhase(r, "done")
    /\ UNCHANGED <<clock, objects, singles, outside, given, buildPc, test, held, promotePc, todo,
                   attaching, logKey>>

\* No logs to upload, a manifest that is gone, or any exception: the step fails, and the
\* run ends with it.
NotifyFails(r) ==
    /\ Settled(r) \/ phase[r] \in {"attach_singles", "attach_set"}
    /\ GoPhase(r, "failed")
    /\ held' = [held EXCEPT ![r] = [f \in Flavours |-> Nil]]
    /\ heldSet' = [heldSet EXCEPT ![r] = Nil]
    /\ attaching' = [attaching EXCEPT ![r] = Nil]
    /\ todo' = [todo EXCEPT ![r] = {}]
    /\ UNCHANGED <<clock, bucket, outside, given, buildPc, test, promotePc, logKey>>

NotifyTask(r) ==
    \/ UploadLogs(r) \/ FetchSet(r) \/ AttachSet(r) \/ NotifyFails(r)
    \/ \E f \in Flavours : AttachRead(r, f) \/ AttachWrite(r, f) \/ CollectLog(r, f)

-----------------------------------------------------------------------------

Tick ==
    /\ clock < MaxTime
    /\ clock' = clock + 1
    /\ UNCHANGED <<bucket, outside, phase, given, buildPc, test, held, promotePc, todo, notifyPc>>

Init ==
    /\ clock = 0
    /\ objects = {}
    /\ singles = [f \in Flavours |-> Nil]
    /\ sets = [k \in SetKeys |-> Nil]
    /\ images = {}
    /\ descriptor = [r \in Runs |-> Nil]
    /\ phase = [r \in Runs |-> "idle"]
    /\ targets = [r \in Runs |-> {}]
    /\ kind = [r \in Runs |-> "snapshot"]
    /\ base = [r \in Runs |-> "pending"]
    /\ build = [r \in Runs |-> [f \in Flavours |-> "pending"]]
    /\ output = [r \in Runs |-> [f \in Flavours |-> Nil]]
    /\ result = [r \in Runs |-> [f \in Flavours |-> FALSE]]
    /\ test = [r \in Runs |-> [f \in Flavours |-> "pending"]]
    /\ held = [r \in Runs |-> [f \in Flavours |-> Nil]]
    /\ promote = [r \in Runs |-> "pending"]
    /\ found = [r \in Runs |-> [f \in Flavours |-> Nil]]
    /\ setKey = [r \in Runs |-> Nil]
    /\ todo = [r \in Runs |-> {}]
    /\ attaching = [r \in Runs |-> Nil]
    /\ logKey = [r \in Runs |-> Nil]
    /\ heldSet = [r \in Runs |-> Nil]

RunStep(r) ==
    \/ \E f \in Flavours : BuildTask(r, f) \/ TestTask(r, f)
    \/ PromoteTask(r) \/ NotifyTask(r)

Next == Tick \/ \E r \in Runs : StartRun(r) \/ RunStep(r)

Spec == Init /\ [][Next]_vars

\* Tekton keeps every task of a started run going; nothing makes anybody start a run.
FairSpec == Spec /\ \A r \in Runs : WF_vars(RunStep(r))

-----------------------------------------------------------------------------
(* Properties.                                                              *)

BuildStep == Idle \cup {"build_image", "upload_objects", "publish_oci", "upload_manifest",
                        "promote_single", "publish", "persist"}
TestStep == Idle \cup {"run_tests", "upload_result"}
PromoteStep == Idle \cup {"collect", "release"}
Phase == {"idle", "tasks", "attach_singles", "attach_set", "done", "failed"}

\* The type invariant.
TypeOK ==
    /\ clock \in Time
    /\ objects \subseteq ImageObjects \cup LogObjects
    /\ singles \in [Flavours -> Manifest \cup {Nil}]
    /\ sets \in [SetKeys -> ManifestSet \cup {Nil}]
    /\ images \subseteq Flavours \X Runs
    /\ descriptor \in [Runs -> (SUBSET Flavours) \cup {Nil}]
    /\ phase \in [Runs -> Phase]
    /\ targets \in [Runs -> SUBSET BuildTarget]
    /\ kind \in [Runs -> Kind]
    /\ base \in [Runs -> {"pending", "done", "failed"}]
    /\ build \in [Runs -> [Flavours -> BuildStep]]
    /\ output \in [Runs -> [Flavours -> Contents \cup {Nil}]]
    /\ result \in [Runs -> [Flavours -> BOOLEAN]]
    /\ test \in [Runs -> [Flavours -> TestStep]]
    /\ held \in [Runs -> [Flavours -> Manifest \cup {Nil}]]
    /\ promote \in [Runs -> PromoteStep]
    /\ found \in [Runs -> [Flavours -> Manifest \cup {Nil}]]
    /\ setKey \in [Runs -> SetKeys \cup {Nil}]
    /\ todo \in [Runs -> SUBSET Flavours]
    /\ attaching \in [Runs -> Flavours \cup {Nil}]
    /\ logKey \in [Runs -> LogObjects \cup {Nil}]
    /\ heldSet \in [Runs -> ManifestSet \cup {Nil}]

\* The keys a manifest of a flavour refers to.
References(f, m) == {ImageObject(f, m.content)} \cup ({m.log} \ {Nil})

\* Whoever downloads by a manifest or a manifest set finds every file it names: the
\* steps upload what a document refers to before the document, also when runs that
\* amend the same documents overlap and when a step fails half-way.
NoDanglingReference ==
    /\ \A f \in Flavours : singles[f] # Nil => References(f, singles[f]) \subseteq objects
    /\ \A k \in SetKeys : sets[k] # Nil =>
          /\ sets[k].logs \subseteq objects
          /\ \A f \in Flavours : /\ sets[k].manifests[f] # Nil
                                 /\ References(f, sets[k].manifests[f]) \subseteq objects

\* promote_step never finds the release incomplete, which it reports as "this
\* indicates a bug": the targets it was started with and the tasks it runs after
\* together put a manifest of every flavour in the bucket.
PromotionIsComplete ==
    \A r \in Runs : promote[r] = "collect" =>
        \A f \in Flavours : IF f \in todo[r] THEN singles[f] # Nil ELSE found[r][f] # Nil

\* A run that makes manifests uploads a component descriptor of the whole release.
DescriptorIsComplete ==
    \A r \in Runs : descriptor[r] # Nil /\ "manifest" \in targets[r] =>
        descriptor[r] = Flavours

\* What published_image_metadata names: images that some run has published for the flavour,
\* or the place on the marketplace where those of an azure flavour will end up.
Named(f, pub) == <<f, pub>> \in images \/ (pub = "provisional" /\ f \in Azure)

\* In the set that a publishing run promotes, every flavour of a platform that publish_image
\* knows names images that have been published; only azure, where publishing may fail
\* without failing the task, may have provisional metadata instead.
PromotedSetIsPublished ==
    \A r \in Runs : setKey[r] # Nil /\ "publish" \in targets[r] =>
        \A f \in Flavours \ Unpublishable : Named(f, sets[setKey[r]].manifests[f].pub)

\* The images a build task published are the ones its manifest names afterwards: no later
\* run builds or publishes the flavour anew, and no later step of its own run writes back a
\* copy that is older.
PublishedImagesAreRecorded ==
    \A r \in Runs, f \in Flavours :
        <<f, r>> \in images /\ build[r][f] = "done" => singles[f].pub = r

\* A run that ended well with a manifest set has put into it its own log archive and
\* those of all the runs that built one of its flavours, as long as no other run has
\* promoted under the same key.
AttachedLogsAreComplete ==
    [][\A r \in Runs : setKey[r] # Nil /\ phase[r] # "done" /\ phase'[r] = "done" =>
          /\ logKey[r] \in sets'[setKey[r]].logs
          /\ \A f \in Flavours : singles[f].log \in sets'[setKey[r]].logs \cup {Nil}]_vars

\* A run never finds the manifest it made gone or without the archive it attached.
BuiltManifestsAreLogged ==
    \A r \in Runs, f \in Flavours :
        phase[r] = "attach_set" /\ result[r][f] => singles[f].log = logKey[r]

\* What a manifest tells of its flavour, and the bucket as a catalogue.
FactsOf(m) ==
    IF m = Nil THEN {}
    ELSE {"built"} \cup (IF m.pub # Nil THEN {"published"} ELSE {})
                   \cup (IF m.test = "OK" THEN {"tested"} ELSE {})
                   \cup (IF m.log # Nil THEN {"logged"} ELSE {})

Catalogue == INSTANCE ReleaseCatalogue WITH
    entry <- [f \in Flavours |-> FactsOf(singles[f])],
    promoted <- [k \in SetKeys |-> IF sets[k] = Nil THEN Nil
                    ELSE [f \in Flavours |-> FactsOf(sets[k].manifests[f])]],
    Absent <- Nil

\* When runs do not overlap, the bucket is the catalogue its readers take it for:
\* nothing that was recorded of a flavour is ever lost.
BucketIsCatalogue == Catalogue!Spec

\* Every run that is started ends: whichever tasks fail, the tasks under finally run.
RunsEnd == \A r \in Runs : phase[r] = "tasks" ~> phase[r] \in {"done", "failed"}
=============================================================================

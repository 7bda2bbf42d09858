# A verification of the Garden Linux build and release pipeline

Garden Linux is a Debian derivative whose images are built in many *flavours*
(platform × architecture × modifiers).  The program in this repository with
state, concurrency and failure is the one under `ci/`: it renders Tekton
pipelines, and the steps of their tasks build, publish, test and promote the
flavours, recording what they did in documents in an S3 bucket.  Pipeline runs
share that bucket and a namespace, a daily job cleans the bucket, and publishing
drives the APIs of several clouds.  What a flavour is made of is computed twice,
by the pipeline (`ci/glci/model.py`) and by the build (`bin/garden-feat.go`).
This directory holds TLA+ models of that program, TLC
configurations that check them, and TLAPS proofs about them.

Read `ReleasePipeline.tla` first: everything else is beside it.

## 1. Inventory

### Components, their state and operations

| Component | Code | State | Operations | Module |
|---|---|---|---|---|
| Pipeline runs and task graph | `ci/render_pipelines.py`, `ci/tasks.py`, `ci/render_pipeline_run.py` | phase of each run, state of each task, build targets and promote target | render and start a run, schedule a task, run the finally tasks | `ReleasePipeline` |
| Build task | `ci/steps/pre_build_step.py`, `build_image.sh`, `upload_results_step.py`, `promote_step.py` (`promote_single_step`) | the step it is at, the build directory, the manifest it has read, its result | skip or build, upload objects, upload manifest, publish, write the manifest back | `ReleasePipeline` |
| Test task | `pre_check_tests.py`, `run_tests.py`, `upload_test_results.py` | its step, the manifest it has read | skip or test, amend the manifest | `ReleasePipeline` |
| Promote task | `component_descriptor.py`, `promote_step.py` (`promote_step`), `release_step.py` | its step, the manifests collected, the key of the set | describe the component, collect the releases, write the set, release | `ReleasePipeline` |
| Log step of the finally task | `attach_logs.py` | its step, the flavours left, copies of a manifest and of the set | upload the archive, attach it to manifests and to the set | `ReleasePipeline` |
| Manifest store | `ci/glci/util.py`, `ci/glci/model.py`, `ci/glci/s3.py` | `meta/singles`, `meta/sets`, `objects` | get, put, list, delete | `ReleasePipeline`, `BucketCleaning` |
| Clean job | `ci/clean.py`, `bin/.cicd-cli.py` | listed, outdated and marked keys, page of the listing | purge manifests, purge sets, mark, sweep | `BucketCleaning` |
| Publishing to AWS | `ci/glci/aws.py`, `ci/promote.py` | images per region, regions left, threads of the removal and what they read | import, register, copy, wait, make public, remove | `AwsPublish` |
| Publishing to Alibaba Cloud | `ci/glci/alicloud.py`, `ci/promote.py` | OSS object, images per region, regions left | upload, import, copy, wait, share, delete | `AlicloudPublish` |
| Publishing to Azure | `ci/glci/az.py` | marketplace offer, transport operations, transport state in the manifest | update offer, publish, go live, poll | `AzureOffer` |
| Publishing to GCP, OpenStack, OCI | `ci/glci/gcp.py`, `openstack_image.py`, `oci.py` | — | upload and import | outcome only (`BuildFails`) |
| Trigger and waiter | `ci/render_pipelines_and_trigger_job`, `ci/render_pipeline_run.py`, `ci/tkn/util.py`, `ci/wait_for_pipelinerun.py` | stage of the job, names and creation order of runs, time spent | purge old runs, render, apply a run, poll its status, give up | `TriggerAndWait` |
| Notification and status | `ci/steps/update_status.py`, `ci/steps/notify.py`, `ci/glci/github.py` | status of a commit | set pending, report the verdict | `TriggerAndWait` (no mails) |
| Feature expansion | `bin/garden-feat.go` | stack, marks and results of a depth-first search | expand, reduce, print | `FeatureGraph`, `FeatureExpansion` |
| Flavours and keys | `ci/glci/model.py` | none (pure) | normalised modifiers, canonical names, keys | `FeatureNames` |
| Release branch, GitHub release | `ci/release.py`, `ci/github_release.py` | branches, tags, drafts | create branch, bump, create release, attach | none (unreachable, section 6) |
| Versions | `ci/glci/model.py`, `bin/garden-version` | none (pure) | epochs, next versions | none |
| Package pipeline, base images | `ci/build_kaniko.py`, `ci/steps/build_base_image.py`, … | tags in a registry | build, push | outcome only |

Everything else in the repository (image build scripts, package recipes, the
integration tests of images, certificates) is shell, data or tests without
shared state, and is listed with its reason in `PROJECT.json`.

### How they interact

* A run is a Kubernetes object.  Its tasks are pods without common memory; they
  meet only in the **bucket**, through **task results** (`build_result`,
  `manifest_set_key_result`) and through the order of the graph: the base image
  first, then one build task per flavour, then the test task of the flavour;
  the promote task after all build tasks (not after the tests); and the notify
  task, with the log step, under `finally`.
* The bucket has **no transactions**.  A manifest is amended by reading it,
  changing a copy and putting the copy back, by three different steps
  (`promote_single_step`, `upload_test_results`, `attach_log`), of any run of
  the commit.  `promote_single_step` publishes images between the two, which
  takes up to hours.
* Two runs of the same commit use the same keys of manifests.  Keys of sets
  carry a timestamp for snapshots and dailies and none for releases.
* The clean job shares the bucket and no lock with the runs.
* Trigger jobs and the runs of all commits share a **namespace**.  A job knows a
  run by its **name** only, and deletes the runs of others when it starts.  All
  runs of a commit, of both pipelines, write **one status** on GitHub.
* The pipeline names a flavour by its canonical features; the build task hands
  platform and modifiers to `garden-feat`, which expands them again.
* Publishing looks images up **by name**, which flavour and commit determine, so
  attempts of different runs meet in the cloud as well.

### Behaviours that are hard, and what makes the parts correct

| What happens | What must hold | Checked as |
|---|---|---|
| runs of one commit overlap, each step may fail | whatever a document names is in the bucket | `NoDanglingReference` |
| one of many parallel builds fails, others go on | no incomplete release is promoted or described | `PromotionIsComplete`, `DescriptorIsComplete` |
| a run reuses what an earlier one built | nothing recorded is lost; sets claim nothing unknown | `BucketIsCatalogue`, `PublishedImagesAreRecorded` |
| publishing on azure fails and the task goes on, some platforms are not published at all | the promoted set names published images of all others, on azure at least their place | `PromotedSetIsPublished` |
| logs are attached by another task than made the manifest | the archives of all builds reach the set | `BuiltManifestsAreLogged`, `AttachedLogsAreComplete` |
| any task fails or its pod is lost | the run ends, with its finally tasks | `RunsEnd` |
| the clean job breaks off | documents still fit their objects | `ImagesAreKept`, `SetLogsAreSpared` |
| documents expire at different times | releases outlive them; garbage does not stay | `ReleasesStayDownloadable`, `OrphansAreSwept` |
| a pod is lost in the middle of publishing | what is recorded is usable, everywhere | `RecordedImagesAreUsable` |
| the Azure offer is read and put back by every publication | no live version is withdrawn; the operations on record are the release's | `LiveVersionsStayLive`, `RecordedOperationsCarryTheVersion` |
| following an Azure transport breaks off anywhere | a release never goes back | `ReleasesAdvance` |
| an attempt follows failed ones | it ends; it succeeds if nothing fails | `AttemptsEnd`, `RetrySucceeds` |
| names of runs repeat, runs are purged under those who wait for them | a job's exit code is the outcome of its own build, or of one of the same commit and name | `SuccessIsOfOwnBuild`, `PackagesFollowImages` |
| many runs write the status of one commit, some do not come to their end | the status is true of the run it names, and is not left pending | `StatusAgreesWithRun`, `StatusSettles` |
| the waiter has less patience than the run | it ends all the same | `JobsEnd` |
| features include each other, in loops or twice, and some are ignored | the expansion is the closure, each feature once, includes first; it ends | `ExpansionIsClosure`, `NothingTwice`, `IncludesComeFirst`, `LoopsAreReal`, `Terminates` |
| an image is named by a search that undoes what it found | the name depends on what is in the image | `CnameIsCanonical` |
| two programs compute what a flavour is made of | image, manifest and key agree | `ImagesAreWhatTheirKeysSay` |

`PROJECT.json` lists the hazards one by one, at their lines.

## 2. Plan

In the order of importance; all of these exist.

1. `ReleasePipeline` — runs, tasks and the bucket.  The core.
2. `ReleaseCatalogue` — abstract: what readers take the bucket for.
   `ReleasePipeline` implements it while runs do not overlap.
3. `ReleasePipelineProofs` — types, references and completeness, for all
   constants.
4. `BucketCleaning` — composes the clean job with `ReleasePipeline`.
5. `AwsPublish`, `AlicloudPublish` — one cloud each: attempts, the cloud, faults.
6. `AzureOffer` — the marketplace offer and the transport states that a
   publication goes through.
7. `AzureOfferProofs` — no version is withdrawn, records are right, for all
   constants.
8. `FeatureGraph`, `FeatureNames`, `FeatureExpansion` — the closure declared, the
   names and keys of flavours, and the searches of `garden-feat` held against both.
9. `FeatureExpansionProofs` — the search computes the closure, for all graphs.
10. `TriggerAndWait` — starting runs under names that repeat, polling with a
    timeout that is shorter than the run's, the status of the commit.
11. `TriggerAndWaitProofs` — what exit codes and statuses say, for any number of
    jobs.
12. `AlicloudPublishProofs`, `AwsPublishProofs` — types and whose image is recorded,
    for attempts that overlap; that it is usable, when attempts for it take turns.
13. `PipelineSequenceProofs` — runs in turn implement the catalogue and keep images
    and logs recorded, for any number of runs and flavours.
14. `BucketCleaningProofs` — the clean job, in turn with runs, keeps what is in use.
15. The rest of `FeatureExpansionProofs` — order, names and keys.

Two modules once planned were given up.  *Release branches* cannot be reached
from any entry point at this commit (section 6).  The *package pipeline* has
tasks that share nothing but the order they are rendered in.

Every invariant and every action property that a run checks is now a theorem; what
is left to TLC is liveness.  Left to model: the calls of the other clouds as
components of their own, and the steps of an Azure image copy, neither of which has
state that a property could relate to another.

## 3. The modules

### ReleasePipeline

One flavour set of one commit and version; any number of runs.  Variables fall
in three groups: what the bucket holds (`objects`, `singles`, `sets`), what is
outside (`images` at the clouds, the uploaded `descriptor`s), and what each run
keeps: the state of its tasks, and every value that a step has read and not yet
written back (`held`, `found`, `heldSet`, …).

*Atomicity.*  One S3 request is one action; what a step computes between two
requests belongs to the action of the one or the other.  `find_release` is a
get; `find_releases` is one get per flavour (`CollectRelease`).  The uploads of
the files of one flavour are one action, as nothing names a file before the
manifest does.  What `S3` requests write is in operators of their own
(`UploadReleaseManifest`, `UploadReleaseManifestSet`, `UploadLogArchive`), named after
the functions of `util.py` that the steps share.

*Data.*  A built image is a member of `Contents`, because objects are named by
content and two builds of a flavour may or may not produce the same bytes.
A manifest is its content, its time, and the three attributes that later steps
patch in; flavours, versions and commits are not spelled out.  The names of
files, the sizes of machines, the wording of mails have no place.

*Failure.*  `BuildFails`, `TestFails`, `PromoteFails` and `NotifyFails` end a
task at any step: an exception, a step timeout or a lost pod.  The copies in
memory are lost, the results of the task may or may not be reported (Tekton
collects them only when the pod ends by itself).  A failed task keeps others
from starting but does not stop those that run.  `StartRun` lets the base image
task, the only one that has no part in the bucket, succeed or fail at once.

*Targets.*  `StartRun` picks a set of build targets, subject to
`CheckRequirements` as `BuildTarget.set_from_str` is; each step then has the
early returns the code has.

*Platforms.*  Three sets of flavours tell what `publish_image` does with them:
`Azure`, whose failures do not fail the task and leave provisional metadata; `Oci`,
whose image is published with the upload; and `Unpublishable`, of a platform it does not
know (kvm, metal and vmware in `flavours.yaml`), whose manifest is written back as it
was, so that the set names no image of them.  `PromotedSetIsPublished` speaks of all but
the last.

### ReleaseCatalogue

What a reader of the bucket may believe, with no tasks in it: a flavour is
built once, facts are only added to it, and a set is promoted when all flavours
are built, saying of each at most what is known of it.  `BucketIsCatalogue` maps
a manifest to the facts it records (`FactsOf`).

### BucketCleaning

EXTENDS `ReleasePipeline` and adds the job of `clean_build_result_repository`:
single manifests, then snapshot sets, then objects.  Documents are listed first
and then read one by one; reading and deleting are done by different threads,
so `doomed` documents are deleted at any later time, even after an exception
has ended the phase (`JobAborts` — a process waits for its threads at exit).
Marking reads the sets before the single manifests; sweeping takes the objects
page by page and deletes those of a page that were not marked.  `InTime` keeps
a run from lasting longer than `RunTimeout`, which is shorter than the age at
which documents are purged — two hours against thirty days in the code.

### AwsPublish

The attempts of several runs to publish one flavour, and the regions of AWS,
which hold at most one image under its name (registering or copying to a taken
name is refused).  `unregister_images_by_name` hands one function per region to
a thread pool; the function reads `region_name` and `image_id` from the
enclosing loop **when it runs**.  So a thread has two steps, one reading the
region, one reading the image, and `loopVar` moves on between them.  A failed
attempt runs the removal twice: once where the copies are made and once in
`publish_image`.  Registering the snapshot, tagging the image and listing the regions
are three requests and three actions, before the `try` that removes copies: a failure
there reaches the removal of `publish_image` only.

### AlicloudPublish

The same for Alibaba Cloud, whose code differs in three ways: the image goes
through an OSS object named after the **version** only; images found under the
name are used again; and waiting has a timeout, after which everything under the
name is deleted, region by region.  Deleting looks the image up, stops sharing it and
deletes it: a failure of the last two is passed over and the next region follows
(`DeleteFails`), one of the first is not caught and ends the loop (`LookupFails`).
`MaxActive` counts the attempts for **one** release, which take turns; those for another
release of the version overlap them, as they do whenever two commits of one version are
built, and meet them in the OSS object.

### AzureOffer

All releases share one offer, which holds every version of the plan.  A
publication fetches it, adds its version and puts the whole back
(`If-Match: *`), requests the transport to staging, and then *looks for* an
operation that is under way, because the request does not return one.
`check_offer_transport_state` is called from outside this repository, again and
again, and its caller keeps the manifest it returns; that is how `Check` models
it.  The marketplace is external: it accepts one operation at a time in a slot,
an operation may not have started when it is looked for, and it succeeds, is
completed or fails at any time.  `completed` (`az.py:155`) is a state that
`check_offer_transport_state` does not act upon; the model takes it for the end of a
transport that took place, after which the release stays in publishing.  `PublicationFails` keeps the provisional metadata (with which
nobody publishes the release again), `PublicationLost` does not.

### FeatureGraph, FeatureNames, FeatureExpansion

`FeatureGraph` declares what it means to include: `Reachable` is the least set
that is closed under the lists of features, an ignored feature not being
followed.  It is given without recursion, as an intersection of closed sets, and
is the yardstick for both programs.

`FeatureNames` has the functions of `model.py`: the normalised modifiers of a
flavour and the canonical ones in its key.

`FeatureExpansion` is one invocation of `garden-feat`.  `postorderDFS` keeps a
stack of its own, the marks `seen` and `hot`, and looks at the features in a list
from the last to the first; one action is one iteration of one of its loops.
`expandFeatures` keeps `seen` from one requested feature to the next;
`reduceFeatures` starts afresh for each, while it blanks entries of the list it
is running over.  Commands differ in what they sort before (`Presorted`) and
print after (`Printed`).  What the repository says of its features (`include`, `type`,
`exclude`) is an input; the command `params`, which merges the YAML of all
features and prints shell variables, and the layout of names are left out.  Names are numbers;
`Ascending` sorts them, and `Those` takes features out of a list as `filterByType` does.

The search is not the post-order its name promises.  A feature is marked when it
is **pushed**, so in a list that names a feature after one that includes it
(`a: [b, c]`, `b: [c]`) the including feature comes first, and a loop behind such
a list goes unnoticed (`a: [b, c]`, `b: [c]`, `c: [b]` — `c` is taken for seen
when `b` looks at it).  `IncludesComeFirst` is therefore stated for graphs without such lists
(`Tidy`), of which the features of this repository are one; nothing in the code asks
for it.  `ExpansionIsClosure` holds without it.

### TriggerAndWait

Jobs are invocations of `render_pipelines_and_trigger_job`; a run is known to the
model by the job and pipeline that it belongs to, and to the program by its name:
pipeline, targets, commit and the last digits of the time at which it was
rendered (`NameOf`; the digits repeat after `Wrap` seconds).  `Start` purges all
but the `Keep` newest runs, running ones included.  `Render` gives each of the two
runs a time of its own.  `Apply` leaves a run of the same name as it is, as
`kubectl apply` does; `Poll` looks runs up by name and answers every reason that
Tekton may give, those that are no `StatusReason` with an exception.  `BreakOff`
ends a job at any command.

A run is a first task that sets the status to pending (`UpdateStatus`), the other
tasks, which end with or without a failure (`EndTasks`), the notify task, whose
verdict is posted before anything else is decided (`ReportStatus`, `Finish`), or a
cancellation or timeout at any time (`Abort`).  What the tasks do is in
`ReleasePipeline`.

## 4. The runs

| Run | Question | Instance | Distinct states |
|---|---|---|---|
| `pipeline_graph` | does the graph, for every combination of targets and every failure, promote and describe only complete releases, name what was published, and end? | 1 run, 3 flavours (1 azure, 1 oci, 1 of a platform that is not published), the 12 of 33 target sets that pass the check | 281 785 |
| `pipeline_overlap` | do documents ever dangle, or promotions fall short, when two runs interleave at every request? | 2 runs, 1 flavour | 1 027 908 |
| `pipeline_sequence` | is the bucket the catalogue, and do published images and logs stay recorded, when a second run reuses what a first left? | 2 runs in turn, 1 azure flavour, 2 kinds, 2 target sets, 2 seconds | 1 689 523 |
| `clean_alone` | does the job, in turn with runs and breaking off anywhere, keep what is in use? | 2 runs, 3 ticks, pages of 2 keys, 1 abort | 2 674 123 |
| `clean_orphans` | does garbage go away? | 1 run, 4 ticks, 1 abort | 80 245 |
| `aws_retry` | are recorded images usable after faults and retries, and do attempts end? | 2 attempts in turn, 2 regions, 3 faults | 180 767 |
| `alicloud_retry` | the same, for leftovers of two releases of one version, and does each get its own image? | 3 attempts, two of them in turn for one release and one beside them for another, 2 regions, 3 faults | 220 057 |
| `azure_offer` | does the offer keep its versions, and does each release advance with its own operations? | 3 releases of 2 versions published in turn and checked at any time, 4 operations | 2 040 886 |
| `features` | does `garden-feat` find what features include, in order, and agree with `model.py`? | all inclusion graphs of 3 features with lists of up to 2, with loops and a missing feature; 6 requests, 4 commands | 591 546 |
| `trigger` | do exit codes and statuses mean what they say, and do jobs end? | 2 jobs of one commit, 2 pipelines, names that repeat after 2 seconds, 1 run kept | 367 098 |

and two that TLC refutes, each against a sentence of the repository:

| Run | The sentence | What happens |
|---|---|---|
| `aws_leftovers` | "an error occurred whilst copying images - will remove them" (`aws.py:385`) | threads deregister by loop variables that have moved on, and some images stay |
| `azure_released` | "After that it will check for the progress of the go live operation and if this also has been completed it will return the urn of the image" (`az.py:65`) | the publish operation is polled in every state, and it has succeeded long ago: a release counts as released one check after its go-live was requested |

Other divergences were met while modelling and have no run.  They are named here
for whoever maintains the code.

*Logs and sets.*
* "Log files are referenced from manifest-sets and thus not cleaned up as long as
  the manifest-set exists" (`attach_logs.py:244`): the archives that *single*
  manifests name are not marked (`clean.py:116`) and are swept; a later run
  collects them into its set all the same (`attach_logs.py:191`).
  `SetLogsAreSpared` says what does hold.
* "determine those keys that are no longer referenced by any manifest"
  (`clean.py:181`): marking precedes listing, so an image that is uploaded between
  the two, and whose manifest follows, is deleted.  `clean_alone` has runs and job
  take turns for this reason.
* `promote_step` writes a release set over that of an earlier promotion of the
  release, because its key has no timestamp, so the archives attached then are
  dropped, although "Release manifest-sets are never cleaned up and thus the log
  file are preserved forever" (`attach_logs.py:247`).
* The branch for "if we are in a Release build logs mut be always attached and a
  missing manifest is a hard error" (`attach_logs.py:209`) compares a member of
  `BuildType` with a set of `BuildTarget` and is never taken; `FetchSet` ends the
  run well instead.

*Publishing.*
* An Azure operation that ends as `completed`, if the marketplace does so, is neither `SUCCEEDED` nor `FAILED`
  (`az.py:452`, `az.py:466`): the release stays in the state publishing, although
  `az.py:63` says "If the publish operation has been completed the go live operation
  will be triggered automatically".
* `promote_single_step` takes a release for published once it has metadata, which
  those of kvm, metal and vmware never get (`promote.py:82`): every publishing run writes
  their manifests back again.
* In `az.py`, the urn of a released image is made from the version as written
  (`az.py:494`), those before from the version completed to three numbers
  (`az.py:548`).

*Triggering.*
* "`--wait`: The script terminates when pipeline run is finished"
  (`ci/README.md:174`): the wait gives up after 45 minutes (`tkn/util.py:139`),
  the runs after 2 and 12 hours (`render_pipeline_run.py`), and the script ends
  with the run still going.
* `Started` and `PipelineRunTimeout` are reasons Tekton gives and no member of
  `StatusReason`: a poll that meets one ends in a `ValueError`.
* Names repeat every 10000 seconds and are cut at 60 characters, the digits of
  the time first (`render_pipeline_run.py:61`); `kubectl apply` then does nothing,
  and the job waits for the earlier run.  `SuccessIsOfOwnBuild` says what is left.
* Image and package runs give the same status of a commit: a later success hides an
  earlier failure.
* `notify.py:333` means to fail when a step before it wrote `status.txt`.  It is
  never reached when all tasks succeeded (the function returns at line 190), and
  where it is, `open()` lacks its argument: the outcome of a run does not depend on
  the file.
* The notification of `wait_for_pipelinerun.py` is not asked for by the script.
* The `VERSION` at this commit is `dev`, which rendering rejects; `sound` in
  `TriggerAndWait` stands for a version that can be parsed.

*Names and base images.*
* "rm all transitive dependencies from platform" (`model.py:479`) takes away a set
  whose members are a generator and names, so nothing is removed.  Keys therefore
  name features that the platform includes and `garden-feat cname` leaves out.
  They still tell flavours apart (`ImagesAreWhatTheirKeysSay`).
* "if we are in a release and have a .x version with x>0 do not build base image"
  (`build_base_image.py:28`): the branch prints "Skip" and goes on to build and to
  push `latest`.  And `build_and_push_kaniko` returns early when the reference
  exists (`build_kaniko.py:143`), so that `rel-<major>`, announced as "Set additional
  tag for later minor releases", is not set when the commit's image is there already.

### Bounds, and why they are enough

* *Runs.*  Two.  Every property about runs compares one run with what others
  did to a document, and a lost update or a stale read needs one other writer.
* *Flavours.*  Flavours interact only in the graph, in the loops of the promote
  task and in the log step.  `pipeline_graph` has three, one of each fate
  (built, failed, still running).  The other runs have one: their properties
  are about one document and the sets made from it.
* *Contents.*  One: with one, two builds share an object, which is the case in
  which deleting or not uploading it could go unnoticed by one of them.  The
  theorems hold for any number.
* *Time.*  Timestamps matter in the keys of sets and logs, and as age.  Two
  seconds let keys differ or coincide; three and four ticks let a document be
  outdated while a younger one is not.
* *Faults.*  `MaxFaults = 3` lets one attempt lose a request, its removal lose
  another, and the next attempt lose its pod.  `MaxAborts = 1` breaks one job
  off and lets the next one finish.
* *Operations.*  `MaxOps = 4` is one transport to staging and one to production
  for each of two versions, or repeated ones for one of them.
* *Regions.*  AWS has two in `aws_retry`, which is enough for a thread to work
  with the next region's loop variables, and four in `aws_leftovers`.  Alibaba Cloud has
  the one imported to and one copied to; copies do not depend on each other.
* *Targets.*  `pipeline_graph` takes every subset of the targets that a step
  looks at, and the full set of a release.
* *Features.*  Three that exist and one that does not are enough for a chain, a
  diamond, a loop of any length up to three, a list in the wrong order, a second
  platform and an exclusion.  Lists have two entries: order within a list is a
  relation between two.  The theorems hold for any number.
* *Trigger.*  `Wrap = 2` and `MaxTime = 2` let names coincide at once, a period
  later, and not at all.  `Keep = 1` lets a purge take the run another job waits
  for, as well as spare it; `MaxPolls = 1` lets a job poll again before it gives
  up.  One commit, because runs of different commits share only the purge.  A
  second job that does not wait stands for all that happens to the first.
* *MaxActive.*  1 where the property is stated for runs that take turns, 2 where
  not.  It is a modelling bound in `pipeline_overlap` and an **assumption** in
  `pipeline_sequence`, `aws_retry` and, for attempts that publish the same release,
  `alicloud_retry`, as `Overlap = FALSE` is in `azure_offer`: nothing in the code keeps runs from overlapping.  What breaks without it was tried: with
  `MaxActive = 2` a run that persists an old copy of a manifest drops test
  results, logs and image names of the other (`BucketIsCatalogue`,
  `PublishedImagesAreRecorded`); an AWS attempt that finds the name taken, and one on
  Alibaba Cloud that fails, remove the images the other attempt records
  (`RecordedImagesAreUsable`); and of two versions put into the Azure offer at the
  same time one is lost (`RecordedOperationsCarryTheVersion`).  Releases of one version
  on Alibaba Cloud do overlap in `alicloud_retry`; they are imported from each other's
  OSS object when one uploads between the upload and the import of the other, which
  `RecordedImagesAreOwn` therefore excludes (`UploadsApart`) and nothing else.  Likewise `CleanWhileRunning = TRUE` lets the job
  purge an old manifest a run has decided to reuse (`PromotionIsComplete`).
* *Symmetry* is used in runs and attempts, in runs of TLC without liveness only.

CHECK_DEADLOCK is off everywhere: the clock, the runs, the jobs, the attempts and
the faults are all finite, and a system in which every run has ended is done, as
is a `garden-feat` that has printed its answer.

### Fairness

Liveness is checked in `pipeline_graph`, `clean_orphans`, `aws_retry`,
`alicloud_retry`, `features` and `trigger`.  Assumed is

* for a started run, that one of its tasks goes on (`WF_vars(RunStep(r))`):
  Tekton's controller schedules what may be scheduled, and every step ends, if
  need be by its timeout.  Nobody is obliged to start a run;
* for the clean job, that it is started again and goes on, as a daily job does;
* for a publishing attempt, that it goes on, **and** that a cloud ends the
  processing of an image, well or not.  The second is needed because
  `wait_for_image_state` polls AWS without a timeout; a state that the code
  does not take for erroneous would be polled until the pod is killed;
* for a trigger job that was started, that its next command runs, and for a run
  whose tasks have ended, that its notify task goes on.  Nothing is assumed of the
  tasks themselves, which may take for ever: `JobsEnd` rests on the give-up of the
  wait, not on the end of what it waits for;
* for `garden-feat`, that the program runs on.

Fairness on a whole run is weaker than on each of its tasks; it suffices because
every step of a run brings it nearer to its end.

## 5. The proofs

`ReleasePipelineProofs.tla`, checked by TLAPS without gaps, for every set of
flavours, contents, target sets and kinds, every finite set of runs, and every
bound, from `ConstantsAssumption` (`Nil` is none of the flavours, contents and runs)
and `NoDocumentIsNil` (`Nil` is not a document):

* `TypeCorrect` — `Spec => []TypeOK`.
* `NothingDangles` — `Spec => []NoDanglingReference`, for any number of
  overlapping runs.
* `PromotesOnlyCompleteReleases` — `Spec => []PromotionIsComplete`.
* `DescribesCompleteReleases` — `Spec => []DescriptorIsComplete`.

The argument has three layers, each inductive relative to the ones before.

1. **`TypeInv`** = `TypeOK` with two facts without which it is not inductive.
   `Holding`: a task at a step that reads `held`, `heldSet`, `output` or
   `setKey` has a value there — otherwise `held[r][f].pub = r` would leave the
   type.  `Scheduling`: a run that attaches logs has no task running.  This is
   needed because `held[r][f]` is used by build, test and log step of a flavour
   in turn: the test starts when the build is done, and the log step when both
   are.
2. **`Copies`** strengthens `NoDanglingReference`: not only the documents in the
   bucket but *every copy in any run's memory* — `held`, `found`, `heldSet` —
   names only objects that exist, and so does what a task is about to write a
   manifest for.  A copy may be put back at any later time, after any number of
   steps of others, so nothing less is inductive.  Objects are only added in
   this module, so soundness of a document is kept by every step that does not
   change it (`SoundGrows`), and each writer has only to show that the document
   it writes is sound.
3. **`Progress`** relates tasks to the bucket: targets of a started run satisfy
   `CheckRequirements`; a build task of a run with the target `manifest` that is
   past its upload, done included, has a manifest at its key; and the promote
   task is past its start only if all builds were done.  It uses that a manifest
   never disappears (`ManifestsStay`), which holds because every write-back
   writes a manifest.  It is exactly what the clean job breaks when it overlaps
   with a run.

A lemma for each action shows what it changes (`…Moves`), one lemma per task
collects them, and the step theorems split on the tasks.

`PipelineSequenceProofs.tla`, from the same assumptions and `MaxActive = 1` (runs
take turns, see *MaxActive* in section 4; any of them may fail at any step), for any
number of runs, flavours and target sets:

* `SequenceHolds` — `Spec => [](TypeInv /\ Progress /\ Sequence)`, the inductive
  invariant.
* `PublishedImagesStayRecorded` — `Spec => []PublishedImagesAreRecorded`.
* `PromotedSetsArePublished` — `Spec => []PromotedSetIsPublished`.
* `BuiltManifestsStayLogged` — `Spec => []BuiltManifestsAreLogged`.
* `LogsAreAttached` — `Spec => AttachedLogsAreComplete`.
* `BucketImplementsCatalogue` — `Spec => BucketIsCatalogue`: the refinement.

A step that writes a copy back is right if the copy, but for what the step patches
in, is what the bucket still holds.  With one run in flight (`Alone`) nobody else
writes, but the run itself has as many tasks at work as there are flavours, and each
reads and writes manifests of its own flavour in three steps.  `Sequence` therefore
says for each run and flavour (`Fresh`) what each task knows of the manifest at each
of its steps: the build step that it has not published yet (`FreshBuild`), the test
and log steps that their copy is the manifest as it is.  `Collected` says the same
of the manifests that the promote task has gathered, which is harder, as test tasks
go on amending them: a copy names the images and logs that the bucket names, but knows
of no test that the bucket does not know of (`Told`), and that is what a set claims.  `Attached` follows the logs from the
single manifests to the set.  What a step of one task does to the bucket is stated
once (`Kept`, `SetKept`: a manifest loses no image, a set is replaced by one that
tells as much), and the other tasks' parts follow from that.

For the refinement, every action is one of three cases.  It writes the first manifest of
a flavour or adds a fact to one, which is a step of the catalogue; it writes a set, which is complete by
`Progress` and claims no more than the manifests by `Collected`; or it leaves all
that `FactsOf` sees, and stutters.

`BucketCleaningProofs.tla`, for every set of runs, flavours and contents, every age,
page size and number of aborts, and **any** `MaxActive`, from the same assumptions and
`CleaningAssumption`:

* `CleaningTypeCorrect` — `CleaningSpec => []CleaningTypeOK`, whether or not runs
  and job overlap.  The type invariant of the pipeline is proved anew here, as
  manifests disappear; `CompleteSets` is needed because marking reads a manifest of
  every flavour from each set.

and, if `~CleanWhileRunning` (job and runs take turns, runs may overlap each other):

* `NobodyIsDisturbed` — `CleaningSpec => [](CleaningTypes /\ Undisturbed)`.
* `ImagesStay` — `CleaningSpec => []ImagesAreKept`.
* `SetLogsStay` — `CleaningSpec => SetLogsAreSpared`.
* `ReleasesStay` — `CleaningSpec => ReleasesStayDownloadable`.

`Copies` is not an invariant here: the memory of a run that has ended may name an
image that is swept afterwards.  `InUse` keeps of it what matters, the copies a run
in flight is about to use, step by step.  `Marking` is the heart: a document is
marked once the marking has passed it, and it stays so although documents are read one
after the other and threads of an earlier phase still delete some.  So the loose objects
of a page are none of a document.  `BySelf` includes the threads: no run starts as
long as one of them has a deletion left, also after the job broke off.
`OnlySnapshots` is why releases outlive their parts.

`AzureOfferProofs.tla`, for every set of releases and versions and every number
of operations, from `AzureAssumption`, `NoMetadataIsNil` (`Nil` is not a record)
and `~Overlap` (publications take turns, see *MaxActive* in section 4):

* `OfferInvariant` — `Spec => []OfferInv`, the inductive invariant.
* `OfferTypeCorrect` — `Spec => []TypeOK`.
* `RecordsAreRight` — `Spec => []RecordedOperationsCarryTheVersion`.
* `LiveVersionsAreKept` — `Spec => LiveVersionsStayLive`.
* `ReleasesOnlyAdvance` — `Spec => ReleasesAdvance`.

`OfferInv` adds three parts to `TypeOK`.  **`Chain`**: what is live was staged,
what is staged is in the offer, an operation under way is the only one of its
slot and carries no less than the slot holds.  So a transport that succeeds only
adds to its slot, which is `LiveVersionsStayLive`.  It is here that the
marketplace's rule of one operation per slot is needed, and that `If-Match: *`
is harmless only as long as nobody else wrote the offer since it was fetched.
**`Publishing`**: one publication is under way, its spec contains the offer and
its version, and once it has asked for the transport *every* operation to
staging that is under way carries the version.  **`Recording`**: the same for
the transport to production once a check has asked for it; and a release that
is being checked has state `publishing` and names no go-live operation, so that
none is exchanged.  The last two are what makes looking for *some* operation
under way right: if the one asked for has ended, another check may have started
its own, but that carries all that staging holds by then.

`FeatureExpansionProofs.tla`, for every set of features, all lists, requests and
ignored features, from `FeatureAssumption` and `InputAssumption`:

* `ExpansionIsTheClosure` — `Spec => []ExpansionIsClosure`.
* `NothingIsExpandedTwice` — `Spec => []NothingTwice`.
* `ReportedLoopsAreReal` — `Spec => []LoopsAreReal`.
* `IncludedFeaturesComeFirst` — `Spec => []IncludesComeFirst`.
* `NamesAreCanonical` — `Spec => []CnameIsCanonical`.
* `KeysSayWhatImagesAre` — `Spec => []ImagesAreWhatTheirKeysSay`, with
  `KeysTellFlavours`, the part about keys, for every finite flavour of an acyclic
  repository.
* `FeatureTypeCorrect` — `Spec => []TypeOK`.
* `NormalisingTwice` — normalising normalised modifiers changes nothing, so that
  each step of the pipeline that does it again computes the same key.

The invariant says what the marks mean.  Whatever is seen is processed, ignored,
or still on the stack, and is reachable from what was asked for; whatever is
processed has all that it includes seen.  When stack and queue are empty, the
processed features are therefore closed and nothing more.  The stack holds no feature twice, as one is
marked when it is pushed, so none is processed twice.  For the loops: a hot
feature, one entered and not left, reaches everything above it on the stack and
the feature being looked at, so that an edge from there to a hot feature closes a
loop.

*Order.*  `NoneAbove`: a feature on the stack that is not hot waits, and will be
processed after all that lies above it, so nothing above may include it.
When one is pushed this holds for what lies below the feature being looked at, as
including is transitive, and for what lies between by `AboveVertex`: that came from
later places of the same list, and lists are tidy.  When a feature is done, whatever
it names is seen and not hot (`LoopInv`), hence not waiting, hence processed.

*Names.*  A reduction gives up the features it meets, wherever they were asked for, so
`Followed` looks at lists, not at marks: what has been gone through names only what
has been visited, is ignored, or will be come to by the search under way.  `Brought`
keeps for each feature given up one in `minimal` that includes it; if that one is
given up in turn, the origin of the search takes its place.  At the end
minimal and visited features are closed, and disjoint (`Kept`).

*Keys.*  A feature that the key leaves out is included by another one.  That one
may be left out as well; as the features of an image are finitely many, and each step
up leads to fewer features above, this ends at one that the key names.  The argument goes down
a well-founded ordering of subsets (`NamedBringsAll`), and so does the one that a set of
names can be sorted (`CanBeSorted`), which `FeatureTypeCorrect` needs: induction
by a theorem that takes a predicate is beyond the prover, one that takes a set is not.

`TriggerAndWaitProofs.tla`, for any number of jobs, any requests, and any bounds,
from `TriggerAssumption`:

* `TriggerInvariant` — `Spec => []TriggerInv`, the inductive invariant.
* `TriggerTypeCorrect` — `Spec => []TypeOK`.
* `SuccessIsKnownByName` — `Spec => []SuccessIsOfOwnBuild`.
* `PackagesComeAfterImages` — `Spec => []PackagesFollowImages`.
* `StatusIsTrue` — `Spec => []StatusAgreesWithRun`.

A name is computed from the request and the time of a job, both variables, so the
first thing to show is that it no longer changes once anybody can refer to it:
`NamesAreGiven` (a run that exists belongs to a job that has rendered) with
`Asked`.  `Waited` then carries "a run of this name has succeeded" from the poll
that saw it to the end of the job, across purges and cancellations, which take
the run away but not the fact (`won`, `SucceededAreWon`); `Followed` is the same for the package run, also when its job
breaks off afterwards.  `Reported` ties a status to the run that gave it; it is
kept by the steps of other runs because these put their own name to it.

`AlicloudPublishProofs.tla`, for any number of attempts and regions and any
bounds on faults, from `AlicloudAssumption` and `NoImageIsNil` (`Nil` is not an
image), and for attempts that overlap in any way:

* `AlicloudTypeCorrect` — `Spec => []TypeOK`.
* `PublishedIsOwn` — `Spec => RecordedImagesAreOwn`.

`RecordedImagesAreOwn` is an implication between two invariants: if no two releases are
ever between upload and import at the same time (`UploadsApart`, the one thing that
`alicloud.py` would have to see to), then no release is recorded with the image of
another.  `OwnInv` follows the upload through an import (`OwnUploads`) and the images
through copies, leftovers and deletions (`OwnImages`); it is kept by every step that
ends in a state with `UploadsApart`.

And, if `MaxActive = 1` (attempts for one release take turns, those for others overlap
them, see section 4):

* `PublishInvariant` — `Spec => []PublishInv`, the inductive invariant.
* `PublishedIsUsable` — `Spec => []RecordedImagesAreUsable`.

`Turns` says that one attempt of a release is under way at most, and none if it is
recorded, so that nothing that is recorded is deleted by a later cleanup; attempts for
other releases touch other images.  `Working` says what each stage
has brought the regions it has visited to — an image there, an image available,
an image shared — over whatever leftovers of failed attempts it found and used.

`AwsPublishProofs.tla`, likewise, from `PublishAssumption` and `NoThreadIsNil`
(`Nil` is not a thread):

* `AwsTypeCorrect` — `Spec => []TypeOK`, however many attempts overlap;

and, if `MaxActive = 1`,

* `PublishInvariant` — `Spec => []PublishInv`, the inductive invariant.
* `PublishedIsUsable` — `Spec => []RecordedImagesAreUsable`.

The difficulty is the threads of the removal, which read loop variables that have
moved on and outlive the attempt that started them.  `Aiming` says what saves the
recorded images: whatever image a loop variable names while a thread is left was
made by an attempt that is cleaning up, has failed or is lost, and such an
attempt records nothing any more.  It is inductive because a removal finds only
images of attempts that were started (`Makers`), and by `Turns` all of those but
the one that cleans up have ended without a record.  `Working` is as for Alibaba
Cloud, and `Recorded` carries it over to the record.

### What is only model-checked

* Liveness (`RunsEnd`, `OrphansAreSwept`, `AttemptsEnd`, `RetrySucceeds`,
  `Terminates`, `StatusSettles`, `JobsEnd`) — the prover does not reach fairness.

The theorems that assume turns (`MaxActive = 1`, `~Overlap`, `~CleanWhileRunning`) say
nothing of overlapping runs, for which the properties are false (*MaxActive* in section
4).  Nothing in the code enforces the turns: the theorems say what the pipeline
keeps as long as it is used that way.

## 6. What is not modelled

* Contents of images, packages, logs, mails: data the properties do not read.
* Several versions or commits in one bucket: their documents have different
  keys; the exception, the OSS object of Alibaba Cloud, is in its module.
* What `flavours.yaml` declares, and its checks (`GardenlinuxFlavour`): the flavours of a
  set are a constant.
* Durations.  A timeout is a failure that may come at any time.  That the
  two hours `alicloud.py` waits for one image are also the timeout of the whole
  build task (so that the removal may never run) is not visible here.
* `release_step` beyond its first call, which fails: it asks the module
  `release` for a helper that module does not have.  `release.py` run by itself
  fails as well (it asks a module `github` for what is in `glci/github.py`), so
  that release branches and GitHub releases are not reached from anywhere.
* The tasks of the package pipeline and the base images: shell and kaniko, of which
  the outcome is modelled (`base`, and a failing task in `TriggerAndWait`).
* Publishing to GCP, OpenStack and OCI registries: sequences of calls that upload,
  wait and record, without a cleanup and without looking for what an earlier attempt
  left; that they fail anywhere is `BuildFails`.  The GCP object that an image is
  imported from is named after the version only (`gcp.py:27`), like the one of
  Alibaba Cloud, whose module shows what that means for overlapping runs.
* Versions and epochs: functions of dates and strings.
* Mails and Slack messages: what they say, and that they may fail, changes the
  outcome of no run that has not failed already.
* A failing `kubectl` or `tkn` command, beyond that it ends the job (`BreakOff`).
* S3 is taken to be strongly consistent and each request atomic.
* Concurrent modification of the bucket by hand, `--dry-run` and the command
  line of `promote.py`.
* The copy of an image to the Azure storage account (a failing one is
  `PublicationFails`), and the shared image gallery, which nothing calls.

## 7. Running it

    tlc -config Pipeline_overlap.cfg MCReleasePipeline
    tlapm ReleasePipelineProofs.tla

`PROJECT.json` lists the runs with their properties, for each property a mutant
of the model — the definition ending in an underscore and a word, marked
`(mutant)` — that TLC must refute, the source lines of every definition, the
hazards, the findings and the theorems.

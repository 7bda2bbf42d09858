----------------------- MODULE PipelineSequenceProofs -----------------------
(***************************************************************************)
(* What holds of the pipeline when its runs do not overlap (MaxActive = 1),*)
(* for any number of runs and flavours and with failures of every step:    *)
(* what a step read is still what the bucket holds when it writes it back, *)
(* so that nothing recorded of a flavour is lost, and the bucket is the    *)
(* ReleaseCatalogue its readers take it for.  With overlapping runs none   *)
(* of this is true: the runs of Pipeline_overlap.cfg check what remains.   *)
(***************************************************************************)
EXTENDS ReleasePipelineProofs, FiniteSetTheorems

Alone == \A q, r \in InFlight : q = r

\* What the manifest of a flavour says has been published has been.
Published(f) == singles[f] # Nil => singles[f].pub = Nil \/ Named(f, singles[f].pub)

\* Which images a build task has made, and what it knows of the manifest of its flavour.
FreshBuild(r, f) ==
    /\ build[r][f] \in {"pending", "build_image", "upload_objects", "publish_oci", "publish"} =>
          <<f, r>> \notin images
    /\ build[r][f] \in {"build_image", "upload_objects", "publish_oci", "upload_manifest"} =>
          singles[f] = Nil
    /\ build[r][f] = "publish_oci" => f \in Oci
    /\ build[r][f] = "upload_manifest" => (<<f, r>> \in images <=> f \in Oci)
    /\ build[r][f] \in {"promote_single", "done"} /\ <<f, r>> \in images =>
          singles[f] \in Manifest /\ singles[f].pub = r
    /\ build[r][f] = "publish" =>
          singles[f] \in Manifest /\ singles[f].pub = Nil /\ held[r][f] = Prepared(f)
    /\ build[r][f] = "persist" =>
          /\ singles[f] \in Manifest /\ singles[f].pub = Nil
          /\ \/ <<f, r>> \in images /\ held[r][f] = [singles[f] EXCEPT !.pub = r]
             \/ /\ <<f, r>> \notin images /\ f \in Azure
                /\ held[r][f] = [singles[f] EXCEPT !.pub = "provisional"]
             \/ <<f, r>> \notin images /\ f \in Unpublishable /\ held[r][f] = singles[f]
    /\ build[r][f] = "done" /\ "publish" \in targets[r] =>
          singles[f] \in Manifest /\ (f \notin Unpublishable => singles[f].pub # Nil)

\* What a test task and the task under finally are about to write back.
FreshTest(r, f) ==
    /\ test[r][f] \in {"run_tests", "upload_result"} /\ singles[f] # Nil =>
          singles[f].test # "OK"
    /\ test[r][f] = "upload_result" =>
          /\ singles[f] \in Manifest
          /\ \E t \in {"OK", "FAILED"} : held[r][f] = [singles[f] EXCEPT !.test = t]

FreshLog(r, f) ==
    attaching[r] = f =>
        /\ f \in todo[r] /\ singles[f] \in Manifest
        /\ held[r][f] = [singles[f] EXCEPT !.log = logKey[r]]

\* A manifest that was collected tells nothing that the one in the bucket does not.
Told(m, s) ==
    /\ s \in Manifest /\ m.pub = s.pub /\ m.log = s.log
    /\ m.test = "OK" => s.test = "OK"

\* What the promote task has collected, and what became of the set it made.
Collected(r) ==
    /\ promote[r] # "collect" => \A f \in Flavours : found[r][f] = Nil
    /\ \A f \in Flavours : found[r][f] # Nil => Told(found[r][f], singles[f])
    /\ promote[r] # "pending" => \A f \in Flavours : build[r][f] = "done"
    /\ promote[r] \in {"pending", "collect"} => setKey[r] = Nil
    /\ setKey[r] # Nil =>
          /\ "manifest" \in targets[r]
          /\ sets[setKey[r]] \in ManifestSet
          /\ \A f \in Flavours : singles[f] \in Manifest
    /\ setKey[r] # Nil /\ "publish" \in targets[r] =>
          \A f \in Flavours \ Unpublishable : Named(f, sets[setKey[r]].manifests[f].pub)

\* How far the logs are attached.
Attached(r) ==
    /\ phase[r] \in {"attach_singles", "attach_set"} =>
          \A f \in Flavours :
              result[r][f] /\ (phase[r] = "attach_singles" => f \notin todo[r]) =>
                  singles[f] \in Manifest /\ singles[f].log = logKey[r]
    /\ phase[r] = "attach_set" =>
          /\ setKey[r] # Nil
          /\ heldSet[r].manifests = sets[setKey[r]].manifests
          /\ logKey[r] \in heldSet[r].logs
          /\ \A f \in Flavours \ todo[r] : singles[f].log \in heldSet[r].logs \cup {Nil}

Fresh(r, f) == FreshBuild(r, f) /\ FreshTest(r, f) /\ FreshLog(r, f)

OfRun(r) == (\A f \in Flavours : Fresh(r, f)) /\ Collected(r) /\ Attached(r)

Sequence == Alone /\ (\A f \in Flavours : Published(f)) /\ \A r \in Runs : OfRun(r)

-----------------------------------------------------------------------------
(* What any step does to the documents in the bucket: a manifest is never    *)
(* lost and never loses its images; a set is replaced by one that tells as   *)
(* much of the images.                                                       *)

Kept(f) ==
    /\ Published(f)'
    /\ singles[f] # Nil =>
        /\ singles'[f] \in Manifest
        /\ singles[f].pub # Nil => singles'[f].pub = singles[f].pub

SetKept(k) ==
    sets[k] # Nil =>
        /\ sets'[k] \in ManifestSet
        /\ \/ sets'[k].manifests = sets[k].manifests
           \/ \A f \in Flavours : /\ sets'[k].manifests[f] \in Manifest
                                  /\ sets'[k].manifests[f].pub = singles[f].pub

\* The step leaves the run alone.
Bystander(q) ==
    /\ phase'[q] = phase[q] /\ targets'[q] = targets[q] /\ promote'[q] = promote[q]
    /\ setKey'[q] = setKey[q] /\ attaching'[q] = attaching[q]
    /\ \A f \in Flavours :
          /\ build'[q][f] = build[q][f] /\ test'[q][f] = test[q][f]
          /\ found'[q][f] = found[q][f]
          /\ <<f, q>> \in images' => <<f, q>> \in images

LEMMA BystandersStay ==
    ASSUME TypeInv, Sequence, NEW q \in Runs, Bystander(q), q \notin InFlight,
           images \subseteq images',
           \A f \in Flavours : Kept(f), \A k \in SetKeys : SetKept(k)
    PROVE  OfRun(q)'
<1>0. OfRun(q)
  BY DEF Sequence
<1>1. /\ promote[q] \in Idle /\ attaching[q] = Nil
      /\ \A f \in Flavours : build[q][f] \in Idle /\ test[q][f] \in Idle
  BY DEF TypeInv, Scheduling, InFlight
<1>2. ASSUME NEW f \in Flavours
      PROVE  Fresh(q, f)'
  <2>1. attaching[q] # f
    BY <1>1, ConstantsAssumption
  <2>2. FreshBuild(q, f) /\ Kept(f) /\ singles[f] \in Manifest \cup {Nil}
    BY <1>0 DEF OfRun, Fresh, TypeInv, TypeOK
  <2>3. FreshBuild(q, f)'
    BY <1>1, <2>2, NoDocumentIsNil, ConstantsAssumption
       DEF FreshBuild, Kept, Bystander, Idle
  <2> QED
    BY <1>1, <2>1, <2>3 DEF Fresh, FreshTest, FreshLog, Bystander, Idle
<1>3. Collected(q)'
  <2>1. \A f \in Flavours : found'[q][f] = Nil
    BY <1>0, <1>1 DEF OfRun, Collected, Bystander, Idle
  <2>2. ASSUME setKey[q] # Nil
        PROVE  /\ "manifest" \in targets[q]
               /\ sets'[setKey[q]] \in ManifestSet
               /\ \A f \in Flavours : singles'[f] \in Manifest
    <3>1. setKey[q] \in SetKeys /\ sets[setKey[q]] # Nil
      BY <1>0, <2>2, NoDocumentIsNil DEF OfRun, Collected, TypeInv, TypeOK
    <3> QED
      BY <1>0, <2>2, <3>1, NoDocumentIsNil DEF OfRun, Collected, Kept, SetKept
  <2>3. ASSUME setKey[q] # Nil, "publish" \in targets[q], NEW f \in Flavours \ Unpublishable
        PROVE  Named(f, sets[setKey[q]].manifests[f].pub)'
    <3>1. setKey[q] \in SetKeys /\ sets[setKey[q]] # Nil
      BY <1>0, <2>3, NoDocumentIsNil DEF OfRun, Collected, TypeInv, TypeOK
    <3>2. build[q][f] = "done"
      BY <1>0, <2>3 DEF OfRun, Collected
    <3>3. Named(f, singles[f].pub)
      BY <1>0, <2>3, <3>2, NoDocumentIsNil DEF OfRun, Fresh, FreshBuild, Sequence, Published
    <3>4. Named(f, sets[setKey[q]].manifests[f].pub)
      BY <1>0, <2>3 DEF OfRun, Collected
    <3>5. sets'[setKey[q]].manifests[f].pub \in
              {sets[setKey[q]].manifests[f].pub, singles[f].pub}
      BY <2>3, <3>1 DEF SetKept
    <3>6. setKey'[q] = setKey[q]
      BY DEF Bystander
    <3> QED
      BY <3>3, <3>4, <3>5, <3>6 DEF Named
  <2> QED
    BY <1>0, <2>1, <2>2, <2>3 DEF OfRun, Collected, Bystander
<1>4. Attached(q)'
  BY DEF Attached, Bystander, InFlight
<1> QED
  BY <1>2, <1>3, <1>4 DEF OfRun

\* A step of a run in flight: only what it does to its own entries is left to show.
LEMMA StepOfRun ==
    ASSUME TypeInv, Sequence, NEW r \in Runs, r \in InFlight,
           \A q \in Runs \ {r} : Bystander(q), images \subseteq images',
           \A f \in Flavours : Kept(f), \A k \in SetKeys : SetKept(k),
           OfRun(r)'
    PROVE  Sequence'
<1>1. ASSUME NEW q \in Runs \ {r}
      PROVE  q \notin InFlight /\ phase'[q] = phase[q]
  BY DEF Sequence, Alone, Bystander
<1>2. Alone'
  BY <1>1 DEF Alone, InFlight
<1>3. ASSUME NEW q \in Runs \ {r}
      PROVE  OfRun(q)'
  BY <1>1, BystandersStay
<1> QED
  BY <1>2, <1>3 DEF Sequence, Kept

(* The build task of a flavour.                                              *)

Builds(r, f) ==
    /\ \A g \in Flavours \ {f} : singles'[g] = singles[g]
    /\ images \subseteq images' /\ images' \subseteq images \cup {<<f, r>>}
    /\ Kept(f)
    /\ FreshBuild(r, f)'

LEMMA Unchanged ==
    ASSUME TypeInv, Sequence, images \subseteq images'
    PROVE  /\ \A f \in Flavours : singles'[f] = singles[f] => Kept(f)
           /\ \A k \in SetKeys : sets'[k] = sets[k] => SetKept(k)
BY DEF Kept, SetKept, TypeInv, TypeOK, Sequence, Published, Named

LEMMA SameEntries ==
    ASSUME NEW r \in Runs, NEW f \in Flavours, Fresh(r, f),
           build'[r][f] = build[r][f], test'[r][f] = test[r][f], held'[r][f] = held[r][f],
           singles'[f] = singles[f], <<f, r>> \in images' <=> <<f, r>> \in images,
           UNCHANGED <<targets, attaching, todo, logKey>>
    PROVE  Fresh(r, f)'
<1>1. FreshBuild(r, f)'
  BY DEF Fresh, FreshBuild, Prepared
<1>2. FreshTest(r, f)' /\ FreshLog(r, f)'
  BY DEF Fresh, FreshTest, FreshLog
<1> QED
  BY <1>1, <1>2 DEF Fresh

LEMMA BuildsKeepSequence ==
    ASSUME TypeInv, Sequence, NEW r \in Runs, NEW f \in Flavours, BuildMoves(r, f),
           Builds(r, f)
    PROVE  Sequence'
<1>1. r \in InFlight
  BY DEF BuildMoves, InFlight
<1>2. \A q \in Runs \ {r} : Bystander(q)
  BY DEF BuildMoves, Builds, Bystander, Elsewhere
<1>3. /\ images \subseteq images'
      /\ (\A g \in Flavours : Kept(g)) /\ (\A k \in SetKeys : SetKept(k))
  BY Unchanged DEF BuildMoves, Builds
<1>4. build[r][f] # "done" /\ test[r][f] = "pending" /\ attaching[r] = Nil
  BY DEF BuildMoves, TypeInv, Scheduling
<1>5. promote[r] = "pending" /\ setKey[r] = Nil /\ \A g \in Flavours : found[r][g] = Nil
  BY <1>4 DEF Sequence, OfRun, Collected
<1>6. ASSUME NEW g \in Flavours
      PROVE  Fresh(r, g)'
  <2>1. CASE g = f
    <3>1. FreshTest(r, f)' /\ FreshLog(r, f)'
      BY <1>4, ConstantsAssumption DEF BuildMoves, FreshTest, FreshLog
    <3> QED
      BY <2>1, <3>1 DEF Builds, Fresh
  <2>2. CASE g # f
    <3>1. /\ build'[r][g] = build[r][g] /\ held'[r][g] = held[r][g]
          /\ singles'[g] = singles[g]
          /\ <<g, r>> \in images' <=> <<g, r>> \in images
      BY <2>2 DEF BuildMoves, Builds, Elsewhere
    <3>2. UNCHANGED <<targets, test, attaching, todo, logKey>>
      BY DEF BuildMoves
    <3>3. Fresh(r, g)
      BY DEF Sequence, OfRun
    <3> QED
      BY <3>1, <3>2, <3>3, SameEntries
  <2> QED
    BY <2>1, <2>2
<1>7. Collected(r)' /\ Attached(r)'
  BY <1>5 DEF BuildMoves, Collected, Attached
<1> QED
  BY <1>1, <1>2, <1>3, <1>6, <1>7, StepOfRun DEF OfRun

LEMMA PreBuildBuilds ==
    ASSUME TypeInv, Sequence, NEW r \in Runs, NEW f \in Flavours, PreBuild(r, f)
    PROVE  Builds(r, f)
<1>1. FreshBuild(r, f) /\ build \in [Runs -> [Flavours -> BuildStep]]
  BY DEF Sequence, OfRun, Fresh, TypeInv, TypeOK
<1>2. /\ UNCHANGED <<singles, images>> /\ Kept(f) /\ build[r][f] = "pending"
      /\ \/ build'[r][f] = "promote_single"
         \/ build'[r][f] = "build_image" /\ singles[f] = Nil
  BY <1>1, Unchanged DEF PreBuild, BuildMayStart, AlreadyBuilt, GoBuild, bucket, outside
<1> QED
  BY <1>1, <1>2 DEF Builds, FreshBuild

LEMMA BuildImageBuilds ==
    ASSUME TypeInv, Sequence, NEW r \in Runs, NEW f \in Flavours, BuildImage(r, f)
    PROVE  Builds(r, f)
<1>1. FreshBuild(r, f) /\ build \in [Runs -> [Flavours -> BuildStep]]
  BY DEF Sequence, OfRun, Fresh, TypeInv, TypeOK
<1>2. /\ UNCHANGED <<singles, images>> /\ Kept(f) /\ build[r][f] = "build_image"
      /\ build'[r][f] \in {"upload_objects", "promote_single"}
  BY <1>1, Unchanged DEF BuildImage, GoBuild, bucket, outside
<1> QED
  BY <1>1, <1>2 DEF Builds, FreshBuild

LEMMA UploadObjectsBuilds ==
    ASSUME TypeInv, Sequence, NEW r \in Runs, NEW f \in Flavours, UploadObjects(r, f)
    PROVE  Builds(r, f)
<1>1. FreshBuild(r, f) /\ build \in [Runs -> [Flavours -> BuildStep]]
  BY DEF Sequence, OfRun, Fresh, TypeInv, TypeOK
<1>2. /\ UNCHANGED <<singles, images>> /\ Kept(f) /\ build[r][f] = "upload_objects"
      /\ \/ build'[r][f] = "publish_oci" /\ f \in Oci
         \/ build'[r][f] = "upload_manifest" /\ f \notin Oci
  BY <1>1, Unchanged DEF UploadObjects, AfterObjects, GoBuild, outside
<1> QED
  BY <1>1, <1>2 DEF Builds, FreshBuild

LEMMA PublishOciBuilds ==
    ASSUME TypeInv, Sequence, NEW r \in Runs, NEW f \in Flavours, PublishOci(r, f)
    PROVE  Builds(r, f)
<1>1. FreshBuild(r, f) /\ build \in [Runs -> [Flavours -> BuildStep]]
  BY DEF Sequence, OfRun, Fresh, TypeInv, TypeOK
<1>2. /\ UNCHANGED singles /\ Kept(f) /\ images' = images \cup {<<f, r>>}
      /\ build[r][f] = "publish_oci" /\ build'[r][f] = "upload_manifest"
  BY <1>1, Unchanged DEF PublishOci, GoBuild, bucket
<1> QED
  BY <1>1, <1>2 DEF Builds, FreshBuild

LEMMA UploadManifestBuilds ==
    ASSUME TypeInv, Sequence, NEW r \in Runs, NEW f \in Flavours, UploadManifest(r, f)
    PROVE  Builds(r, f)
<1>1. /\ FreshBuild(r, f) /\ build \in [Runs -> [Flavours -> BuildStep]]
      /\ singles \in [Flavours -> Manifest \cup {Nil}]
  BY DEF Sequence, OfRun, Fresh, TypeInv, TypeOK
<1>2. /\ UNCHANGED <<images, targets>>
      /\ build[r][f] = "upload_manifest" /\ build'[r][f] = "promote_single"
      /\ singles[f] = Nil
      /\ singles' = [singles EXCEPT ![f] = FreshManifest(r, f)]
  BY <1>1 DEF UploadManifest, UploadReleaseManifest, GoBuild, FreshBuild, outside, given
<1>3. /\ FreshManifest(r, f) \in Manifest
      /\ FreshManifest(r, f).pub = IF f \in Oci THEN r ELSE Nil
  <2>1. output[r][f] \in Contents /\ clock \in Time
    BY <1>2 DEF TypeInv, TypeOK, Holding
  <2> QED
    BY <2>1, FreshManifestType DEF FreshManifest
<1>4. singles'[f] = FreshManifest(r, f) /\ (<<f, r>> \in images <=> f \in Oci)
  BY <1>1, <1>2 DEF FreshBuild
<1>5. Published(f)'
  BY <1>2, <1>3, <1>4 DEF Published, Named
<1>6. FreshBuild(r, f)'
  <2>1. build'[r][f] = "promote_single" /\ singles'[f] \in Manifest
    BY <1>2, <1>3, <1>4
  <2>2. <<f, r>> \in images' => singles'[f].pub = r
    BY <1>2, <1>3, <1>4
  <2> QED
    BY <2>1, <2>2 DEF FreshBuild
<1> QED
  BY <1>1, <1>2, <1>5, <1>6 DEF Builds, Kept

LEMMA PromoteSingleBuilds ==
    ASSUME TypeInv, Sequence, NEW r \in Runs, NEW f \in Flavours, PromoteSingle(r, f)
    PROVE  Builds(r, f)
<1>1. /\ FreshBuild(r, f) /\ build \in [Runs -> [Flavours -> BuildStep]]
      /\ singles[f] \in Manifest \cup {Nil}
      /\ held \in [Runs -> [Flavours -> Manifest \cup {Nil}]]
  BY DEF Sequence, OfRun, Fresh, TypeInv, TypeOK
<1>2. /\ UNCHANGED <<singles, images, targets>> /\ Kept(f)
      /\ build[r][f] = "promote_single"
      /\ \/ build'[r][f] = "done" /\ "publish" \notin targets[r]
         \/ build'[r][f] = "failed"
         \/ build'[r][f] = "done" /\ singles[f] \in Manifest /\ singles[f].pub # Nil
         \/ /\ build'[r][f] = "publish" /\ singles[f] \in Manifest /\ singles[f].pub = Nil
            /\ held'[r][f] = Prepared(f)
  BY <1>1, Unchanged DEF PromoteSingle, AlreadyPublished, GoBuild, bucket, outside, given
<1>3. Prepared(f)' = Prepared(f)
  BY <1>2 DEF Prepared
<1> QED
  BY <1>1, <1>2, <1>3, ConstantsAssumption DEF Builds, FreshBuild

\* The manifest that publishing amends, whatever was prepared for azure.
LEMMA PublishedCopy ==
    ASSUME NEW f \in Flavours, singles[f] \in Manifest, NEW p
    PROVE  [Prepared(f) EXCEPT !.pub = p] = [singles[f] EXCEPT !.pub = p]
BY DEF Prepared, Manifest

LEMMA PublishImageBuilds ==
    ASSUME TypeInv, Sequence, NEW r \in Runs, NEW f \in Flavours, PublishImage(r, f)
    PROVE  Builds(r, f)
<1>1. /\ FreshBuild(r, f) /\ build \in [Runs -> [Flavours -> BuildStep]]
      /\ held \in [Runs -> [Flavours -> Manifest \cup {Nil}]]
  BY DEF Sequence, OfRun, Fresh, TypeInv, TypeOK
<1>2. /\ UNCHANGED singles /\ images \subseteq images' /\ build[r][f] = "publish"
      /\ build'[r][f] = "persist"
  BY <1>1 DEF PublishImage, GoBuild, bucket
<1>3. Kept(f) /\ singles[f] \in Manifest /\ singles[f].pub = Nil /\ <<f, r>> \notin images
  BY <1>1, <1>2, Unchanged DEF FreshBuild
<1>4. CASE f \in Unpublishable
  <2>1. UNCHANGED <<images, held>>
    BY <1>4 DEF PublishImage
  <2>2. held[r][f] = singles[f]
    BY <1>1, <1>2, <1>4, ConstantsAssumption DEF FreshBuild, Prepared
  <2> QED
    BY <1>2, <1>3, <1>4, <2>1, <2>2 DEF Builds, FreshBuild
<1>5. CASE f \notin Unpublishable
  <2>1. /\ images' = images \cup {<<f, r>>}
        /\ held'[r][f] = [held[r][f] EXCEPT !.pub = r]
    BY <1>1, <1>5 DEF PublishImage
  <2>2. held'[r][f] = [singles[f] EXCEPT !.pub = r]
    <3>1. held[r][f] = Prepared(f)
      BY <1>1, <1>2 DEF FreshBuild
    <3> QED
      BY <1>3, <2>1, <3>1, PublishedCopy
  <2> QED
    BY <1>2, <1>3, <2>1, <2>2 DEF Builds, FreshBuild
<1> QED
  BY <1>4, <1>5

LEMMA PublishFailsBuilds ==
    ASSUME TypeInv, Sequence, NEW r \in Runs, NEW f \in Flavours, PublishFails(r, f)
    PROVE  Builds(r, f)
<1>1. /\ FreshBuild(r, f) /\ build \in [Runs -> [Flavours -> BuildStep]]
  BY DEF Sequence, OfRun, Fresh, TypeInv, TypeOK
<1>2. /\ UNCHANGED <<singles, images>> /\ Kept(f) /\ build[r][f] = "publish"
      /\ \/ build'[r][f] = "persist" /\ f \in Azure /\ UNCHANGED held
         \/ build'[r][f] = "failed"
  BY <1>1, Unchanged DEF PublishFails, GoBuild, bucket, outside
<1>3. CASE build'[r][f] = "failed"
  BY <1>2, <1>3 DEF Builds, FreshBuild
<1>4. CASE build'[r][f] = "persist" /\ f \in Azure /\ UNCHANGED held
  <2>1. /\ singles[f] \in Manifest /\ singles[f].pub = Nil /\ <<f, r>> \notin images
        /\ held'[r][f] = [singles[f] EXCEPT !.pub = "provisional"]
    BY <1>1, <1>2, <1>4 DEF FreshBuild, Prepared
  <2> QED
    BY <1>2, <1>4, <2>1 DEF Builds, FreshBuild
<1> QED
  BY <1>2, <1>3, <1>4

LEMMA PersistSingleBuilds ==
    ASSUME TypeInv, Sequence, NEW r \in Runs, NEW f \in Flavours, PersistSingle(r, f)
    PROVE  Builds(r, f)
<1>1. /\ FreshBuild(r, f) /\ build \in [Runs -> [Flavours -> BuildStep]]
      /\ singles \in [Flavours -> Manifest \cup {Nil}]
  BY DEF Sequence, OfRun, Fresh, TypeInv, TypeOK
<1>2. /\ UNCHANGED <<images, targets>>
      /\ build[r][f] = "persist" /\ build'[r][f] = "done"
      /\ singles' = [singles EXCEPT ![f] = held[r][f]]
  BY <1>1 DEF PersistSingle, UploadReleaseManifest, GoBuild, outside, given
<1>3. singles[f] \in Manifest /\ singles[f].pub = Nil /\ held[r][f] \in Manifest
  BY <1>1, <1>2 DEF FreshBuild, TypeInv, Holding
<1>4. /\ held[r][f].pub = Nil => f \in Unpublishable
      /\ held[r][f].pub # Nil => Named(f, held[r][f].pub)
      /\ <<f, r>> \in images => held[r][f].pub = r
  <2>1. CASE <<f, r>> \in images /\ held[r][f] = [singles[f] EXCEPT !.pub = r]
    <3>1. held[r][f].pub = r
      BY <1>3, <2>1 DEF Manifest
    <3> QED
      BY <2>1, <3>1, ConstantsAssumption DEF Named
  <2>2. CASE /\ <<f, r>> \notin images /\ f \in Azure
             /\ held[r][f] = [singles[f] EXCEPT !.pub = "provisional"]
    <3>1. held[r][f].pub = "provisional"
      BY <1>3, <2>2 DEF Manifest
    <3> QED
      BY <2>2, <3>1, ConstantsAssumption DEF Named
  <2>3. CASE <<f, r>> \notin images /\ f \in Unpublishable /\ held[r][f] = singles[f]
    BY <1>3, <2>3
  <2> QED
    BY <1>1, <1>2, <2>1, <2>2, <2>3 DEF FreshBuild
<1>5. singles'[f] = held[r][f] /\ \A g \in Flavours \ {f} : singles'[g] = singles[g]
  BY <1>1, <1>2
<1>6. Kept(f)
  BY <1>2, <1>3, <1>4, <1>5 DEF Kept, Published, Named
<1>7. FreshBuild(r, f)'
  <2>1. singles'[f] \in Manifest /\ (f \notin Unpublishable => singles'[f].pub # Nil)
    BY <1>3, <1>4, <1>5
  <2>2. <<f, r>> \in images' => singles'[f].pub = r
    BY <1>2, <1>4, <1>5
  <2> QED
    BY <1>2, <2>1, <2>2 DEF FreshBuild
<1> QED
  BY <1>2, <1>5, <1>6, <1>7 DEF Builds

LEMMA BuildFailsBuilds ==
    ASSUME TypeInv, Sequence, NEW r \in Runs, NEW f \in Flavours, BuildFails(r, f)
    PROVE  Builds(r, f)
<1>1. build \in [Runs -> [Flavours -> BuildStep]]
  BY DEF TypeInv, TypeOK
<1>2. UNCHANGED <<singles, images>> /\ Kept(f) /\ build'[r][f] = "failed"
  BY <1>1, Unchanged DEF BuildFails, GoBuild, bucket, outside
<1> QED
  BY <1>2 DEF Builds, FreshBuild

LEMMA BuildKeepsSequence ==
    ASSUME TypeInv, Sequence, NEW r \in Runs, NEW f \in Flavours, BuildTask(r, f)
    PROVE  Sequence'
<1>1. BuildMoves(r, f)
  BY PreBuildMoves, BuildImageMoves, UploadObjectsMoves, PublishOciMoves,
     UploadManifestMoves, PromoteSingleMoves, PublishImageMoves, PublishFailsMoves,
     PersistSingleMoves, BuildFailsMoves DEF BuildTask
<1>2. Builds(r, f)
  BY PreBuildBuilds, BuildImageBuilds, UploadObjectsBuilds, PublishOciBuilds,
     UploadManifestBuilds, PromoteSingleBuilds, PublishImageBuilds, PublishFailsBuilds,
     PersistSingleBuilds, BuildFailsBuilds DEF BuildTask
<1> QED
  BY <1>1, <1>2, BuildsKeepSequence

(* The test task of a flavour.                                               *)

Tests(r, f) ==
    /\ \A g \in Flavours \ {f} : singles'[g] = singles[g]
    /\ \/ singles'[f] = singles[f]
       \/ /\ singles[f] \in Manifest /\ singles[f].test # "OK"
          /\ \E t \in {"OK", "FAILED"} : singles'[f] = [singles[f] EXCEPT !.test = t]
    /\ FreshTest(r, f)'

LEMMA TestsKeepSequence ==
    ASSUME TypeInv, Sequence, NEW r \in Runs, NEW f \in Flavours, TestMoves(r, f),
           Tests(r, f)
    PROVE  Sequence'
<1>1. r \in InFlight /\ attaching[r] = Nil
  BY DEF TestMoves, InFlight, TypeInv, Scheduling
<1>2. \A q \in Runs \ {r} : Bystander(q)
  BY DEF TestMoves, outside, given, buildPc, promotePc, notifyPc, Bystander, Elsewhere
<1>3. /\ singles[f] \in Manifest \cup {Nil}
      /\ \/ singles'[f] = singles[f]
         \/ /\ singles[f] \in Manifest /\ singles'[f] \in Manifest
            /\ singles'[f].pub = singles[f].pub /\ singles'[f].log = singles[f].log
            /\ singles[f].test # "OK"
  <2>1. singles[f] \in Manifest \cup {Nil}
    BY DEF TypeInv, TypeOK
  <2>2. ASSUME singles[f] \in Manifest, NEW t \in {"OK", "FAILED"},
               singles'[f] = [singles[f] EXCEPT !.test = t]
        PROVE  /\ singles'[f] \in Manifest
               /\ singles'[f].pub = singles[f].pub /\ singles'[f].log = singles[f].log
    BY <2>2 DEF Manifest
  <2> QED
    BY <1>2, <2>1, <2>2 DEF Tests
<1>5. UNCHANGED <<images, targets, build, found, sets, setKey, promote, phase, attaching,
                  todo, logKey>>
  BY DEF TestMoves, outside, given, buildPc, promotePc, notifyPc
<1>4. (\A g \in Flavours : Kept(g)) /\ (\A k \in SetKeys : SetKept(k))
  <2>1. Kept(f)
    BY <1>3, <1>5, NoDocumentIsNil DEF Sequence, Published, Named, Kept
  <2> QED
    BY <1>5, <2>1, Unchanged DEF Tests
<1>6. ASSUME NEW g \in Flavours
      PROVE  Fresh(r, g)'
  <2>1. Fresh(r, g)
    BY DEF Sequence, OfRun
  <2>2. CASE g = f
    <3>1. build[r][f] = "done" /\ FreshLog(r, f)'
      BY <1>1, <1>5, ConstantsAssumption DEF TestMoves, FreshLog
    <3>2. FreshBuild(r, f)'
      BY <1>3, <1>5, <2>1, <2>2, <3>1, NoDocumentIsNil DEF Fresh, FreshBuild
    <3> QED
      BY <2>2, <3>1, <3>2 DEF Fresh, Tests
  <2>3. CASE g # f
    BY <1>5, <2>1, <2>3, SameEntries DEF TestMoves, Tests, Elsewhere
  <2> QED
    BY <2>2, <2>3
<1>7. Collected(r)'
  <2>1. Collected(r)
    BY DEF Sequence, OfRun
  <2>2. \A g \in Flavours : singles[g] \in Manifest => singles'[g] \in Manifest
    BY <1>3 DEF Tests
  <2>3. ASSUME NEW g \in Flavours, found[r][g] # Nil
        PROVE  Told(found[r][g], singles'[g])
    BY <1>3, <2>1, <2>3 DEF Collected, Told, Tests
  <2> QED
    BY <1>5, <2>1, <2>2, <2>3 DEF Collected, Named
<1>8. Attached(r)'
  BY <1>5 DEF TestMoves, Attached
<1> QED
  BY <1>1, <1>2, <1>4, <1>5, <1>6, <1>7, <1>8, StepOfRun DEF OfRun

LEMMA TestTaskTests ==
    ASSUME TypeInv, Sequence, NEW r \in Runs, NEW f \in Flavours, TestTask(r, f)
    PROVE  Tests(r, f)
<1>1. /\ FreshTest(r, f) /\ test \in [Runs -> [Flavours -> TestStep]]
      /\ held \in [Runs -> [Flavours -> Manifest \cup {Nil}]]
      /\ singles \in [Flavours -> Manifest \cup {Nil}]
  BY DEF Sequence, OfRun, Fresh, TypeInv, TypeOK
<1>2. CASE PreCheckTests(r, f)
  <2>1. /\ UNCHANGED singles
        /\ \/ test'[r][f] = "done"
           \/ test'[r][f] = "run_tests" /\ ~(singles[f] # Nil /\ singles[f].test = "OK")
    BY <1>1, <1>2 DEF PreCheckTests, GoTest, bucket
  <2>2. FreshTest(r, f)'
    BY <1>1, <2>1 DEF FreshTest
  <2> QED
    BY <1>1, <2>1, <2>2 DEF Tests
<1>3. CASE RunTests(r, f)
  <2>1. UNCHANGED singles /\ test[r][f] = "run_tests"
    BY <1>3 DEF RunTests, bucket
  <2>2. \/ test'[r][f] \in {"done", "failed"}
        \/ /\ test'[r][f] = "upload_result" /\ singles[f] \in Manifest
           /\ \E t \in {"OK", "FAILED"} : held'[r][f] = [singles[f] EXCEPT !.test = t]
    BY <1>1, <1>3 DEF RunTests, GoTest
  <2>3. FreshTest(r, f)'
    BY <1>1, <2>1, <2>2 DEF FreshTest
  <2> QED
    BY <1>1, <2>1, <2>3 DEF Tests
<1>4. CASE UploadTestResult(r, f)
  <2>1. /\ test[r][f] = "upload_result" /\ test'[r][f] \in {"done", "failed"}
        /\ singles' = [singles EXCEPT ![f] = held[r][f]]
    BY <1>1, <1>4 DEF UploadTestResult, UploadReleaseManifest, GoTest
  <2>2. /\ singles[f] \in Manifest /\ singles[f].test # "OK"
        /\ \E t \in {"OK", "FAILED"} : held[r][f] = [singles[f] EXCEPT !.test = t]
    BY <1>1, <2>1, NoDocumentIsNil DEF FreshTest
  <2>3. FreshTest(r, f)'
    BY <1>1, <2>1 DEF FreshTest
  <2>4. /\ singles'[f] = held[r][f]
        /\ \A g \in Flavours \ {f} : singles'[g] = singles[g]
    BY <1>1, <2>1
  <2> QED
    BY <1>1, <2>2, <2>3, <2>4 DEF Tests
<1>5. CASE TestFails(r, f)
  <2>1. UNCHANGED singles /\ test'[r][f] = "failed"
    BY <1>1, <1>5 DEF TestFails, GoTest, bucket
  <2>2. FreshTest(r, f)'
    BY <1>1, <2>1 DEF FreshTest
  <2> QED
    BY <1>1, <2>1, <2>2 DEF Tests
<1> QED
  BY <1>2, <1>3, <1>4, <1>5 DEF TestTask

LEMMA TestKeepsSequence ==
    ASSUME TypeInv, Sequence, NEW r \in Runs, NEW f \in Flavours, TestTask(r, f)
    PROVE  Sequence'
<1>1. TestMoves(r, f)
  BY PreCheckTestsMoves, RunTestsMoves, UploadTestResultMoves, TestFailsMoves DEF TestTask
<1> QED
  BY <1>1, TestTaskTests, TestsKeepSequence

(* The promote task.                                                         *)

LEMMA PromotesKeepSequence ==
    ASSUME TypeInv, Sequence, NEW r \in Runs, PromoteMoves(r),
           \A q \in Runs \ {r} : \A f \in Flavours : found'[q][f] = found[q][f],
           \A k \in SetKeys : SetKept(k),
           Collected(r)'
    PROVE  Sequence'
<1>1. r \in InFlight /\ attaching[r] = Nil
  BY DEF PromoteMoves, InFlight, TypeInv, Scheduling
<1>2. \A q \in Runs \ {r} : Bystander(q)
  BY DEF PromoteMoves, given, buildPc, notifyPc, Bystander
<1>3. images' = images /\ \A f \in Flavours : Kept(f)
  BY Unchanged DEF PromoteMoves
<1>4. ASSUME NEW f \in Flavours
      PROVE  Fresh(r, f)'
  <2>1. Fresh(r, f)
    BY DEF Sequence, OfRun
  <2>2. UNCHANGED <<singles, images, targets, build, test, held, attaching>>
    BY DEF PromoteMoves, given, buildPc, notifyPc
  <2>3. FreshBuild(r, f)' /\ FreshTest(r, f)'
    BY <2>1, <2>2 DEF Fresh, FreshBuild, FreshTest, Prepared
  <2>4. FreshLog(r, f)'
    BY <1>1, <2>2, ConstantsAssumption DEF FreshLog
  <2> QED
    BY <2>3, <2>4 DEF Fresh
<1>5. Attached(r)'
  BY DEF PromoteMoves, Attached
<1> QED
  BY <1>1, <1>2, <1>3, <1>4, <1>5, StepOfRun DEF OfRun

LEMMA BuildComponentDescriptorCollects ==
    ASSUME TypeInv, Sequence, NEW r \in Runs, BuildComponentDescriptor(r)
    PROVE  Collected(r)' /\ UNCHANGED <<found, sets, images>>
<1>1. /\ promote[r] = "pending" /\ promote'[r] # "pending"
      /\ \A f \in Flavours : build[r][f] = "done"
      /\ UNCHANGED <<singles, sets, images, build, found, setKey>>
  BY DEF BuildComponentDescriptor, PromoteMayStart, GoPromote, bucket, buildPc, TypeInv,
     TypeOK
<1>2. setKey[r] = Nil /\ \A f \in Flavours : found[r][f] = Nil
  BY <1>1 DEF Sequence, OfRun, Collected
<1> QED
  BY <1>1, <1>2 DEF Collected

LEMMA CollectReleaseCollects ==
    ASSUME TypeInv, Sequence, NEW r \in Runs, NEW f \in Flavours, CollectRelease(r, f)
    PROVE  /\ Collected(r)' /\ UNCHANGED <<sets, images>>
           /\ \A q \in Runs \ {r} : \A g \in Flavours : found'[q][g] = found[q][g]
<1>1. /\ UNCHANGED <<singles, sets, images, build, promote, setKey>>
      /\ promote[r] = "collect"
      /\ found' = [found EXCEPT ![r][f] = singles[f]]
  BY DEF CollectRelease, bucket, outside, buildPc
<1>2. /\ singles[f] \in Manifest \cup {Nil}
      /\ found \in [Runs -> [Flavours -> Manifest \cup {Nil}]]
  BY DEF TypeInv, TypeOK
<1>3. Collected(r)
  BY DEF Sequence, OfRun
<1>4. ASSUME NEW g \in Flavours, found'[r][g] # Nil
      PROVE  Told(found'[r][g], singles'[g])
  <2>1. CASE g = f
    <3>1. found'[r][f] = singles[f]
      BY <1>1, <1>2
    <3> QED
      BY <1>1, <1>2, <1>4, <2>1, <3>1 DEF Told
  <2>2. CASE g # f
    <3>1. found'[r][g] = found[r][g]
      BY <1>1, <1>2, <2>2
    <3> QED
      BY <1>1, <1>3, <1>4, <3>1 DEF Collected
  <2> QED
    BY <2>1, <2>2
<1>5. \A q \in Runs \ {r} : \A g \in Flavours : found'[q][g] = found[q][g]
  BY <1>1, <1>2
<1>6. setKey[r] = Nil /\ \A g \in Flavours : build[r][g] = "done"
  BY <1>1, <1>3 DEF Collected
<1> QED
  BY <1>1, <1>4, <1>5, <1>6 DEF Collected

LEMMA PromoteSetCollects ==
    ASSUME TypeInv, Progress, Sequence, NEW r \in Runs, PromoteSet(r)
    PROVE  /\ Collected(r)' /\ \A k \in SetKeys : SetKept(k)
           /\ \A q \in Runs \ {r} : \A g \in Flavours : found'[q][g] = found[q][g]
<1>1. /\ UNCHANGED <<singles, images, build, targets>> /\ promote[r] = "collect"
      /\ found' = [found EXCEPT ![r] = [f \in Flavours |-> Nil]]
  BY DEF PromoteSet, outside, buildPc, given
<1>2. Collected(r) /\ \A f \in Flavours : Fresh(r, f)
  BY DEF Sequence, OfRun
<1>3. PromoteMoves(r)
  BY PromoteSetMoves
<1>4. /\ \A f \in Flavours : found'[r][f] = Nil
      /\ \A q \in Runs \ {r} : \A g \in Flavours : found'[q][g] = found[q][g]
  BY <1>1 DEF TypeInv, TypeOK
<1>5. setKey[r] = Nil /\ \A f \in Flavours : build[r][f] = "done"
  BY <1>1, <1>2 DEF Collected
<1>6. CASE promote'[r] = "failed" /\ UNCHANGED <<sets, setKey>>
  <2>1. Collected(r)'
    BY <1>1, <1>4, <1>5, <1>6 DEF Collected
  <2> QED
    BY <1>1, <1>4, <1>6, <2>1, Unchanged
<1>7. ASSUME NEW key \in SetKeys, promote'[r] = "release",
             \A f \in Flavours : found[r][f] # Nil,
             sets' = [sets EXCEPT ![key] = [manifests |-> found[r], logs |-> {}]],
             setKey'[r] = key
      PROVE  Collected(r)' /\ \A k \in SetKeys : SetKept(k)
  <2>1. "manifest" \in targets[r]
    BY <1>1 DEF Progress
  <2>2. ASSUME NEW f \in Flavours
        PROVE  /\ singles[f] \in Manifest /\ found[r][f] \in Manifest
               /\ found[r][f].pub = singles[f].pub
               /\ "publish" \in targets[r] /\ f \notin Unpublishable =>
                      Named(f, singles[f].pub)
    <3>1. singles[f] \in Manifest /\ found[r][f].pub = singles[f].pub
      BY <1>2, <1>7 DEF Collected, Told
    <3>2. found[r][f] \in Manifest
      BY <1>7 DEF TypeInv, TypeOK
    <3>3. "publish" \in targets[r] /\ f \notin Unpublishable => Named(f, singles[f].pub)
      BY <1>2, <1>5, NoDocumentIsNil DEF Fresh, FreshBuild, Sequence, Published
    <3> QED
      BY <3>1, <3>2, <3>3
  <2>3. /\ sets'[key] = [manifests |-> found[r], logs |-> {}]
        /\ \A k \in SetKeys \ {key} : sets'[k] = sets[k]
    BY <1>7 DEF TypeInv, TypeOK
  <2>4. sets'[key] \in ManifestSet
    BY <2>3 DEF ManifestSet, TypeInv, TypeOK
  <2>5. /\ sets'[key].manifests = found[r]
        /\ \A k \in SetKeys : SetKept(k)
    <3>1. sets'[key].manifests = found[r]
      BY <2>3
    <3>2. SetKept(key)
      BY <2>2, <2>4, <3>1 DEF SetKept
    <3>3. \A k \in SetKeys \ {key} : SetKept(k)
      BY <1>1, <2>3, Unchanged
    <3> QED
      BY <3>1, <3>2, <3>3
  <2>6. Collected(r)'
    <3>1. setKey'[r] = key /\ UNCHANGED <<singles, images, targets, build>>
      BY <1>1, <1>7
    <3>2. "publish" \in targets[r] => \A f \in Flavours \ Unpublishable :
              Named(f, sets[setKey[r]].manifests[f].pub)'
      BY <2>2, <2>5, <3>1 DEF Named
    <3>3. /\ sets'[setKey'[r]] \in ManifestSet /\ promote'[r] = "release"
          /\ \A f \in Flavours : singles'[f] \in Manifest
      BY <1>7, <2>2, <2>4, <3>1
    <3> QED
      BY <1>4, <1>5, <2>1, <3>1, <3>2, <3>3 DEF Collected
  <2> QED
    BY <2>5, <2>6
<1>8. kind[r] \in Kind /\ clock \in Time /\ promote \in [Runs -> PromoteStep]
      /\ setKey \in [Runs -> SetKeys \cup {Nil}]
  BY DEF TypeInv, TypeOK
<1>9. SetKeyOf(kind[r], clock) \in SetKeys
  BY <1>8, KeysInRange
<1> QED
  BY <1>4, <1>6, <1>7, <1>8, <1>9 DEF PromoteSet, UploadReleaseManifestSet, GoPromote

LEMMA PromoteEndsCollected ==
    ASSUME TypeInv, Sequence, NEW r \in Runs, ReleaseStep(r) \/ PromoteFails(r)
    PROVE  /\ Collected(r)' /\ UNCHANGED <<sets, images>>
           /\ \A q \in Runs \ {r} : \A g \in Flavours : found'[q][g] = found[q][g]
<1>1. /\ UNCHANGED <<singles, images, build, targets, sets>>
      /\ promote[r] \notin Idle /\ promote'[r] \in {"done", "failed"}
      /\ setKey'[r] \in {Nil, setKey[r]}
      /\ found' \in {found, [found EXCEPT ![r] = [f \in Flavours |-> Nil]]}
      /\ found' = [found EXCEPT ![r] = [f \in Flavours |-> Nil]] \/ promote[r] # "collect"
  BY DEF ReleaseStep, PromoteFails, GoPromote, bucket, outside, buildPc, given, Idle,
     TypeInv, TypeOK
<1>2. Collected(r) /\ found \in [Runs -> [Flavours -> Manifest \cup {Nil}]]
  BY DEF Sequence, OfRun, TypeInv, TypeOK
<1>3. \A f \in Flavours : found'[r][f] = Nil
  BY <1>1, <1>2 DEF Collected
<1>4. \A q \in Runs \ {r} : \A g \in Flavours : found'[q][g] = found[q][g]
  BY <1>1, <1>2
<1> QED
  BY <1>1, <1>2, <1>3, <1>4 DEF Collected, Named, Idle

LEMMA PromoteKeepsSequence ==
    ASSUME TypeInv, Progress, Sequence, NEW r \in Runs, PromoteTask(r)
    PROVE  Sequence'
<1>1. PromoteMoves(r)
  BY BuildComponentDescriptorMoves, CollectReleaseMoves, PromoteSetMoves, ReleaseStepMoves,
     PromoteFailsMoves DEF PromoteTask
<1>2. /\ Collected(r)' /\ \A k \in SetKeys : SetKept(k)
      /\ \A q \in Runs \ {r} : \A f \in Flavours : found'[q][f] = found[q][f]
  BY Unchanged, BuildComponentDescriptorCollects, CollectReleaseCollects, PromoteSetCollects,
     PromoteEndsCollected DEF PromoteTask
<1> QED
  BY <1>1, <1>2, PromotesKeepSequence

(* The task under finally.                                                   *)

Notifies(r) ==
    /\ \A f \in Flavours :
          \/ singles'[f] = singles[f]
          \/ /\ singles[f] \in Manifest /\ singles'[f] \in Manifest
             /\ singles'[f].pub = singles[f].pub /\ singles'[f].test = singles[f].test
    /\ \A k \in SetKeys : sets[k] # Nil =>
          sets'[k] \in ManifestSet /\ sets'[k].manifests = sets[k].manifests
    /\ \A f \in Flavours : FreshLog(r, f)'
    /\ Attached(r)'

LEMMA NotifiesKeepSequence ==
    ASSUME TypeInv, Sequence, NEW r \in Runs, r \in InFlight, NotifyMoves(r), Notifies(r)
    PROVE  Sequence'
<1>1. /\ UNCHANGED <<images, targets, build, test, promote, found, setKey>>
      /\ promote[r] \in Idle
      /\ \A f \in Flavours : build[r][f] \in Idle /\ test[r][f] \in Idle
  BY DEF NotifyMoves, outside, given, buildPc, promotePc
<1>2. \A q \in Runs \ {r} : Bystander(q)
  BY <1>1 DEF NotifyMoves, Bystander
<1>3. (\A f \in Flavours : Kept(f)) /\ (\A k \in SetKeys : SetKept(k))
  BY <1>1, NoDocumentIsNil
     DEF Notifies, Kept, SetKept, TypeInv, TypeOK, Sequence, Published, Named
<1>4. ASSUME NEW f \in Flavours
      PROVE  Fresh(r, f)'
  <2>1. Fresh(r, f) /\ singles[f] \in Manifest \cup {Nil}
    BY DEF Sequence, OfRun, TypeInv, TypeOK
  <2>2. FreshBuild(r, f)'
    BY <1>1, <2>1 DEF Notifies, Fresh, FreshBuild, Idle
  <2>3. FreshTest(r, f)'
    BY <1>1 DEF FreshTest, Idle
  <2> QED
    BY <2>2, <2>3 DEF Fresh, Notifies
<1>5. Collected(r)'
  <2>1. Collected(r) /\ \A f \in Flavours : found[r][f] = Nil
    BY <1>1 DEF Sequence, OfRun, Collected, Idle
  <2>2. ASSUME setKey[r] # Nil
        PROVE  /\ sets'[setKey[r]] \in ManifestSet
               /\ sets'[setKey[r]].manifests = sets[setKey[r]].manifests
               /\ \A f \in Flavours : singles'[f] \in Manifest
    <3>1. setKey[r] \in SetKeys /\ sets[setKey[r]] # Nil
      BY <2>1, <2>2, NoDocumentIsNil DEF Collected, TypeInv, TypeOK
    <3> QED
      BY <2>1, <2>2, <3>1 DEF Notifies, Collected
  <2> QED
    BY <1>1, <2>1, <2>2 DEF Collected, Named
<1> QED
  BY <1>1, <1>2, <1>3, <1>4, <1>5, StepOfRun DEF OfRun, Notifies

LEMMA UploadLogsNotifies ==
    ASSUME TypeInv, Sequence, NEW r \in Runs, UploadLogs(r)
    PROVE  r \in InFlight /\ Notifies(r)
<1>1. /\ phase[r] = "tasks" /\ attaching[r] = Nil
  BY NotifyIsAlone DEF UploadLogs, Settled
<1>2. /\ UNCHANGED <<singles, sets, result, attaching>>
      /\ \/ phase'[r] = "done"
         \/ phase'[r] = "attach_singles" /\ todo'[r] = BuildResults(r)
  BY DEF UploadLogs, GoPhase, buildPc, TypeInv, TypeOK
<1>3. \A f \in Flavours : FreshLog(r, f)'
  BY <1>1, <1>2, ConstantsAssumption DEF FreshLog
<1>4. Attached(r)'
  BY <1>2 DEF Attached, BuildResults
<1> QED
  BY <1>1, <1>2, <1>3, <1>4 DEF Notifies, InFlight, TypeInv, TypeOK

LEMMA AttachReadNotifies ==
    ASSUME TypeInv, Sequence, NEW r \in Runs, NEW f \in Flavours, AttachRead(r, f)
    PROVE  r \in InFlight /\ Notifies(r)
<1>1. /\ UNCHANGED <<singles, sets, result, phase, todo, logKey>>
      /\ phase[r] = "attach_singles" /\ f \in todo[r] /\ singles[f] # Nil
      /\ attaching' = [attaching EXCEPT ![r] = f]
      /\ held' = [held EXCEPT ![r][f] = [singles[f] EXCEPT !.log = logKey[r]]]
  BY DEF AttachRead, WithLogfile, bucket, buildPc
<1>2. /\ singles \in [Flavours -> Manifest \cup {Nil}]
      /\ held \in [Runs -> [Flavours -> Manifest \cup {Nil}]]
      /\ attaching \in [Runs -> Flavours \cup {Nil}]
      /\ sets \in [SetKeys -> ManifestSet \cup {Nil}]
  BY DEF TypeInv, TypeOK
<1>3. /\ attaching'[r] = f /\ held'[r][f] = [singles[f] EXCEPT !.log = logKey[r]]
      /\ singles[f] \in Manifest
  BY <1>1, <1>2
<1>4. ASSUME NEW g \in Flavours
      PROVE  FreshLog(r, g)'
  BY <1>1, <1>2, <1>3 DEF FreshLog
<1>5. Attached(r)'
  BY <1>1 DEF Sequence, OfRun, Attached
<1> QED
  BY <1>1, <1>2, <1>4, <1>5 DEF Notifies, InFlight

LEMMA AttachWriteNotifies ==
    ASSUME TypeInv, Sequence, NEW r \in Runs, NEW f \in Flavours, AttachWrite(r, f)
    PROVE  r \in InFlight /\ Notifies(r)
<1>1. /\ UNCHANGED <<sets, result, phase, logKey>>
      /\ phase[r] = "attach_singles" /\ attaching[r] = f
      /\ attaching' = [attaching EXCEPT ![r] = Nil]
      /\ singles' = [singles EXCEPT ![f] = held[r][f]]
      /\ todo' = [todo EXCEPT ![r] = @ \ {f}]
  BY DEF AttachWrite, UploadReleaseManifest, buildPc
<1>2. /\ singles \in [Flavours -> Manifest \cup {Nil}] /\ held[r][f] \in Manifest
      /\ attaching \in [Runs -> Flavours \cup {Nil}]
      /\ todo \in [Runs -> SUBSET Flavours]
      /\ sets \in [SetKeys -> ManifestSet \cup {Nil}]
  BY <1>1 DEF TypeInv, TypeOK, Holding
<1>3. /\ singles[f] \in Manifest /\ held[r][f] = [singles[f] EXCEPT !.log = logKey[r]]
  BY <1>1 DEF Sequence, OfRun, Fresh, FreshLog
<1>4. /\ held[r][f].pub = singles[f].pub /\ held[r][f].test = singles[f].test
      /\ held[r][f].log = logKey[r]
  BY <1>2, <1>3 DEF Manifest
<1>5. /\ singles'[f] = held[r][f] /\ attaching'[r] = Nil /\ todo'[r] = todo[r] \ {f}
      /\ \A g \in Flavours \ {f} : singles'[g] = singles[g]
  BY <1>1, <1>2
<1>6. \A g \in Flavours : FreshLog(r, g)'
  BY <1>5, ConstantsAssumption DEF FreshLog
<1>7. Attached(r)'
  <2>1. Attached(r)
    BY DEF Sequence, OfRun
  <2> QED
    BY <1>1, <1>2, <1>4, <1>5, <2>1 DEF Attached
<1> QED
  BY <1>1, <1>2, <1>3, <1>4, <1>5, <1>6, <1>7 DEF Notifies, InFlight

LEMMA FetchSetNotifies ==
    ASSUME TypeInv, Sequence, NEW r \in Runs, FetchSet(r)
    PROVE  r \in InFlight /\ Notifies(r)
<1>1. /\ UNCHANGED <<singles, sets, result, attaching, setKey, logKey>>
      /\ phase[r] = "attach_singles" /\ attaching[r] = Nil /\ todo[r] = {}
      /\ phase'[r] = "done" \/ phase'[r] = "attach_set"
  BY DEF FetchSet, GoPhase, bucket, buildPc, promotePc, TypeInv, TypeOK
<1>2. \A f \in Flavours : FreshLog(r, f)'
  BY <1>1, ConstantsAssumption DEF FreshLog
<1>3. Attached(r)'
  <2>1. CASE phase'[r] = "done"
    BY <2>1 DEF Attached
  <2>2. CASE phase'[r] = "attach_set"
    <3>1. /\ setKey[r] # Nil /\ sets[setKey[r]] # Nil /\ todo'[r] = Flavours
          /\ heldSet' = [heldSet EXCEPT ![r] =
                            [sets[setKey[r]] EXCEPT !.logs = @ \cup {logKey[r]}]]
      BY <2>2 DEF FetchSet, ReleaseManifestSet, GoPhase, TypeInv, TypeOK
    <3>2. /\ sets[setKey[r]] \in ManifestSet
          /\ heldSet \in [Runs -> ManifestSet \cup {Nil}]
      BY <3>1 DEF TypeInv, TypeOK
    <3>3. /\ heldSet'[r].manifests = sets[setKey[r]].manifests
          /\ logKey[r] \in heldSet'[r].logs
      BY <3>1, <3>2 DEF ManifestSet
    <3>4. \A f \in Flavours : result[r][f] => singles[f] \in Manifest /\ singles[f].log = logKey[r]
      BY <1>1 DEF Sequence, OfRun, Attached
    <3> QED
      BY <1>1, <2>2, <3>1, <3>3, <3>4 DEF Attached
  <2> QED
    BY <1>1, <2>1, <2>2
<1> QED
  BY <1>1, <1>2, <1>3 DEF Notifies, InFlight, TypeInv, TypeOK

LEMMA CollectLogNotifies ==
    ASSUME TypeInv, Sequence, NEW r \in Runs, NEW f \in Flavours, CollectLog(r, f)
    PROVE  r \in InFlight /\ Notifies(r)
<1>1. /\ UNCHANGED <<singles, sets, result, phase, attaching, setKey, logKey>>
      /\ phase[r] = "attach_set" /\ attaching[r] = Nil
      /\ todo' = [todo EXCEPT ![r] = @ \ {f}]
  BY DEF CollectLog, bucket, buildPc, promotePc, TypeInv, Scheduling
<1>2. /\ Attached(r) /\ Collected(r)
      /\ todo \in [Runs -> SUBSET Flavours]
      /\ heldSet \in [Runs -> ManifestSet \cup {Nil}] /\ heldSet[r] \in ManifestSet
  BY <1>1 DEF Sequence, OfRun, TypeInv, TypeOK, Holding
<1>3. setKey[r] # Nil /\ singles[f] # Nil /\ todo'[r] = todo[r] \ {f}
  BY <1>1, <1>2, NoDocumentIsNil DEF Attached, Collected
<1>4. /\ heldSet'[r].manifests = heldSet[r].manifests
      /\ heldSet[r].logs \subseteq heldSet'[r].logs
      /\ singles[f].log \in heldSet'[r].logs \cup {Nil}
  <2>1. CASE singles[f].log = Nil
    BY <1>3, <2>1 DEF CollectLog
  <2>2. CASE singles[f].log # Nil
    <3>1. heldSet' = [heldSet EXCEPT ![r].logs = @ \cup {singles[f].log}]
      BY <1>3, <2>2 DEF CollectLog
    <3> QED
      BY <1>2, <3>1 DEF ManifestSet
  <2> QED
    BY <2>1, <2>2
<1>5. \A g \in Flavours : FreshLog(r, g)'
  BY <1>1, ConstantsAssumption DEF FreshLog
<1>6. Attached(r)'
  BY <1>1, <1>2, <1>3, <1>4 DEF Attached
<1> QED
  BY <1>1, <1>5, <1>6 DEF Notifies, InFlight, TypeInv, TypeOK

LEMMA AttachSetNotifies ==
    ASSUME TypeInv, Sequence, NEW r \in Runs, AttachSet(r)
    PROVE  r \in InFlight /\ Notifies(r)
<1>1. /\ UNCHANGED <<singles, attaching>> /\ phase[r] = "attach_set" /\ attaching[r] = Nil
      /\ sets' = [sets EXCEPT ![setKey[r]] = heldSet[r]]
      /\ phase'[r] = "done"
  BY DEF AttachSet, UploadReleaseManifestSet, GoPhase, TypeInv, TypeOK, Scheduling
<1>2. /\ heldSet[r] \in ManifestSet /\ setKey[r] \in SetKeys
      /\ heldSet[r].manifests = sets[setKey[r]].manifests
      /\ sets \in [SetKeys -> ManifestSet \cup {Nil}]
  BY <1>1 DEF TypeInv, TypeOK, Holding, Sequence, OfRun, Attached
<1>3. \A k \in SetKeys : sets[k] # Nil =>
          sets'[k] \in ManifestSet /\ sets'[k].manifests = sets[k].manifests
  BY <1>1, <1>2
<1>4. \A f \in Flavours : FreshLog(r, f)'
  BY <1>1, ConstantsAssumption DEF FreshLog
<1>5. Attached(r)'
  BY <1>1 DEF Attached
<1> QED
  BY <1>1, <1>3, <1>4, <1>5 DEF Notifies, InFlight

LEMMA NotifyFailsNotifies ==
    ASSUME TypeInv, Sequence, NEW r \in Runs, NotifyFails(r)
    PROVE  r \in InFlight /\ Notifies(r)
<1>1. /\ UNCHANGED <<singles, sets>> /\ r \in InFlight
      /\ attaching'[r] = Nil /\ phase'[r] = "failed"
  BY DEF NotifyFails, GoPhase, Settled, InFlight, bucket, TypeInv, TypeOK
<1>2. \A f \in Flavours : FreshLog(r, f)'
  BY <1>1, ConstantsAssumption DEF FreshLog
<1>3. Attached(r)'
  BY <1>1 DEF Attached
<1> QED
  BY <1>1, <1>2, <1>3 DEF Notifies, TypeInv, TypeOK

LEMMA NotifyKeepsSequence ==
    ASSUME TypeInv, Sequence, NEW r \in Runs, NotifyTask(r)
    PROVE  Sequence'
<1>1. NotifyMoves(r)
  BY UploadLogsMoves, AttachReadMoves, AttachWriteMoves, FetchSetMoves, CollectLogMoves,
     AttachSetMoves, NotifyFailsMoves DEF NotifyTask
<1>2. r \in InFlight /\ Notifies(r)
  BY UploadLogsNotifies, AttachReadNotifies, AttachWriteNotifies, FetchSetNotifies,
     CollectLogNotifies, AttachSetNotifies, NotifyFailsNotifies DEF NotifyTask
<1> QED
  BY <1>1, <1>2, NotifiesKeepSequence

(* Runs come and go.                                                         *)

LEMMA StartKeepsSequence ==
    ASSUME MaxActive = 1, TypeInv, Progress, Sequence, NEW r \in Runs, StartRun(r)
    PROVE  Sequence'
<1>1. InFlight = {}
  <2>1. IsFiniteSet(InFlight)
    BY ConstantsAssumption, FS_Subset DEF InFlight
  <2>2. Cardinality(InFlight) = 0
    BY <2>1, FS_CardinalityType DEF StartRun
  <2> QED
    BY <2>1, <2>2, FS_EmptySet
<1>2. /\ UNCHANGED <<singles, sets, images, build, test, held, promote, found, setKey,
                      attaching, result, todo, logKey, heldSet>>
      /\ phase[r] = "idle" /\ phase'[r] = "tasks"
      /\ \A q \in Runs \ {r} : phase'[q] = phase[q] /\ targets'[q] = targets[q]
  BY DEF StartRun, bucket, outside, buildPc, promotePc, notifyPc, TypeInv, TypeOK
<1>3. Alone'
  BY <1>1, <1>2 DEF Alone, InFlight
<1>4. ASSUME NEW q \in Runs \ {r}
      PROVE  OfRun(q)'
  <2>1. Bystander(q) /\ q \notin InFlight
    BY <1>1, <1>2 DEF Bystander
  <2>2. (\A f \in Flavours : Kept(f)) /\ (\A k \in SetKeys : SetKept(k))
    BY <1>2, Unchanged
  <2> QED
    BY <1>2, <2>1, <2>2, BystandersStay
<1>5. OfRun(r)'
  <2>1. /\ promote[r] = "pending" /\ attaching[r] = Nil
        /\ \A f \in Flavours : build[r][f] = "pending" /\ test[r][f] = "pending"
    BY <1>2 DEF Progress, TypeInv, Scheduling
  <2>2. OfRun(r)
    BY DEF Sequence
  <2>3. ASSUME NEW f \in Flavours
        PROVE  Fresh(r, f)'
    <3>1. FreshBuild(r, f)'
      BY <1>2, <2>1, <2>2 DEF OfRun, Fresh, FreshBuild
    <3>2. FreshTest(r, f)' /\ FreshLog(r, f)'
      BY <1>2, <2>1, ConstantsAssumption DEF FreshTest, FreshLog
    <3> QED
      BY <3>1, <3>2 DEF Fresh
  <2>4. Collected(r)' /\ Attached(r)'
    BY <1>2, <2>1, <2>2 DEF OfRun, Collected, Attached
  <2> QED
    BY <2>3, <2>4 DEF OfRun
<1>6. \A f \in Flavours : Published(f)'
  BY <1>2 DEF Sequence, Published, Named
<1> QED
  BY <1>3, <1>4, <1>5, <1>6 DEF Sequence

LEMMA InitSequence == Init => Sequence
<1> SUFFICES ASSUME Init
             PROVE  Sequence
  OBVIOUS
<1>1. Alone
  BY DEF Init, Alone, InFlight
<1>2. ASSUME NEW r \in Runs, NEW f \in Flavours
      PROVE  Fresh(r, f)
  BY ConstantsAssumption DEF Init, Fresh, FreshBuild, FreshTest, FreshLog
<1>3. ASSUME NEW r \in Runs
      PROVE  Collected(r) /\ Attached(r)
  BY DEF Init, Collected, Attached
<1>4. \A f \in Flavours : Published(f)
  BY DEF Init, Published
<1> QED
  BY <1>1, <1>2, <1>3, <1>4 DEF Sequence, OfRun

LEMMA StillSequence == TypeInv /\ Sequence /\ (Tick \/ UNCHANGED vars) => Sequence'
<1> SUFFICES ASSUME TypeInv, Sequence, Tick \/ UNCHANGED vars
             PROVE  Sequence'
  OBVIOUS
<1>1. UNCHANGED <<bucket, outside, phase, given, buildPc, test, held, promotePc, todo, notifyPc>>
  BY DEF Tick, vars
<1>2. Alone'
  BY <1>1 DEF Sequence, Alone, InFlight
<1>3. ASSUME NEW r \in Runs
      PROVE  OfRun(r)'
  <2>1. OfRun(r)
    BY DEF Sequence
  <2>2. ASSUME NEW f \in Flavours
        PROVE  Fresh(r, f)'
    BY <1>1, <2>1, SameEntries
       DEF OfRun, bucket, outside, given, buildPc, promotePc, notifyPc
  <2>3. Collected(r)' /\ Attached(r)'
    BY <1>1, <2>1
       DEF OfRun, Collected, Attached, Named, bucket, outside, given, buildPc, promotePc,
           notifyPc
  <2> QED
    BY <2>2, <2>3 DEF OfRun
<1>4. \A f \in Flavours : Published(f)'
  BY <1>1 DEF Sequence, Published, Named, bucket, outside
<1> QED
  BY <1>2, <1>3, <1>4 DEF Sequence

LEMMA StepKeepsSequence ==
    MaxActive = 1 /\ TypeInv /\ Progress /\ Sequence /\ [Next]_vars => Sequence'
<1> SUFFICES ASSUME MaxActive = 1, TypeInv, Progress, Sequence, [Next]_vars
             PROVE  Sequence'
  OBVIOUS
<1>1. ASSUME NEW r \in Runs, RunStep(r)
      PROVE  Sequence'
  BY <1>1, BuildKeepsSequence, TestKeepsSequence, PromoteKeepsSequence, NotifyKeepsSequence
     DEF RunStep
<1> QED
  BY <1>1, StartKeepsSequence, StillSequence DEF Next

\* Runs one after the other: what a run in flight has read is still what the bucket holds, and
\* what finished runs have published, promoted and logged is recorded.
THEOREM SequenceHolds ==
    ASSUME MaxActive = 1
    PROVE  Spec => [](TypeInv /\ Progress /\ Sequence)
<1>1. Init => TypeInv /\ Progress /\ Sequence
  BY InitTypes, InitProgress, InitSequence
<1>2. TypeInv /\ Progress /\ Sequence /\ [Next]_vars => (TypeInv /\ Progress /\ Sequence)'
  BY StepKeepsTypes, StepKeepsProgress, StepKeepsSequence
<1> QED
  BY <1>1, <1>2, PTL DEF Spec

\* Runs one after the other: the manifest of a flavour goes on naming the images that the
\* first run to publish it has made, whatever later runs write back.
THEOREM PublishedImagesStayRecorded ==
    ASSUME MaxActive = 1
    PROVE  Spec => []PublishedImagesAreRecorded
<1>1. Sequence => PublishedImagesAreRecorded
  BY DEF Sequence, OfRun, Fresh, FreshBuild, PublishedImagesAreRecorded
<1> QED
  BY <1>1, SequenceHolds, PTL

\* Runs one after the other: in the set a publishing run promoted, also when a later run has
\* replaced it, every flavour of a platform that publish_image knows names images that some
\* run has published, or, on azure alone, provisional metadata.
THEOREM PromotedSetsArePublished ==
    ASSUME MaxActive = 1
    PROVE  Spec => []PromotedSetIsPublished
<1>1. Sequence => PromotedSetIsPublished
  BY DEF Sequence, OfRun, Collected, PromotedSetIsPublished
<1> QED
  BY <1>1, SequenceHolds, PTL

\* Runs one after the other: when the set is amended, the manifest of every flavour the
\* run has built is there and names the archive of this run.
THEOREM BuiltManifestsStayLogged ==
    ASSUME MaxActive = 1
    PROVE  Spec => []BuiltManifestsAreLogged
<1>1. Sequence => BuiltManifestsAreLogged
  BY DEF Sequence, OfRun, Attached, BuiltManifestsAreLogged
<1> QED
  BY <1>1, SequenceHolds, PTL

(* The step by which a run with a manifest set ends well.                    *)

LEMMA EndsByAttachSet ==
    ASSUME TypeInv, Sequence, [Next]_vars, NEW r \in Runs,
           setKey[r] # Nil, phase[r] # "done", phase'[r] = "done"
    PROVE  AttachSet(r)
<1>1. /\ "manifest" \in targets[r] /\ sets[setKey[r]] \in ManifestSet
      /\ phase \in [Runs -> Phase]
  BY DEF Sequence, OfRun, Collected, TypeInv, TypeOK
<1>2. CASE NotifyTask(r)
  BY <1>1, <1>2, NoDocumentIsNil
     DEF NotifyTask, UploadLogs, AttachRead, AttachWrite, FetchSet, ReleaseManifestSet,
         CollectLog, NotifyFails, GoPhase
<1>3. ASSUME NEW q \in Runs \ {r}, NotifyTask(q)
      PROVE  FALSE
  <2>1. NotifyMoves(q)
    BY <1>3, UploadLogsMoves, AttachReadMoves, AttachWriteMoves, FetchSetMoves,
       CollectLogMoves, AttachSetMoves, NotifyFailsMoves DEF NotifyTask
  <2> QED
    BY <2>1 DEF NotifyMoves
<1>4. ASSUME NEW q \in Runs, StartRun(q)
      PROVE  FALSE
  BY <1>1, <1>4 DEF StartRun
<1>5. ASSUME NEW q \in Runs, NEW f \in Flavours, BuildTask(q, f) \/ TestTask(q, f)
      PROVE  FALSE
  BY <1>5 DEF BuildTask, PreBuild, BuildImage, UploadObjects, PublishOci, UploadManifest,
     PromoteSingle, PublishImage, PublishFails, PersistSingle, BuildFails, TestTask,
     PreCheckTests, RunTests, UploadTestResult, TestFails
<1>6. ASSUME NEW q \in Runs, PromoteTask(q)
      PROVE  FALSE
  BY <1>6 DEF PromoteTask, BuildComponentDescriptor, CollectRelease, PromoteSet,
     ReleaseStep, PromoteFails
<1>7. ~Tick /\ ~UNCHANGED vars
  BY DEF Tick, vars
<1> QED
  BY <1>2, <1>3, <1>4, <1>5, <1>6, <1>7 DEF Next, RunStep

\* Runs one after the other: a run that ends well with a manifest set leaves in it its own
\* log archive and that of every flavour's manifest.
THEOREM LogsAreAttached ==
    ASSUME MaxActive = 1
    PROVE  Spec => AttachedLogsAreComplete
<1> DEFINE Complete(r) ==
        /\ logKey[r] \in sets'[setKey[r]].logs
        /\ \A f \in Flavours : singles[f].log \in sets'[setKey[r]].logs \cup {Nil}
<1>1. ASSUME TypeInv, Sequence, [Next]_vars, NEW r \in Runs,
             setKey[r] # Nil, phase[r] # "done", phase'[r] = "done"
      PROVE  Complete(r)
  <2>1. AttachSet(r)
    BY <1>1, EndsByAttachSet
  <2>2. /\ phase[r] = "attach_set" /\ todo[r] = {}
        /\ sets' = [sets EXCEPT ![setKey[r]] = heldSet[r]]
    BY <2>1 DEF AttachSet, UploadReleaseManifestSet
  <2>3. setKey[r] \in SetKeys /\ sets \in [SetKeys -> ManifestSet \cup {Nil}]
    BY <1>1, <2>2 DEF TypeInv, TypeOK, Holding
  <2>4. sets'[setKey[r]] = heldSet[r]
    BY <2>2, <2>3
  <2> QED
    BY <1>1, <2>2, <2>4 DEF Sequence, OfRun, Attached
<1>2. TypeInv /\ Sequence /\ [Next]_vars =>
          [\A r \in Runs : setKey[r] # Nil /\ phase[r] # "done" /\ phase'[r] = "done" =>
              Complete(r)]_vars
  BY <1>1
<1> QED
  BY <1>2, SequenceHolds, PTL DEF Spec, AttachedLogsAreComplete

-----------------------------------------------------------------------------
(* The bucket is the catalogue: every request is one of its steps, or none.  *)

Entry == [f \in Flavours |-> FactsOf(singles[f])]

Claims(s) == IF s = Nil THEN Nil ELSE [f \in Flavours |-> FactsOf(s.manifests[f])]
Promoted == [k \in SetKeys |-> Claims(sets[k])]

LEMMA FactsOfManifest ==
    ASSUME NEW m \in Manifest
    PROVE  /\ "built" \in FactsOf(m) /\ FactsOf(m) \subseteq Catalogue!Facts
           /\ "published" \in FactsOf(m) <=> m.pub # Nil
           /\ "tested" \in FactsOf(m) <=> m.test = "OK"
           /\ "logged" \in FactsOf(m) <=> m.log # Nil
<1>1. m # Nil
  BY NoDocumentIsNil
<1> QED
  BY <1>1 DEF FactsOf, Catalogue!Facts

LEMMA SameFacts ==
    ASSUME NEW m \in Manifest, NEW n \in Manifest,
           m.pub # Nil <=> n.pub # Nil, m.test = "OK" <=> n.test = "OK",
           m.log # Nil <=> n.log # Nil
    PROVE  FactsOf(m) = FactsOf(n)
<1>1. m # Nil /\ n # Nil
  BY NoDocumentIsNil
<1> QED
  BY <1>1 DEF FactsOf

LEMMA OneFactMore ==
    ASSUME NEW m \in Manifest, NEW n \in Manifest
    PROVE  /\ n.pub # Nil /\ n.test = m.test /\ n.log = m.log =>
                  FactsOf(n) = FactsOf(m) \cup {"published"}
           /\ n.pub = m.pub /\ n.test = "OK" /\ n.log = m.log =>
                  FactsOf(n) = FactsOf(m) \cup {"tested"}
           /\ n.pub = m.pub /\ n.test = m.test /\ n.log # Nil =>
                  FactsOf(n) = FactsOf(m) \cup {"logged"}
<1>1. /\ FactsOf(m) \subseteq Catalogue!Facts /\ FactsOf(n) \subseteq Catalogue!Facts
      /\ "built" \in FactsOf(m) /\ "built" \in FactsOf(n)
      /\ "published" \in FactsOf(m) <=> m.pub # Nil
      /\ "tested" \in FactsOf(m) <=> m.test = "OK"
      /\ "logged" \in FactsOf(m) <=> m.log # Nil
      /\ "published" \in FactsOf(n) <=> n.pub # Nil
      /\ "tested" \in FactsOf(n) <=> n.test = "OK"
      /\ "logged" \in FactsOf(n) <=> n.log # Nil
  BY FactsOfManifest
<1> QED
  BY <1>1 DEF Catalogue!Facts

LEMMA NothingNew ==
    ASSUME \A f \in Flavours : FactsOf(singles'[f]) = FactsOf(singles[f]),
           \A k \in SetKeys : Claims(sets'[k]) = Claims(sets[k])
    PROVE  UNCHANGED Catalogue!vars
<1>1. Entry' = Entry /\ Promoted' = Promoted
  BY DEF Entry, Promoted
<1> QED
  BY <1>1 DEF Catalogue!vars, Entry, Promoted, Claims

LEMMA IsBuild ==
    ASSUME NEW f \in Flavours, NEW m \in Manifest, singles[f] = Nil,
           m.test # "OK", m.log = Nil,
           singles' = [singles EXCEPT ![f] = m],
           singles \in [Flavours -> Manifest \cup {Nil}], UNCHANGED sets
    PROVE  Catalogue!Build(f)
<1>1. FactsOf(singles[f]) = {}
  BY DEF FactsOf
<1>2. FactsOf(m) \in {{"built"}, {"built", "published"}}
  BY NoDocumentIsNil DEF FactsOf
<1>3. Entry' = [Entry EXCEPT ![f] = FactsOf(m)] /\ Entry[f] = {}
  BY <1>1 DEF Entry
<1>4. Promoted' = Promoted
  BY DEF Promoted
<1> QED
  BY <1>2, <1>3, <1>4 DEF Catalogue!Build, Entry, Promoted, Claims

LEMMA IsLearn ==
    ASSUME NEW f \in Flavours, NEW m \in Manifest, NEW fact \in Catalogue!Facts,
           singles[f] \in Manifest, FactsOf(m) = FactsOf(singles[f]) \cup {fact},
           singles' = [singles EXCEPT ![f] = m],
           singles \in [Flavours -> Manifest \cup {Nil}], UNCHANGED sets
    PROVE  Catalogue!Learn(f, fact)
<1>1. "built" \in FactsOf(singles[f])
  BY FactsOfManifest
<1>2. Entry' = [Entry EXCEPT ![f] = @ \cup {fact}] /\ "built" \in Entry[f]
  BY <1>1 DEF Entry
<1>3. Promoted' = Promoted
  BY DEF Promoted
<1> QED
  BY <1>2, <1>3 DEF Catalogue!Learn, Entry, Promoted, Claims

LEMMA IsPromote ==
    ASSUME NEW k \in SetKeys, NEW s \in ManifestSet,
           \A f \in Flavours : s.manifests[f] \in Manifest /\ Told(s.manifests[f], singles[f]),
           sets' = [sets EXCEPT ![k] = s],
           sets \in [SetKeys -> ManifestSet \cup {Nil}], UNCHANGED singles
    PROVE  Catalogue!Promote(k)
<1> DEFINE claim == [f \in Flavours |-> FactsOf(s.manifests[f])]
<1>1. ASSUME NEW f \in Flavours
      PROVE  /\ "built" \in FactsOf(singles[f]) /\ "built" \in claim[f]
             /\ claim[f] \subseteq FactsOf(singles[f])
             /\ claim[f] \subseteq Catalogue!Facts
  <2>1. s.manifests[f] # Nil /\ singles[f] # Nil
    BY NoDocumentIsNil DEF Told
  <2>2. FactsOf(s.manifests[f]) \subseteq FactsOf(singles[f])
    BY <2>1 DEF FactsOf, Told
  <2> QED
    BY <2>2, FactsOfManifest DEF Told
<1>2. claim \in [Flavours -> SUBSET Catalogue!Facts]
  BY <1>1
<1>3. Claims(s) = claim
  BY NoDocumentIsNil DEF Claims
<1>4. Promoted' = [Promoted EXCEPT ![k] = claim]
  BY <1>3 DEF Promoted
<1>5. Entry' = Entry /\ \A f \in Flavours : Entry[f] = FactsOf(singles[f])
  BY DEF Entry
<1> HIDE DEF claim
<1> QED
  BY <1>1, <1>2, <1>4, <1>5 DEF Catalogue!Promote, Entry, Promoted, Claims

LEMMA NothingWritten ==
    ASSUME UNCHANGED <<singles, sets>>
    PROVE  [Catalogue!Next]_(Catalogue!vars)
<1>1. UNCHANGED Catalogue!vars
  BY NothingNew
<1> QED
  BY <1>1

LEMMA BuildRefines ==
    ASSUME TypeInv, Sequence, NEW r \in Runs, NEW f \in Flavours, BuildTask(r, f)
    PROVE  [Catalogue!Next]_(Catalogue!vars)
<1>1. /\ singles \in [Flavours -> Manifest \cup {Nil}] /\ FreshBuild(r, f)
      /\ clock \in Time
  BY DEF TypeInv, TypeOK, Sequence, OfRun, Fresh
<1>2. CASE UploadManifest(r, f)
  <2>1. /\ singles[f] = Nil /\ output[r][f] \in Contents /\ UNCHANGED sets
        /\ singles' = [singles EXCEPT ![f] = FreshManifest(r, f)]
    BY <1>1, <1>2 DEF UploadManifest, UploadReleaseManifest, FreshBuild, TypeInv, Holding
  <2>2. /\ FreshManifest(r, f) \in Manifest
        /\ FreshManifest(r, f).test # "OK" /\ FreshManifest(r, f).log = Nil
    BY <1>1, <2>1, FreshManifestType, ConstantsAssumption DEF FreshManifest
  <2>3. Catalogue!Build(f)
    BY <1>1, <2>1, <2>2, IsBuild
  <2> QED
    BY <2>3 DEF Catalogue!Next
<1>3. CASE PersistSingle(r, f)
  <2>1. /\ singles' = [singles EXCEPT ![f] = held[r][f]] /\ UNCHANGED sets
        /\ singles[f] \in Manifest /\ held[r][f] \in Manifest
    BY <1>1, <1>3 DEF PersistSingle, UploadReleaseManifest, FreshBuild, TypeInv, Holding
  <2>2. ASSUME NEW p \in {r, "provisional"}, held[r][f] = [singles[f] EXCEPT !.pub = p]
        PROVE  [Catalogue!Next]_(Catalogue!vars)
    <3>1. /\ held[r][f].pub # Nil /\ held[r][f].test = singles[f].test
          /\ held[r][f].log = singles[f].log
      BY <2>1, <2>2, ConstantsAssumption DEF Manifest
    <3>2. FactsOf(held[r][f]) = FactsOf(singles[f]) \cup {"published"}
      BY <2>1, <3>1, OneFactMore
    <3>3. "published" \in Catalogue!Facts
      BY DEF Catalogue!Facts
    <3>4. Catalogue!Learn(f, "published")
      BY <1>1, <2>1, <3>2, <3>3, IsLearn
    <3> QED
      BY <3>3, <3>4 DEF Catalogue!Next
  <2>3. CASE held[r][f] = singles[f]
    BY <1>1, <2>1, <2>3, NothingWritten
  <2> QED
    BY <1>1, <1>3, <2>2, <2>3 DEF FreshBuild, PersistSingle
<1>4. CASE UNCHANGED <<singles, sets>>
  BY <1>4, NothingWritten
<1> QED
  BY <1>2, <1>3, <1>4 DEF BuildTask, PreBuild, BuildImage, UploadObjects, PublishOci,
     PromoteSingle, PublishImage, PublishFails, BuildFails, bucket

LEMMA TestRefines ==
    ASSUME TypeInv, Sequence, NEW r \in Runs, NEW f \in Flavours, TestTask(r, f)
    PROVE  [Catalogue!Next]_(Catalogue!vars)
<1>1. CASE UploadTestResult(r, f)
  <2>1. /\ singles \in [Flavours -> Manifest \cup {Nil}] /\ FreshTest(r, f)
    BY DEF TypeInv, TypeOK, Sequence, OfRun, Fresh
  <2>2. /\ singles' = [singles EXCEPT ![f] = held[r][f]] /\ UNCHANGED sets
        /\ singles[f] \in Manifest /\ singles[f].test # "OK" /\ held[r][f] \in Manifest
        /\ \E t \in {"OK", "FAILED"} : held[r][f] = [singles[f] EXCEPT !.test = t]
    BY <1>1, <2>1, NoDocumentIsNil
       DEF UploadTestResult, UploadReleaseManifest, FreshTest, TypeInv, Holding
  <2>3. /\ held[r][f].pub = singles[f].pub /\ held[r][f].log = singles[f].log
    <3>1. ASSUME NEW t \in {"OK", "FAILED"}, held[r][f] = [singles[f] EXCEPT !.test = t]
          PROVE  /\ held[r][f].pub = singles[f].pub /\ held[r][f].log = singles[f].log
      BY <2>2, <3>1 DEF Manifest
    <3> QED
      BY <2>2, <3>1
  <2>4. CASE held[r][f].test = "OK"
    <3>1. FactsOf(held[r][f]) = FactsOf(singles[f]) \cup {"tested"}
      BY <2>2, <2>3, <2>4, OneFactMore
    <3>2. "tested" \in Catalogue!Facts
      BY DEF Catalogue!Facts
    <3>3. Catalogue!Learn(f, "tested")
      BY <2>1, <2>2, <3>1, <3>2, IsLearn
    <3> QED
      BY <3>2, <3>3 DEF Catalogue!Next
  <2>5. CASE held[r][f].test # "OK"
    <3>1. FactsOf(held[r][f]) = FactsOf(singles[f])
      BY <2>2, <2>3, <2>5, SameFacts
    <3>2. \A g \in Flavours : FactsOf(singles'[g]) = FactsOf(singles[g])
      BY <2>1, <2>2, <3>1
    <3>3. UNCHANGED Catalogue!vars
      BY <2>2, <3>2, NothingNew
    <3> QED
      BY <3>3
  <2> QED
    BY <2>4, <2>5
<1>2. CASE UNCHANGED <<singles, sets>>
  BY <1>2, NothingWritten
<1> QED
  BY <1>1, <1>2 DEF TestTask, PreCheckTests, RunTests, TestFails, bucket

LEMMA PromoteRefines ==
    ASSUME TypeInv, Sequence, NEW r \in Runs, PromoteTask(r)
    PROVE  [Catalogue!Next]_(Catalogue!vars)
<1>1. CASE PromoteSet(r) /\ \A f \in Flavours : found[r][f] # Nil
  <2> DEFINE key == SetKeyOf(kind[r], clock)
             made == [manifests |-> found[r], logs |-> {}]
  <2>1. /\ sets' = [sets EXCEPT ![key] = made] /\ UNCHANGED singles
    BY <1>1 DEF PromoteSet, UploadReleaseManifestSet
  <2>2. /\ kind[r] \in Kind /\ clock \in Time
        /\ sets \in [SetKeys -> ManifestSet \cup {Nil}]
        /\ found[r] \in [Flavours -> Manifest \cup {Nil}]
    BY DEF TypeInv, TypeOK
  <2>3. key \in SetKeys
    BY <2>2, KeysInRange
  <2>4. made \in ManifestSet /\ made.manifests = found[r]
    BY <2>2 DEF ManifestSet
  <2>5. \A f \in Flavours : found[r][f] \in Manifest /\ Told(found[r][f], singles[f])
    BY <1>1, <2>2 DEF Sequence, OfRun, Collected
  <2>6. \A f \in Flavours : /\ made.manifests[f] \in Manifest
                            /\ Told(made.manifests[f], singles[f])
    BY <2>4, <2>5
  <2> HIDE DEF key, made
  <2>7. ASSUME NEW k \in SetKeys, NEW s \in ManifestSet, sets' = [sets EXCEPT ![k] = s],
               \A f \in Flavours : s.manifests[f] \in Manifest /\ Told(s.manifests[f], singles[f])
        PROVE  [Catalogue!Next]_(Catalogue!vars)
    <3>1. Catalogue!Promote(k)
      BY <2>1, <2>2, <2>7, IsPromote
    <3> QED
      BY <3>1 DEF Catalogue!Next
  <2> QED
    BY <2>1, <2>3, <2>4, <2>6, <2>7
<1>2. CASE UNCHANGED <<singles, sets>>
  BY <1>2, NothingWritten
<1> QED
  BY <1>1, <1>2 DEF PromoteTask, BuildComponentDescriptor, CollectRelease, PromoteSet,
     ReleaseStep, PromoteFails, bucket

LEMMA NotifyRefines ==
    ASSUME TypeInv, Sequence, NEW r \in Runs, NotifyTask(r)
    PROVE  [Catalogue!Next]_(Catalogue!vars)
<1>1. ASSUME NEW f \in Flavours, AttachWrite(r, f)
      PROVE  [Catalogue!Next]_(Catalogue!vars)
  <2>1. /\ singles' = [singles EXCEPT ![f] = held[r][f]] /\ UNCHANGED sets
        /\ singles \in [Flavours -> Manifest \cup {Nil}]
        /\ held[r][f] \in Manifest /\ logKey[r] \in LogObjects
    BY <1>1 DEF AttachWrite, UploadReleaseManifest, TypeInv, TypeOK, Holding
  <2>2. /\ singles[f] \in Manifest /\ held[r][f] = [singles[f] EXCEPT !.log = logKey[r]]
    BY <1>1 DEF AttachWrite, Sequence, OfRun, Fresh, FreshLog
  <2>3. /\ held[r][f].pub = singles[f].pub /\ held[r][f].test = singles[f].test
        /\ held[r][f].log # Nil
    BY <2>1, <2>2, NoDocumentIsNil DEF Manifest
  <2>4. FactsOf(held[r][f]) = FactsOf(singles[f]) \cup {"logged"}
    BY <2>1, <2>2, <2>3, OneFactMore
  <2>5. "logged" \in Catalogue!Facts
    BY DEF Catalogue!Facts
  <2>6. Catalogue!Learn(f, "logged")
    BY <2>1, <2>2, <2>4, <2>5, IsLearn
  <2> QED
    BY <2>5, <2>6 DEF Catalogue!Next
<1>2. CASE AttachSet(r)
  <2>1. /\ UNCHANGED singles /\ sets' = [sets EXCEPT ![setKey[r]] = heldSet[r]]
        /\ setKey[r] # Nil /\ heldSet[r].manifests = sets[setKey[r]].manifests
    BY <1>2 DEF AttachSet, UploadReleaseManifestSet, Sequence, OfRun, Attached
  <2>2. /\ heldSet[r] # Nil /\ sets[setKey[r]] # Nil
        /\ sets \in [SetKeys -> ManifestSet \cup {Nil}]
    BY <1>2, <2>1, NoDocumentIsNil
       DEF AttachSet, Sequence, OfRun, Collected, TypeInv, TypeOK, Holding
  <2>3. \A k \in SetKeys : Claims(sets'[k]) = Claims(sets[k])
    BY <2>1, <2>2 DEF Claims
  <2>4. UNCHANGED Catalogue!vars
    BY <2>1, <2>3, NothingNew
  <2> QED
    BY <2>4
<1>3. CASE UNCHANGED <<singles, sets>>
  BY <1>3, NothingWritten
<1> QED
  BY <1>1, <1>2, <1>3 DEF NotifyTask, UploadLogs, AttachRead, FetchSet, CollectLog,
     NotifyFails, bucket

\* Runs one after the other: the bucket implements the catalogue.  Every step adds one
\* fact to one flavour, promotes a complete release that claims nothing the flavours'
\* own manifests do not, or changes nothing that the catalogue tells.
THEOREM BucketImplementsCatalogue ==
    ASSUME MaxActive = 1
    PROVE  Spec => BucketIsCatalogue
<1>1. Init => Catalogue!Init
  BY DEF Init, Catalogue!Init, FactsOf
<1>2. TypeInv /\ Sequence /\ [Next]_vars => [Catalogue!Next]_(Catalogue!vars)
  <2> SUFFICES ASSUME TypeInv, Sequence, [Next]_vars
               PROVE  [Catalogue!Next]_(Catalogue!vars)
    OBVIOUS
  <2>1. ASSUME NEW r \in Runs, StartRun(r)
        PROVE  [Catalogue!Next]_(Catalogue!vars)
    BY <2>1, NothingWritten DEF StartRun, bucket
  <2>2. ASSUME NEW r \in Runs, RunStep(r)
        PROVE  [Catalogue!Next]_(Catalogue!vars)
    BY <2>2, BuildRefines, TestRefines, PromoteRefines, NotifyRefines DEF RunStep
  <2>3. CASE Tick \/ UNCHANGED vars
    BY <2>3, NothingWritten DEF Tick, vars, bucket
  <2> QED
    BY <2>1, <2>2, <2>3 DEF Next
<1> QED
  BY <1>1, <1>2, SequenceHolds, PTL DEF Spec, BucketIsCatalogue, Catalogue!Spec
=============================================================================

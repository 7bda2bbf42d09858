----------------------- MODULE ReleasePipelineProofs -----------------------
(***************************************************************************)
(* Invariants of the pipeline for any number of runs and flavours, with    *)
(* overlapping runs and failures of every step.  NoDanglingReference and   *)
(* PromotionIsComplete are not inductive: they speak of the bucket, while  *)
(* the next document to reach the bucket is a copy some step holds.        *)
(***************************************************************************)
EXTENDS ReleasePipeline, TLAPS

\* Where a run is: which tasks may be active in which phase.
Scheduling ==
    /\ \A r \in Runs, f \in Flavours :
          /\ build[r][f] # "done" => test[r][f] = "pending"
          /\ phase[r] # "tasks" => build[r][f] \in Idle /\ test[r][f] \in Idle
    /\ \A r \in Runs :
          /\ phase[r] # "tasks" => promote[r] \in Idle
          /\ attaching[r] # Nil => phase[r] = "attach_singles"

\* What a step holds when it is about to use it.
Holding ==
    /\ \A r \in Runs, f \in Flavours :
          /\ build[r][f] \in {"upload_objects", "publish_oci", "upload_manifest"} => output[r][f] \in Contents
          /\ build[r][f] \in {"publish", "persist"} => held[r][f] \in Manifest
          /\ test[r][f] = "upload_result" => held[r][f] \in Manifest
          /\ attaching[r] = f => held[r][f] \in Manifest
    /\ \A r \in Runs :
          /\ phase[r] \in {"attach_singles", "attach_set"} => logKey[r] \in LogObjects
          /\ phase[r] = "attach_set" => heldSet[r] \in ManifestSet /\ setKey[r] \in SetKeys

TypeInv == TypeOK /\ Scheduling /\ Holding

(* The documents of the pipeline and the updates steps make to them.         *)

LEMMA ManifestUpdates ==
    ASSUME NEW m \in Manifest
    PROVE  /\ \A p \in Runs \cup {"provisional", Nil} : [m EXCEPT !.pub = p] \in Manifest
           /\ \A t \in {"OK", "FAILED", Nil} : [m EXCEPT !.test = t] \in Manifest
           /\ \A l \in LogObjects \cup {Nil} : [m EXCEPT !.log = l] \in Manifest
BY DEF Manifest

LEMMA SetUpdates ==
    ASSUME NEW s \in ManifestSet, NEW ls, ls \subseteq LogObjects
    PROVE  [s EXCEPT !.logs = s.logs \cup ls] \in ManifestSet
BY DEF ManifestSet

LEMMA KeysInRange ==
    ASSUME NEW t \in Time
    PROVE  /\ LogObject(t) \in LogObjects
           /\ \A k \in Kind : SetKeyOf(k, t) \in SetKeys
           /\ \A f \in Flavours, c \in Contents : ImageObject(f, c) \in ImageObjects
<1>1. 0 \in Time
  BY ConstantsAssumption DEF Time
<1> QED
  BY <1>1 DEF LogObjects, SetKeys, SetKeyOf, ImageObjects

(* One entry of a table with a row per run and a column per flavour is set.   *)

Elsewhere(F, G, r, f) ==
    \A q \in Runs, g \in Flavours : q # r \/ g # f => G[q][g] = F[q][g]

LEMMA Same ==
    ASSUME NEW F, NEW r, NEW f
    PROVE  Elsewhere(F, F, r, f)
BY DEF Elsewhere

LEMMA SetBuild ==
    ASSUME TypeOK, NEW r \in Runs, NEW f \in Flavours, NEW b \in BuildStep,
           build' = [build EXCEPT ![r][f] = b]
    PROVE  /\ build' \in [Runs -> [Flavours -> BuildStep]]
           /\ Elsewhere(build, build', r, f) /\ build'[r][f] = b
<1>1. build \in [Runs -> [Flavours -> BuildStep]]
  BY DEF TypeOK
<1> QED
  BY <1>1 DEF Elsewhere

LEMMA SetTest ==
    ASSUME TypeOK, NEW r \in Runs, NEW f \in Flavours, NEW t \in TestStep,
           test' = [test EXCEPT ![r][f] = t]
    PROVE  /\ test' \in [Runs -> [Flavours -> TestStep]]
           /\ Elsewhere(test, test', r, f) /\ test'[r][f] = t
<1>1. test \in [Runs -> [Flavours -> TestStep]]
  BY DEF TypeOK
<1> QED
  BY <1>1 DEF Elsewhere

LEMMA SetHeld ==
    ASSUME TypeOK, NEW r \in Runs, NEW f \in Flavours, NEW m \in Manifest \cup {Nil},
           held' = [held EXCEPT ![r][f] = m]
    PROVE  /\ held' \in [Runs -> [Flavours -> Manifest \cup {Nil}]]
           /\ Elsewhere(held, held', r, f) /\ held'[r][f] = m
<1>1. held \in [Runs -> [Flavours -> Manifest \cup {Nil}]]
  BY DEF TypeOK
<1> QED
  BY <1>1 DEF Elsewhere

LEMMA SetFound ==
    ASSUME TypeOK, NEW r \in Runs, NEW f \in Flavours, NEW m \in Manifest \cup {Nil},
           found' = [found EXCEPT ![r][f] = m]
    PROVE  /\ found' \in [Runs -> [Flavours -> Manifest \cup {Nil}]]
           /\ Elsewhere(found, found', r, f) /\ found'[r][f] = m
<1>1. found \in [Runs -> [Flavours -> Manifest \cup {Nil}]]
  BY DEF TypeOK
<1> QED
  BY <1>1 DEF Elsewhere

LEMMA SetOutput ==
    ASSUME TypeOK, NEW r \in Runs, NEW f \in Flavours, NEW c \in Contents \cup {Nil},
           output' = [output EXCEPT ![r][f] = c]
    PROVE  /\ output' \in [Runs -> [Flavours -> Contents \cup {Nil}]]
           /\ Elsewhere(output, output', r, f) /\ output'[r][f] = c
<1>1. output \in [Runs -> [Flavours -> Contents \cup {Nil}]]
  BY DEF TypeOK
<1> QED
  BY <1>1 DEF Elsewhere

LEMMA SetResult ==
    ASSUME TypeOK, NEW r \in Runs, NEW f \in Flavours, NEW b \in BOOLEAN,
           result' = [result EXCEPT ![r][f] = b]
    PROVE  result' \in [Runs -> [Flavours -> BOOLEAN]]
<1>1. result \in [Runs -> [Flavours -> BOOLEAN]]
  BY DEF TypeOK
<1> QED
  BY <1>1

(* Whatever a build task does to its own entries, to the bucket and outside of *)
(* it, keeps the invariant if it holds what its next step needs.               *)

BuildMoves(r, f) ==
    /\ phase[r] = "tasks" /\ build[r][f] # "done"
    /\ build' \in [Runs -> [Flavours -> BuildStep]] /\ Elsewhere(build, build', r, f)
    /\ held' \in [Runs -> [Flavours -> Manifest \cup {Nil}]] /\ Elsewhere(held, held', r, f)
    /\ output' \in [Runs -> [Flavours -> Contents \cup {Nil}]]
    /\ Elsewhere(output, output', r, f)
    /\ result' \in [Runs -> [Flavours -> BOOLEAN]]
    /\ build'[r][f] \in {"upload_objects", "publish_oci", "upload_manifest"} => output'[r][f] \in Contents
    /\ build'[r][f] \in {"publish", "persist"} => held'[r][f] \in Manifest
    /\ objects' \subseteq ImageObjects \cup LogObjects
    /\ singles' \in [Flavours -> Manifest \cup {Nil}]
    /\ images' \subseteq Flavours \X Runs
    /\ UNCHANGED <<clock, sets, descriptor, phase, targets, kind, base, test, promote, found,
                   setKey, todo, attaching, logKey, heldSet>>

LEMMA BuildMovesKeepTypes ==
    ASSUME TypeInv, NEW r \in Runs, NEW f \in Flavours, BuildMoves(r, f)
    PROVE  TypeInv'
<1> USE DEF TypeInv, BuildMoves, Elsewhere
<1>1. TypeOK'
  BY DEF TypeOK
<1>2. Scheduling'
  <2>1. ASSUME NEW q \in Runs, NEW g \in Flavours
        PROVE  /\ build'[q][g] # "done" => test'[q][g] = "pending"
               /\ phase'[q] # "tasks" => build'[q][g] \in Idle /\ test'[q][g] \in Idle
    <3>1. UNCHANGED <<test, phase>>
      OBVIOUS
    <3>2. CASE q = r /\ g = f
      BY <3>1, <3>2 DEF Scheduling
    <3>3. CASE q # r \/ g # f
      <4>1. build'[q][g] = build[q][g]
        BY <3>3
      <4> QED
        BY <3>1, <4>1 DEF Scheduling
    <3> QED
      BY <3>2, <3>3
  <2>2. ASSUME NEW q \in Runs
        PROVE  /\ phase'[q] # "tasks" => promote'[q] \in Idle
               /\ attaching'[q] # Nil => phase'[q] = "attach_singles"
    BY DEF Scheduling
  <2> QED
    BY <2>1, <2>2 DEF Scheduling
<1>3. Holding'
  <2>1. attaching[r] = Nil
    BY DEF Scheduling
  <2>2. test[r][f] # "upload_result"
    BY DEF Scheduling
  <2>0. ASSUME NEW q \in Runs, NEW g \in Flavours, q # r \/ g # f
        PROVE  /\ build'[q][g] = build[q][g]
               /\ output'[q][g] = output[q][g]
               /\ held'[q][g] = held[q][g]
    BY <2>0
  <2>3. ASSUME NEW q \in Runs, NEW g \in Flavours
        PROVE  /\ build'[q][g] \in {"upload_objects", "publish_oci", "upload_manifest"} =>
                    output'[q][g] \in Contents
               /\ build'[q][g] \in {"publish", "persist"} => held'[q][g] \in Manifest
    <3>1. CASE q = r /\ g = f
      BY <3>1
    <3>2. CASE q # r \/ g # f
      BY <3>2, <2>0 DEF Holding
    <3> QED
      BY <3>1, <3>2
  <2>4. ASSUME NEW q \in Runs, NEW g \in Flavours
        PROVE  /\ test'[q][g] = "upload_result" => held'[q][g] \in Manifest
               /\ attaching'[q] = g => held'[q][g] \in Manifest
    <3>1. test' = test /\ attaching' = attaching
      OBVIOUS
    <3>2. CASE q = r /\ g = f
      <4>1. attaching[q] # g
        BY <3>2, <2>1, ConstantsAssumption
      <4> QED
        BY <3>1, <3>2, <4>1, <2>2
    <3>3. CASE q # r \/ g # f
      BY <3>1, <3>3, <2>0 DEF Holding
    <3> QED
      BY <3>2, <3>3
  <2>5. ASSUME NEW q \in Runs
        PROVE  /\ phase'[q] \in {"attach_singles", "attach_set"} => logKey'[q] \in LogObjects
               /\ phase'[q] = "attach_set" => heldSet'[q] \in ManifestSet /\ setKey'[q] \in SetKeys
    BY DEF Holding
  <2> QED
    BY <2>3, <2>4, <2>5 DEF Holding
<1> QED
  BY <1>1, <1>2, <1>3

LEMMA PreBuildMoves ==
    ASSUME TypeInv, NEW r \in Runs, NEW f \in Flavours, PreBuild(r, f)
    PROVE  BuildMoves(r, f)
<1> USE DEF TypeInv
<1>1. phase[r] = "tasks" /\ build[r][f] = "pending"
  BY DEF PreBuild, BuildMayStart
<1>2. PICK b \in {"promote_single", "build_image"} : build' = [build EXCEPT ![r][f] = b]
  BY DEF PreBuild, GoBuild
<1>3. b \in BuildStep
  BY <1>2 DEF BuildStep
<1>4. /\ build' \in [Runs -> [Flavours -> BuildStep]]
      /\ Elsewhere(build, build', r, f) /\ build'[r][f] = b
  BY <1>2, <1>3, SetBuild
<1>5. Elsewhere(held, held, r, f) /\ Elsewhere(output, output, r, f)
  BY Same
<1> QED
  BY <1>1, <1>2, <1>4, <1>5 DEF PreBuild, BuildMoves, bucket, outside, given, promotePc,
     notifyPc, TypeOK

\* A step of a build task that has started.
LEMMA BuildIsActive ==
    ASSUME TypeInv, NEW r \in Runs, NEW f \in Flavours, build[r][f] \notin Idle
    PROVE  phase[r] = "tasks" /\ build[r][f] # "done"
BY DEF TypeInv, Scheduling, Idle

LEMMA BuildImageMoves ==
    ASSUME TypeInv, NEW r \in Runs, NEW f \in Flavours, BuildImage(r, f)
    PROVE  BuildMoves(r, f)
<1> USE DEF TypeInv
<1>1. phase[r] = "tasks" /\ build[r][f] # "done"
  BY BuildIsActive DEF BuildImage, Idle
<1>2. Elsewhere(held, held, r, f) /\ Elsewhere(output, output, r, f)
  BY Same
<1>3. "upload_objects" \in BuildStep /\ "promote_single" \in BuildStep
  BY DEF BuildStep
<1>4. CASE "manifest" \in targets[r]
  <2>1. PICK c \in Contents : output' = [output EXCEPT ![r][f] = c]
    BY <1>4 DEF BuildImage
  <2>2. /\ output' \in [Runs -> [Flavours -> Contents \cup {Nil}]]
        /\ Elsewhere(output, output', r, f) /\ output'[r][f] = c
    BY <2>1, SetOutput
  <2>3. build' = [build EXCEPT ![r][f] = "upload_objects"]
    BY <1>4 DEF BuildImage, GoBuild
  <2>4. /\ build' \in [Runs -> [Flavours -> BuildStep]] /\ Elsewhere(build, build', r, f)
        /\ build'[r][f] = "upload_objects"
    BY <2>3, <1>3, SetBuild
  <2> QED
    BY <1>1, <1>2, <2>2, <2>4 DEF BuildImage, BuildMoves, bucket, outside, given, promotePc,
       notifyPc, TypeOK
<1>5. CASE "manifest" \notin targets[r]
  <2>1. build' = [build EXCEPT ![r][f] = "promote_single"] /\ UNCHANGED output
    BY <1>5 DEF BuildImage, GoBuild
  <2>2. /\ build' \in [Runs -> [Flavours -> BuildStep]] /\ Elsewhere(build, build', r, f)
        /\ build'[r][f] = "promote_single"
    BY <2>1, <1>3, SetBuild
  <2> QED
    BY <1>1, <1>2, <2>1, <2>2 DEF BuildImage, BuildMoves, bucket, outside, given, promotePc,
       notifyPc, TypeOK
<1> QED
  BY <1>4, <1>5

LEMMA UploadObjectsMoves ==
    ASSUME TypeInv, NEW r \in Runs, NEW f \in Flavours, UploadObjects(r, f)
    PROVE  BuildMoves(r, f)
<1> USE DEF TypeInv
<1>1. phase[r] = "tasks" /\ build[r][f] # "done"
  BY BuildIsActive DEF UploadObjects, Idle
<1>2. Elsewhere(held, held, r, f) /\ Elsewhere(output, output, r, f)
  BY Same
<1>3. build' = [build EXCEPT ![r][f] = AfterObjects(f)] /\ AfterObjects(f) \in BuildStep
      /\ AfterObjects(f) \in {"publish_oci", "upload_manifest"}
  BY DEF UploadObjects, GoBuild, BuildStep, AfterObjects
<1>4. /\ build' \in [Runs -> [Flavours -> BuildStep]] /\ Elsewhere(build, build', r, f)
      /\ build'[r][f] \in {"publish_oci", "upload_manifest"}
  BY <1>3, SetBuild
<1>5. output[r][f] \in Contents
  BY DEF UploadObjects, Holding
<1>6. objects' \subseteq ImageObjects \cup LogObjects
  <2>1. objects \subseteq ImageObjects \cup LogObjects
    BY DEF TypeOK
  <2> QED
    BY <2>1, <1>5 DEF UploadObjects, ImageObjects
<1> QED
  BY <1>1, <1>2, <1>4, <1>5, <1>6 DEF UploadObjects, BuildMoves, bucket, outside, given,
     promotePc, notifyPc, TypeOK

LEMMA PublishOciMoves ==
    ASSUME TypeInv, NEW r \in Runs, NEW f \in Flavours, PublishOci(r, f)
    PROVE  BuildMoves(r, f)
<1> USE DEF TypeInv
<1>1. phase[r] = "tasks" /\ build[r][f] # "done"
  BY BuildIsActive DEF PublishOci, Idle
<1>2. Elsewhere(held, held, r, f) /\ Elsewhere(output, output, r, f)
  BY Same
<1>3. build' = [build EXCEPT ![r][f] = "upload_manifest"] /\ "upload_manifest" \in BuildStep
  BY DEF PublishOci, GoBuild, BuildStep
<1>4. /\ build' \in [Runs -> [Flavours -> BuildStep]] /\ Elsewhere(build, build', r, f)
      /\ build'[r][f] = "upload_manifest"
  BY <1>3, SetBuild
<1>5. output[r][f] \in Contents
  BY DEF PublishOci, Holding
<1>6. images' \subseteq Flavours \X Runs
  BY DEF PublishOci, TypeOK
<1> QED
  BY <1>1, <1>2, <1>4, <1>5, <1>6 DEF PublishOci, BuildMoves, bucket, given, promotePc,
     notifyPc, TypeOK

LEMMA FreshManifestType ==
    ASSUME NEW r \in Runs, NEW f \in Flavours, output[r][f] \in Contents, clock \in Time
    PROVE  FreshManifest(r, f) \in Manifest
BY DEF FreshManifest, Manifest

LEMMA UploadManifestMoves ==
    ASSUME TypeInv, NEW r \in Runs, NEW f \in Flavours, UploadManifest(r, f)
    PROVE  BuildMoves(r, f)
<1> USE DEF TypeInv
<1>1. phase[r] = "tasks" /\ build[r][f] # "done"
  BY BuildIsActive DEF UploadReleaseManifest, UploadManifest, Idle
<1>2. Elsewhere(held, held, r, f)
  BY Same
<1>3. build' = [build EXCEPT ![r][f] = "promote_single"] /\ "promote_single" \in BuildStep
  BY DEF UploadReleaseManifest, UploadManifest, GoBuild, BuildStep
<1>4. /\ build' \in [Runs -> [Flavours -> BuildStep]] /\ Elsewhere(build, build', r, f)
      /\ build'[r][f] = "promote_single"
  BY <1>3, SetBuild
<1>5. output' = [output EXCEPT ![r][f] = Nil] /\ result' = [result EXCEPT ![r][f] = TRUE]
  BY DEF UploadReleaseManifest, UploadManifest, Drop
<1>6. /\ output' \in [Runs -> [Flavours -> Contents \cup {Nil}]]
      /\ Elsewhere(output, output', r, f)
      /\ result' \in [Runs -> [Flavours -> BOOLEAN]]
  BY <1>5, SetOutput, SetResult
<1>7. singles' \in [Flavours -> Manifest \cup {Nil}]
  <2>1. output[r][f] \in Contents
    BY DEF UploadReleaseManifest, UploadManifest, Holding
  <2>2. clock \in Time /\ singles \in [Flavours -> Manifest \cup {Nil}]
    BY DEF TypeOK
  <2>3. FreshManifest(r, f) \in Manifest
    BY <2>1, <2>2, FreshManifestType
  <2> QED
    BY <2>2, <2>3 DEF UploadReleaseManifest, UploadManifest
<1> QED
  BY <1>1, <1>2, <1>4, <1>6, <1>7 DEF UploadReleaseManifest, UploadManifest, BuildMoves,
     bucket, outside, given, promotePc, notifyPc, TypeOK

LEMMA PromoteSingleMoves ==
    ASSUME TypeInv, NEW r \in Runs, NEW f \in Flavours, PromoteSingle(r, f)
    PROVE  BuildMoves(r, f)
<1> USE DEF TypeInv
<1>1. phase[r] = "tasks" /\ build[r][f] # "done"
  BY BuildIsActive DEF PromoteSingle, Idle
<1>2. Elsewhere(held, held, r, f) /\ Elsewhere(output, output, r, f)
  BY Same
<1>3. \A b \in {"done", "failed", "publish"} : b \in BuildStep
  BY DEF BuildStep, Idle
<1>4. CASE UNCHANGED held /\ \E b \in {"done", "failed"} : build' = [build EXCEPT ![r][f] = b]
  <2>1. PICK b \in {"done", "failed"} : build' = [build EXCEPT ![r][f] = b]
    BY <1>4
  <2>2. /\ build' \in [Runs -> [Flavours -> BuildStep]] /\ Elsewhere(build, build', r, f)
        /\ build'[r][f] = b
    BY <2>1, <1>3, SetBuild
  <2> QED
    BY <1>1, <1>2, <1>4, <2>1, <2>2 DEF PromoteSingle, BuildMoves, bucket, outside, given,
       promotePc, notifyPc, TypeOK
<1>5. CASE /\ singles[f] # Nil
           /\ build' = [build EXCEPT ![r][f] = "publish"]
           /\ held' = [held EXCEPT ![r][f] = Prepared(f)]
  <2>1. /\ build' \in [Runs -> [Flavours -> BuildStep]] /\ Elsewhere(build, build', r, f)
        /\ build'[r][f] = "publish"
    BY <1>3, <1>5, SetBuild
  <2>2. singles[f] \in Manifest
    BY <1>5 DEF TypeOK
  <2>3. Prepared(f) \in Manifest
    BY <2>2, ManifestUpdates DEF Prepared
  <2>4. /\ held' \in [Runs -> [Flavours -> Manifest \cup {Nil}]]
        /\ Elsewhere(held, held', r, f) /\ held'[r][f] = Prepared(f)
    BY <1>5, <2>3, SetHeld
  <2> QED
    BY <1>1, <1>2, <2>1, <2>3, <2>4 DEF PromoteSingle, BuildMoves, bucket, outside, given,
       promotePc, notifyPc, TypeOK
<1> QED
  BY <1>4, <1>5 DEF PromoteSingle, GoBuild

LEMMA PublishImageMoves ==
    ASSUME TypeInv, NEW r \in Runs, NEW f \in Flavours, PublishImage(r, f)
    PROVE  BuildMoves(r, f)
<1> USE DEF TypeInv
<1>1. phase[r] = "tasks" /\ build[r][f] # "done"
  BY BuildIsActive DEF PublishImage, Idle
<1>2. Elsewhere(output, output, r, f)
  BY Same
<1>3. build' = [build EXCEPT ![r][f] = "persist"] /\ "persist" \in BuildStep
  BY DEF PublishImage, GoBuild, BuildStep
<1>4. /\ build' \in [Runs -> [Flavours -> BuildStep]] /\ Elsewhere(build, build', r, f)
      /\ build'[r][f] = "persist"
  BY <1>3, SetBuild
<1>5. held[r][f] \in Manifest
  BY DEF PublishImage, Holding
<1>6. [held[r][f] EXCEPT !.pub = r] \in Manifest
  BY <1>5, ManifestUpdates
<1>7. CASE f \in Unpublishable
  <2>1. Elsewhere(held, held, r, f)
    BY Same
  <2> QED
    BY <1>1, <1>2, <1>4, <1>5, <1>7, <2>1 DEF PublishImage, BuildMoves, bucket, outside, given,
       promotePc, notifyPc, TypeOK
<1>8. CASE f \notin Unpublishable
  <2>1. held' = [held EXCEPT ![r][f] = [held[r][f] EXCEPT !.pub = r]]
    BY <1>8 DEF PublishImage
  <2>2. /\ held' \in [Runs -> [Flavours -> Manifest \cup {Nil}]]
        /\ Elsewhere(held, held', r, f) /\ held'[r][f] \in Manifest
    BY <1>6, <2>1, SetHeld
  <2>3. images' \subseteq Flavours \X Runs
    BY <1>8 DEF PublishImage, TypeOK
  <2> QED
    BY <1>1, <1>2, <1>4, <2>2, <2>3 DEF PublishImage, BuildMoves, bucket, outside, given,
       promotePc, notifyPc, TypeOK
<1> QED
  BY <1>7, <1>8

LEMMA PublishFailsMoves ==
    ASSUME TypeInv, NEW r \in Runs, NEW f \in Flavours, PublishFails(r, f)
    PROVE  BuildMoves(r, f)
<1> USE DEF TypeInv
<1>1. phase[r] = "tasks" /\ build[r][f] # "done"
  BY BuildIsActive DEF PublishFails, Idle
<1>2. Elsewhere(held, held, r, f) /\ Elsewhere(output, output, r, f)
  BY Same
<1>3. held[r][f] \in Manifest
  BY DEF PublishFails, Holding
<1>4. "persist" \in BuildStep /\ "failed" \in BuildStep
  BY DEF BuildStep, Idle
<1>5. CASE f \in Azure
  <2>1. build' = [build EXCEPT ![r][f] = "persist"] /\ UNCHANGED held
    BY <1>5 DEF PublishFails, GoBuild
  <2>2. /\ build' \in [Runs -> [Flavours -> BuildStep]] /\ Elsewhere(build, build', r, f)
        /\ build'[r][f] = "persist"
    BY <2>1, <1>4, SetBuild
  <2> QED
    BY <1>1, <1>2, <1>3, <2>1, <2>2 DEF PublishFails, BuildMoves, bucket, outside, given,
       promotePc, notifyPc, TypeOK
<1>6. CASE f \notin Azure
  <2>1. /\ build' = [build EXCEPT ![r][f] = "failed"]
        /\ held' = [held EXCEPT ![r][f] = Nil]
    BY <1>6 DEF PublishFails, GoBuild, Drop
  <2>2. /\ build' \in [Runs -> [Flavours -> BuildStep]] /\ Elsewhere(build, build', r, f)
        /\ build'[r][f] = "failed"
    BY <2>1, <1>4, SetBuild
  <2>3. /\ held' \in [Runs -> [Flavours -> Manifest \cup {Nil}]]
        /\ Elsewhere(held, held', r, f)
    BY <2>1, SetHeld
  <2> QED
    BY <1>1, <1>2, <2>2, <2>3 DEF PublishFails, BuildMoves, bucket, outside, given,
       promotePc, notifyPc, TypeOK
<1> QED
  BY <1>5, <1>6

LEMMA PersistSingleMoves ==
    ASSUME TypeInv, NEW r \in Runs, NEW f \in Flavours, PersistSingle(r, f)
    PROVE  BuildMoves(r, f)
<1> USE DEF TypeInv
<1>1. phase[r] = "tasks" /\ build[r][f] # "done"
  BY BuildIsActive DEF UploadReleaseManifest, PersistSingle, Idle
<1>2. Elsewhere(output, output, r, f)
  BY Same
<1>3. build' = [build EXCEPT ![r][f] = "done"] /\ held' = [held EXCEPT ![r][f] = Nil]
  BY DEF UploadReleaseManifest, PersistSingle, GoBuild, Drop
<1>4. "done" \in BuildStep
  BY DEF BuildStep, Idle
<1>5. /\ build' \in [Runs -> [Flavours -> BuildStep]] /\ Elsewhere(build, build', r, f)
      /\ build'[r][f] = "done"
      /\ held' \in [Runs -> [Flavours -> Manifest \cup {Nil}]]
      /\ Elsewhere(held, held', r, f)
  BY <1>3, <1>4, SetBuild, SetHeld
<1>6. singles' \in [Flavours -> Manifest \cup {Nil}]
  BY DEF UploadReleaseManifest, PersistSingle, Holding, TypeOK
<1> QED
  BY <1>1, <1>2, <1>5, <1>6 DEF UploadReleaseManifest, PersistSingle, BuildMoves, bucket,
     outside, given, promotePc, notifyPc, TypeOK

LEMMA BuildFailsMoves ==
    ASSUME TypeInv, NEW r \in Runs, NEW f \in Flavours, BuildFails(r, f)
    PROVE  BuildMoves(r, f)
<1> USE DEF TypeInv
<1>1. phase[r] = "tasks" /\ build[r][f] # "done"
  BY BuildIsActive DEF BuildFails
<1>2. /\ build' = [build EXCEPT ![r][f] = "failed"]
      /\ held' = [held EXCEPT ![r][f] = Nil]
      /\ output' = [output EXCEPT ![r][f] = Nil]
  BY DEF BuildFails, GoBuild, Drop
<1>3. "failed" \in BuildStep
  BY DEF BuildStep, Idle
<1>4. /\ build' \in [Runs -> [Flavours -> BuildStep]] /\ Elsewhere(build, build', r, f)
      /\ build'[r][f] = "failed"
      /\ held' \in [Runs -> [Flavours -> Manifest \cup {Nil}]]
      /\ Elsewhere(held, held', r, f)
      /\ output' \in [Runs -> [Flavours -> Contents \cup {Nil}]]
      /\ Elsewhere(output, output', r, f)
  BY <1>2, <1>3, SetBuild, SetHeld, SetOutput
<1>5. PICK x \in {FALSE, result[r][f]} : result' = [result EXCEPT ![r][f] = x]
  BY DEF BuildFails
<1>6. x \in BOOLEAN
  <2>1. result \in [Runs -> [Flavours -> BOOLEAN]]
    BY DEF TypeOK
  <2>2. result[r] \in [Flavours -> BOOLEAN]
    BY <2>1
  <2>3. result[r][f] \in BOOLEAN
    BY <2>2, Zenon
  <2> QED
    BY <2>3
<1>7. result' \in [Runs -> [Flavours -> BOOLEAN]]
  BY <1>5, <1>6, SetResult
<1> QED
  BY <1>1, <1>4, <1>7 DEF BuildFails, BuildMoves, bucket, outside, given, promotePc,
     notifyPc, TypeOK

LEMMA BuildKeepsTypes ==
    ASSUME TypeInv, NEW r \in Runs, NEW f \in Flavours, BuildTask(r, f)
    PROVE  TypeInv'
<1>1. BuildMoves(r, f)
  BY PreBuildMoves, BuildImageMoves, UploadObjectsMoves, PublishOciMoves,
     UploadManifestMoves, PromoteSingleMoves, PublishImageMoves, PublishFailsMoves, PersistSingleMoves,
     BuildFailsMoves DEF BuildTask
<1> QED
  BY <1>1, BuildMovesKeepTypes

(* The test task of a flavour.                                               *)

TestMoves(r, f) ==
    /\ phase[r] = "tasks" /\ build[r][f] = "done"
    /\ test' \in [Runs -> [Flavours -> TestStep]] /\ Elsewhere(test, test', r, f)
    /\ held' \in [Runs -> [Flavours -> Manifest \cup {Nil}]] /\ Elsewhere(held, held', r, f)
    /\ test'[r][f] = "upload_result" => held'[r][f] \in Manifest
    /\ singles' \in [Flavours -> Manifest \cup {Nil}]
    /\ UNCHANGED <<clock, objects, sets, outside, phase, given, buildPc, promotePc, todo,
                   notifyPc>>

LEMMA TestMovesKeepTypes ==
    ASSUME TypeInv, NEW r \in Runs, NEW f \in Flavours, TestMoves(r, f)
    PROVE  TypeInv'
<1> USE DEF TypeInv, TestMoves, Elsewhere, outside, given, buildPc, promotePc, notifyPc
<1>1. TypeOK'
  BY DEF TypeOK
<1>2. Scheduling'
  BY DEF Scheduling
<1>3. Holding'
  <2>1. attaching[r] = Nil
    BY DEF Scheduling
  <2>2. ASSUME NEW q \in Runs, NEW g \in Flavours
        PROVE  /\ build'[q][g] \in {"upload_objects", "publish_oci", "upload_manifest"} =>
                    output'[q][g] \in Contents
               /\ build'[q][g] \in {"publish", "persist"} => held'[q][g] \in Manifest
    BY DEF Holding
  <2>3. ASSUME NEW q \in Runs, NEW g \in Flavours
        PROVE  /\ test'[q][g] = "upload_result" => held'[q][g] \in Manifest
               /\ attaching'[q] = g => held'[q][g] \in Manifest
    BY <2>1, ConstantsAssumption DEF Holding
  <2>4. ASSUME NEW q \in Runs
        PROVE  /\ phase'[q] \in {"attach_singles", "attach_set"} => logKey'[q] \in LogObjects
               /\ phase'[q] = "attach_set" => heldSet'[q] \in ManifestSet /\ setKey'[q] \in SetKeys
    BY DEF Holding
  <2> QED
    BY <2>2, <2>3, <2>4 DEF Holding
<1> QED
  BY <1>1, <1>2, <1>3

\* A step of a test task that has started.
LEMMA TestIsActive ==
    ASSUME TypeInv, NEW r \in Runs, NEW f \in Flavours, test[r][f] \notin Idle
    PROVE  phase[r] = "tasks" /\ build[r][f] = "done"
BY DEF TypeInv, Scheduling, Idle

LEMMA PreCheckTestsMoves ==
    ASSUME TypeInv, NEW r \in Runs, NEW f \in Flavours, PreCheckTests(r, f)
    PROVE  TestMoves(r, f)
<1> USE DEF TypeInv
<1>1. phase[r] = "tasks" /\ build[r][f] = "done"
  BY DEF PreCheckTests, TestMayStart
<1>2. PICK t \in {"done", "run_tests"} : test' = [test EXCEPT ![r][f] = t]
  BY DEF PreCheckTests, GoTest
<1>3. t \in TestStep
  BY <1>2 DEF TestStep, Idle
<1>4. /\ test' \in [Runs -> [Flavours -> TestStep]]
      /\ Elsewhere(test, test', r, f) /\ test'[r][f] = t
  BY <1>2, <1>3, SetTest
<1>5. Elsewhere(held, held, r, f)
  BY Same
<1> QED
  BY <1>1, <1>2, <1>4, <1>5 DEF PreCheckTests, TestMoves, bucket, TypeOK

LEMMA RunTestsMoves ==
    ASSUME TypeInv, NEW r \in Runs, NEW f \in Flavours, RunTests(r, f)
    PROVE  TestMoves(r, f)
<1> USE DEF TypeInv
<1>1. phase[r] = "tasks" /\ build[r][f] = "done"
  BY TestIsActive DEF RunTests, Idle
<1>2. Elsewhere(held, held, r, f)
  BY Same
<1>3. \A t \in {"done", "failed", "upload_result"} : t \in TestStep
  BY DEF TestStep, Idle
<1>4. CASE UNCHANGED held /\ \E t \in {"done", "failed"} : test' = [test EXCEPT ![r][f] = t]
  <2>1. PICK t \in {"done", "failed"} : test' = [test EXCEPT ![r][f] = t]
    BY <1>4
  <2>2. /\ test' \in [Runs -> [Flavours -> TestStep]]
        /\ Elsewhere(test, test', r, f) /\ test'[r][f] = t
    BY <2>1, <1>3, SetTest
  <2> QED
    BY <1>1, <1>2, <1>4, <2>1, <2>2 DEF RunTests, TestMoves, bucket, TypeOK
<1>5. CASE /\ singles[f] # Nil
           /\ test' = [test EXCEPT ![r][f] = "upload_result"]
           /\ \E res \in {"OK", "FAILED"} :
                 held' = [held EXCEPT ![r][f] = [singles[f] EXCEPT !.test = res]]
  <2>1. PICK res \in {"OK", "FAILED"} :
               held' = [held EXCEPT ![r][f] = [singles[f] EXCEPT !.test = res]]
    BY <1>5
  <2>2. singles[f] \in Manifest
    BY <1>5 DEF TypeOK
  <2>3. [singles[f] EXCEPT !.test = res] \in Manifest
    BY <2>2, ManifestUpdates
  <2>4. /\ held' \in [Runs -> [Flavours -> Manifest \cup {Nil}]]
        /\ Elsewhere(held, held', r, f) /\ held'[r][f] \in Manifest
    BY <2>1, <2>3, SetHeld
  <2>5. /\ test' \in [Runs -> [Flavours -> TestStep]]
        /\ Elsewhere(test, test', r, f) /\ test'[r][f] = "upload_result"
    BY <1>5, <1>3, SetTest
  <2> QED
    BY <1>1, <2>4, <2>5 DEF RunTests, TestMoves, bucket, TypeOK
<1> QED
  BY <1>4, <1>5 DEF RunTests, GoTest

LEMMA UploadTestResultMoves ==
    ASSUME TypeInv, NEW r \in Runs, NEW f \in Flavours, UploadTestResult(r, f)
    PROVE  TestMoves(r, f)
<1> USE DEF TypeInv
<1>1. phase[r] = "tasks" /\ build[r][f] = "done"
  BY TestIsActive DEF UploadReleaseManifest, UploadTestResult, Idle
<1>2. PICK t \in {"done", "failed"} : test' = [test EXCEPT ![r][f] = t]
  BY DEF UploadReleaseManifest, UploadTestResult, GoTest
<1>3. t \in TestStep
  BY <1>2 DEF TestStep, Idle
<1>4. held' = [held EXCEPT ![r][f] = Nil]
  BY DEF UploadReleaseManifest, UploadTestResult, Drop
<1>5. /\ test' \in [Runs -> [Flavours -> TestStep]]
      /\ Elsewhere(test, test', r, f) /\ test'[r][f] = t
      /\ held' \in [Runs -> [Flavours -> Manifest \cup {Nil}]]
      /\ Elsewhere(held, held', r, f)
  BY <1>2, <1>3, <1>4, SetTest, SetHeld
<1>6. singles' \in [Flavours -> Manifest \cup {Nil}]
  BY DEF UploadReleaseManifest, UploadTestResult, Holding, TypeOK
<1> QED
  BY <1>1, <1>2, <1>5, <1>6 DEF UploadReleaseManifest, UploadTestResult, TestMoves

LEMMA TestFailsMoves ==
    ASSUME TypeInv, NEW r \in Runs, NEW f \in Flavours, TestFails(r, f)
    PROVE  TestMoves(r, f)
<1> USE DEF TypeInv
<1>1. phase[r] = "tasks" /\ build[r][f] = "done"
  BY TestIsActive DEF TestFails
<1>2. test' = [test EXCEPT ![r][f] = "failed"] /\ held' = [held EXCEPT ![r][f] = Nil]
  BY DEF TestFails, GoTest, Drop
<1>3. "failed" \in TestStep
  BY DEF TestStep, Idle
<1>4. /\ test' \in [Runs -> [Flavours -> TestStep]]
      /\ Elsewhere(test, test', r, f) /\ test'[r][f] = "failed"
      /\ held' \in [Runs -> [Flavours -> Manifest \cup {Nil}]]
      /\ Elsewhere(held, held', r, f)
  BY <1>2, <1>3, SetTest, SetHeld
<1> QED
  BY <1>1, <1>4 DEF TestFails, TestMoves, bucket, TypeOK

LEMMA TestKeepsTypes ==
    ASSUME TypeInv, NEW r \in Runs, NEW f \in Flavours, TestTask(r, f)
    PROVE  TypeInv'
<1>1. TestMoves(r, f)
  BY PreCheckTestsMoves, RunTestsMoves, UploadTestResultMoves, TestFailsMoves DEF TestTask
<1> QED
  BY <1>1, TestMovesKeepTypes

(* The promote task.                                                         *)

PromoteMoves(r) ==
    /\ phase[r] = "tasks"
    /\ promote' \in [Runs -> PromoteStep] /\ \A q \in Runs \ {r} : promote'[q] = promote[q]
    /\ found' \in [Runs -> [Flavours -> Manifest \cup {Nil}]]
    /\ setKey' \in [Runs -> SetKeys \cup {Nil}] /\ \A q \in Runs \ {r} : setKey'[q] = setKey[q]
    /\ todo' \in [Runs -> SUBSET Flavours]
    /\ sets' \in [SetKeys -> ManifestSet \cup {Nil}]
    /\ descriptor' \in [Runs -> (SUBSET Flavours) \cup {Nil}]
    /\ UNCHANGED <<clock, objects, singles, images, phase, given, buildPc, test, held, notifyPc>>

LEMMA PromoteMovesKeepTypes ==
    ASSUME TypeInv, NEW r \in Runs, PromoteMoves(r)
    PROVE  TypeInv'
<1> USE DEF TypeInv, PromoteMoves, given, buildPc, notifyPc
<1>1. TypeOK'
  BY DEF TypeOK
<1>2. Scheduling'
  BY DEF Scheduling
<1>3. Holding'
  BY DEF Holding
<1> QED
  BY <1>1, <1>2, <1>3

\* A step of a promote task that has started.
LEMMA PromoteIsActive ==
    ASSUME TypeInv, NEW r \in Runs, promote[r] \notin Idle
    PROVE  phase[r] = "tasks"
BY DEF TypeInv, Scheduling

LEMMA BuildComponentDescriptorMoves ==
    ASSUME TypeInv, NEW r \in Runs, BuildComponentDescriptor(r)
    PROVE  PromoteMoves(r)
<1> USE DEF TypeInv
<1>1. phase[r] = "tasks"
  BY DEF BuildComponentDescriptor, PromoteMayStart
<1>2. PICK p \in {"collect", "release"} : promote' = [promote EXCEPT ![r] = p]
  BY DEF BuildComponentDescriptor, GoPromote
<1>3. p \in PromoteStep
  BY <1>2 DEF PromoteStep
<1>4. promote' \in [Runs -> PromoteStep] /\ \A q \in Runs \ {r} : promote'[q] = promote[q]
  BY <1>2, <1>3 DEF TypeOK
<1>5. descriptor' \in [Runs -> (SUBSET Flavours) \cup {Nil}]
  <2>1. {f \in Flavours : singles[f] # Nil} \in SUBSET Flavours
    OBVIOUS
  <2>2. descriptor \in [Runs -> (SUBSET Flavours) \cup {Nil}]
    BY DEF TypeOK
  <2> QED
    BY <2>1, <2>2 DEF BuildComponentDescriptor
<1>6. todo' \in [Runs -> SUBSET Flavours]
  <2>1. todo \in [Runs -> SUBSET Flavours]
    BY DEF TypeOK
  <2> QED
    BY <2>1 DEF BuildComponentDescriptor
<1> QED
  BY <1>1, <1>4, <1>5, <1>6 DEF BuildComponentDescriptor, PromoteMoves, bucket, TypeOK

LEMMA CollectReleaseMoves ==
    ASSUME TypeInv, NEW r \in Runs, NEW f \in Flavours, CollectRelease(r, f)
    PROVE  PromoteMoves(r)
<1> USE DEF TypeInv
<1>1. phase[r] = "tasks"
  BY PromoteIsActive DEF CollectRelease, Idle
<1>2. found' = [found EXCEPT ![r][f] = singles[f]] /\ singles[f] \in Manifest \cup {Nil}
  BY DEF CollectRelease, TypeOK
<1>3. found' \in [Runs -> [Flavours -> Manifest \cup {Nil}]]
  BY <1>2, SetFound
<1>4. todo' \in [Runs -> SUBSET Flavours]
  <2>1. todo \in [Runs -> SUBSET Flavours]
    BY DEF TypeOK
  <2> QED
    BY <2>1 DEF CollectRelease
<1> QED
  BY <1>1, <1>3, <1>4 DEF CollectRelease, PromoteMoves, bucket, outside, TypeOK

\* What a failed or finished promotion leaves of the manifests it had collected.
LEMMA FoundNothing ==
    ASSUME TypeOK, NEW r \in Runs, found' = [found EXCEPT ![r] = [f \in Flavours |-> Nil]]
    PROVE  found' \in [Runs -> [Flavours -> Manifest \cup {Nil}]]
<1>1. found \in [Runs -> [Flavours -> Manifest \cup {Nil}]]
  BY DEF TypeOK
<1> QED
  BY <1>1

LEMMA PromoteSetMoves ==
    ASSUME TypeInv, NEW r \in Runs, PromoteSet(r)
    PROVE  PromoteMoves(r)
<1> USE DEF TypeInv
<1> DEFINE key == SetKeyOf(kind[r], clock)
           made == [manifests |-> found[r], logs |-> {}]
<1>1. phase[r] = "tasks"
  BY PromoteIsActive DEF UploadReleaseManifestSet, PromoteSet, Idle
<1>2. PICK p \in {"failed", "release"} : promote' = [promote EXCEPT ![r] = p]
  BY DEF UploadReleaseManifestSet, PromoteSet, GoPromote
<1>3. p \in PromoteStep
  BY <1>2 DEF PromoteStep, Idle
<1>4. promote' \in [Runs -> PromoteStep] /\ \A q \in Runs \ {r} : promote'[q] = promote[q]
  BY <1>2, <1>3 DEF TypeOK
<1>5. found' \in [Runs -> [Flavours -> Manifest \cup {Nil}]]
  BY FoundNothing DEF UploadReleaseManifestSet, PromoteSet
<1>6. key \in SetKeys
  BY KeysInRange DEF TypeOK
<1>7. made \in ManifestSet
  <2>1. found[r] \in [Flavours -> Manifest \cup {Nil}]
    BY DEF TypeOK
  <2> QED
    BY <2>1 DEF ManifestSet
<1>8. \/ UNCHANGED <<sets, setKey>>
      \/ /\ sets' = [sets EXCEPT ![key] = made]
         /\ setKey' = [setKey EXCEPT ![r] = key]
  BY DEF UploadReleaseManifestSet, PromoteSet
<1> HIDE DEF key, made
<1>9. /\ sets' \in [SetKeys -> ManifestSet \cup {Nil}]
      /\ setKey' \in [Runs -> SetKeys \cup {Nil}] /\ \A q \in Runs \ {r} : setKey'[q] = setKey[q]
  <2>1. sets \in [SetKeys -> ManifestSet \cup {Nil}] /\ setKey \in [Runs -> SetKeys \cup {Nil}]
    BY DEF TypeOK
  <2> QED
    BY <1>6, <1>7, <1>8, <2>1
<1> QED
  BY <1>1, <1>4, <1>5, <1>9 DEF UploadReleaseManifestSet, PromoteSet, PromoteMoves, outside,
     TypeOK

LEMMA ReleaseStepMoves ==
    ASSUME TypeInv, NEW r \in Runs, ReleaseStep(r)
    PROVE  PromoteMoves(r)
<1> USE DEF TypeInv
<1>1. phase[r] = "tasks"
  BY PromoteIsActive DEF ReleaseStep, Idle
<1>2. PICK p \in {"failed", "done"} : promote' = [promote EXCEPT ![r] = p]
  BY DEF ReleaseStep, GoPromote
<1>3. p \in PromoteStep
  BY <1>2 DEF PromoteStep, Idle
<1>4. promote' \in [Runs -> PromoteStep] /\ \A q \in Runs \ {r} : promote'[q] = promote[q]
  BY <1>2, <1>3 DEF TypeOK
<1> QED
  BY <1>1, <1>4 DEF ReleaseStep, PromoteMoves, bucket, outside, TypeOK

LEMMA PromoteFailsMoves ==
    ASSUME TypeInv, NEW r \in Runs, PromoteFails(r)
    PROVE  PromoteMoves(r)
<1> USE DEF TypeInv
<1>1. phase[r] = "tasks"
  BY PromoteIsActive DEF PromoteFails
<1>2. "failed" \in PromoteStep
  BY DEF PromoteStep, Idle
<1>3. promote' \in [Runs -> PromoteStep] /\ \A q \in Runs \ {r} : promote'[q] = promote[q]
  BY <1>2 DEF PromoteFails, GoPromote, TypeOK
<1>4. found' \in [Runs -> [Flavours -> Manifest \cup {Nil}]]
  BY FoundNothing DEF PromoteFails
<1>5. setKey' \in [Runs -> SetKeys \cup {Nil}] /\ \A q \in Runs \ {r} : setKey'[q] = setKey[q]
  BY DEF PromoteFails, TypeOK
<1>6. todo' \in [Runs -> SUBSET Flavours]
  <2>1. todo \in [Runs -> SUBSET Flavours]
    BY DEF TypeOK
  <2> QED
    BY <2>1 DEF PromoteFails
<1> QED
  BY <1>1, <1>3, <1>4, <1>5, <1>6 DEF PromoteFails, PromoteMoves, bucket, outside, TypeOK

LEMMA PromoteKeepsTypes ==
    ASSUME TypeInv, NEW r \in Runs, PromoteTask(r)
    PROVE  TypeInv'
<1>1. PromoteMoves(r)
  BY BuildComponentDescriptorMoves, CollectReleaseMoves, PromoteSetMoves, ReleaseStepMoves,
     PromoteFailsMoves DEF PromoteTask
<1> QED
  BY <1>1, PromoteMovesKeepTypes

(* The task under finally.                                                   *)

NotifyMoves(r) ==
    /\ \A f \in Flavours : build[r][f] \in Idle /\ test[r][f] \in Idle
    /\ promote[r] \in Idle
    /\ phase' \in [Runs -> Phase] /\ \A q \in Runs \ {r} : phase'[q] = phase[q]
    /\ phase'[r] \in {"attach_singles", "attach_set", "done", "failed"}
    /\ attaching' \in [Runs -> Flavours \cup {Nil}]
    /\ \A q \in Runs \ {r} : attaching'[q] = attaching[q]
    /\ attaching'[r] # Nil => phase'[r] = "attach_singles"
    /\ held' \in [Runs -> [Flavours -> Manifest \cup {Nil}]]
    /\ \A q \in Runs \ {r} : held'[q] = held[q]
    /\ \A f \in Flavours : attaching'[r] = f => held'[r][f] \in Manifest
    /\ logKey' \in [Runs -> LogObjects \cup {Nil}]
    /\ \A q \in Runs \ {r} : logKey'[q] = logKey[q]
    /\ phase'[r] \in {"attach_singles", "attach_set"} => logKey'[r] \in LogObjects
    /\ heldSet' \in [Runs -> ManifestSet \cup {Nil}]
    /\ \A q \in Runs \ {r} : heldSet'[q] = heldSet[q]
    /\ phase'[r] = "attach_set" => heldSet'[r] \in ManifestSet /\ setKey[r] \in SetKeys
    /\ objects' \subseteq ImageObjects \cup LogObjects
    /\ singles' \in [Flavours -> Manifest \cup {Nil}]
    /\ sets' \in [SetKeys -> ManifestSet \cup {Nil}]
    /\ todo' \in [Runs -> SUBSET Flavours]
    /\ UNCHANGED <<clock, outside, given, buildPc, test, promotePc>>

LEMMA NotifyMovesKeepTypes ==
    ASSUME TypeInv, NEW r \in Runs, NotifyMoves(r)
    PROVE  TypeInv'
<1> USE DEF TypeInv, NotifyMoves, outside, given, buildPc, promotePc
<1>1. TypeOK'
  BY DEF TypeOK
<1>2. Scheduling'
  <2>1. ASSUME NEW q \in Runs, NEW g \in Flavours
        PROVE  /\ build'[q][g] # "done" => test'[q][g] = "pending"
               /\ phase'[q] # "tasks" => build'[q][g] \in Idle /\ test'[q][g] \in Idle
    BY DEF Scheduling
  <2>2. ASSUME NEW q \in Runs
        PROVE  /\ phase'[q] # "tasks" => promote'[q] \in Idle
               /\ attaching'[q] # Nil => phase'[q] = "attach_singles"
    BY DEF Scheduling
  <2> QED
    BY <2>1, <2>2 DEF Scheduling
<1>3. Holding'
  <2>1. ASSUME NEW q \in Runs, NEW g \in Flavours
        PROVE  /\ build'[q][g] \in {"upload_objects", "publish_oci", "upload_manifest"} =>
                    output'[q][g] \in Contents
               /\ build'[q][g] \in {"publish", "persist"} => held'[q][g] \in Manifest
    BY DEF Holding, Idle
  <2>2. ASSUME NEW q \in Runs, NEW g \in Flavours
        PROVE  /\ test'[q][g] = "upload_result" => held'[q][g] \in Manifest
               /\ attaching'[q] = g => held'[q][g] \in Manifest
    BY DEF Holding, Idle
  <2>3. ASSUME NEW q \in Runs
        PROVE  /\ phase'[q] \in {"attach_singles", "attach_set"} => logKey'[q] \in LogObjects
               /\ phase'[q] = "attach_set" => heldSet'[q] \in ManifestSet /\ setKey'[q] \in SetKeys
    BY DEF Holding
  <2> QED
    BY <2>1, <2>2, <2>3 DEF Holding
<1> QED
  BY <1>1, <1>2, <1>3

\* Nothing else runs of a run that attaches its logs.
LEMMA NotifyIsAlone ==
    ASSUME TypeInv, NEW r \in Runs, Settled(r) \/ phase[r] \in {"attach_singles", "attach_set"}
    PROVE  /\ \A f \in Flavours : build[r][f] \in Idle /\ test[r][f] \in Idle
           /\ promote[r] \in Idle
           /\ phase[r] \notin {"attach_singles", "attach_set"} => attaching[r] = Nil
BY DEF TypeInv, Scheduling, Settled

LEMMA UploadLogsMoves ==
    ASSUME TypeInv, NEW r \in Runs, UploadLogs(r)
    PROVE  NotifyMoves(r)
<1> USE DEF TypeInv
<1>1. /\ \A f \in Flavours : build[r][f] \in Idle /\ test[r][f] \in Idle
      /\ promote[r] \in Idle /\ attaching[r] = Nil
  BY NotifyIsAlone DEF UploadLogArchive, BuildResults, UploadLogs, Settled
<1>2. PICK p \in {"attach_singles", "done"} : phase' = [phase EXCEPT ![r] = p]
  BY DEF UploadLogArchive, BuildResults, UploadLogs, GoPhase
<1>3. /\ phase' \in [Runs -> Phase] /\ \A q \in Runs \ {r} : phase'[q] = phase[q]
      /\ phase'[r] = p
  BY <1>2 DEF TypeOK, Phase
<1>4. LogObject(clock) \in LogObjects
  BY KeysInRange DEF TypeOK
<1>5. /\ logKey' \in [Runs -> LogObjects \cup {Nil}]
      /\ \A q \in Runs \ {r} : logKey'[q] = logKey[q]
      /\ logKey'[r] \in LogObjects
  BY <1>4 DEF UploadLogArchive, BuildResults, UploadLogs, TypeOK
<1>6. todo' \in [Runs -> SUBSET Flavours]
  <2>1. todo \in [Runs -> SUBSET Flavours] /\ {f \in Flavours : result[r][f]} \in SUBSET Flavours
    BY DEF TypeOK
  <2> QED
    BY <2>1 DEF UploadLogArchive, BuildResults, UploadLogs
<1>7. objects' \subseteq ImageObjects \cup LogObjects
  BY <1>4 DEF UploadLogArchive, BuildResults, UploadLogs, TypeOK
<1>8. \A f \in Flavours : f # Nil
  BY ConstantsAssumption
<1> QED
  BY <1>1, <1>2, <1>3, <1>5, <1>6, <1>7, <1>8 DEF UploadLogArchive, BuildResults, UploadLogs,
     NotifyMoves, TypeOK

LEMMA AttachReadMoves ==
    ASSUME TypeInv, NEW r \in Runs, NEW f \in Flavours, AttachRead(r, f)
    PROVE  NotifyMoves(r)
<1> USE DEF TypeInv
<1>1. /\ \A g \in Flavours : build[r][g] \in Idle /\ test[r][g] \in Idle
      /\ promote[r] \in Idle
  BY NotifyIsAlone DEF AttachRead
<1>2. logKey[r] \in LogObjects /\ singles[f] \in Manifest
  BY DEF AttachRead, Holding, TypeOK
<1>3. WithLogfile(singles[f], r) \in Manifest
  BY <1>2, ManifestUpdates DEF WithLogfile
<1>4. held' = [held EXCEPT ![r][f] = WithLogfile(singles[f], r)]
  BY DEF AttachRead
<1>5. /\ held' \in [Runs -> [Flavours -> Manifest \cup {Nil}]]
      /\ Elsewhere(held, held', r, f) /\ held'[r][f] \in Manifest
  BY <1>3, <1>4, SetHeld
<1>6. \A q \in Runs \ {r} : held'[q] = held[q]
  BY <1>4 DEF TypeOK
<1>7. /\ attaching' \in [Runs -> Flavours \cup {Nil}] /\ attaching'[r] = f
      /\ \A q \in Runs \ {r} : attaching'[q] = attaching[q]
  BY DEF AttachRead, TypeOK
<1> QED
  BY <1>1, <1>2, <1>5, <1>6, <1>7 DEF AttachRead, NotifyMoves, bucket, TypeOK

LEMMA AttachWriteMoves ==
    ASSUME TypeInv, NEW r \in Runs, NEW f \in Flavours, AttachWrite(r, f)
    PROVE  NotifyMoves(r)
<1> USE DEF TypeInv
<1>1. /\ \A g \in Flavours : build[r][g] \in Idle /\ test[r][g] \in Idle
      /\ promote[r] \in Idle
  BY NotifyIsAlone DEF UploadReleaseManifest, AttachWrite
<1>2. logKey[r] \in LogObjects /\ held[r][f] \in Manifest
  BY DEF UploadReleaseManifest, AttachWrite, Holding
<1>3. held' = [held EXCEPT ![r][f] = Nil]
  BY DEF UploadReleaseManifest, AttachWrite, Drop
<1>4. held' \in [Runs -> [Flavours -> Manifest \cup {Nil}]]
  BY <1>3, SetHeld
<1>5. \A q \in Runs \ {r} : held'[q] = held[q]
  BY <1>3 DEF TypeOK
<1>6. /\ attaching' \in [Runs -> Flavours \cup {Nil}] /\ attaching'[r] = Nil
      /\ \A q \in Runs \ {r} : attaching'[q] = attaching[q]
  BY DEF UploadReleaseManifest, AttachWrite, TypeOK
<1>7. singles' \in [Flavours -> Manifest \cup {Nil}]
  BY <1>2 DEF UploadReleaseManifest, AttachWrite, TypeOK
<1>8. todo' \in [Runs -> SUBSET Flavours]
  <2>1. todo \in [Runs -> SUBSET Flavours]
    BY DEF TypeOK
  <2> QED
    BY <2>1 DEF UploadReleaseManifest, AttachWrite
<1>9. \A g \in Flavours : g # Nil
  BY ConstantsAssumption
<1> QED
  BY <1>1, <1>2, <1>4, <1>5, <1>6, <1>7, <1>8, <1>9 DEF UploadReleaseManifest, AttachWrite,
     NotifyMoves, TypeOK

LEMMA FetchSetMoves ==
    ASSUME TypeInv, NEW r \in Runs, FetchSet(r)
    PROVE  NotifyMoves(r)
<1> USE DEF TypeInv
<1> DEFINE fetched == [sets[setKey[r]] EXCEPT !.logs = @ \cup {logKey[r]}]
<1>1. /\ \A g \in Flavours : build[r][g] \in Idle /\ test[r][g] \in Idle
      /\ promote[r] \in Idle
  BY NotifyIsAlone DEF ReleaseManifestSet, FetchSet
<1>2. logKey[r] \in LogObjects
  BY DEF ReleaseManifestSet, FetchSet, Holding
<1>3. \A g \in Flavours : g # Nil
  BY ConstantsAssumption
<1>4. CASE phase' = [phase EXCEPT ![r] = "done"] /\ UNCHANGED <<todo, heldSet>>
  <2>1. /\ phase' \in [Runs -> Phase] /\ \A q \in Runs \ {r} : phase'[q] = phase[q]
        /\ phase'[r] = "done"
    BY <1>4 DEF TypeOK, Phase
  <2> QED
    BY <1>1, <1>2, <1>3, <1>4, <2>1 DEF ReleaseManifestSet, FetchSet, NotifyMoves, bucket,
       TypeOK
<1>5. CASE /\ setKey[r] # Nil /\ sets[setKey[r]] # Nil
           /\ phase' = [phase EXCEPT ![r] = "attach_set"]
           /\ todo' = [todo EXCEPT ![r] = Flavours]
           /\ heldSet' = [heldSet EXCEPT ![r] = fetched]
  <2>1. /\ phase' \in [Runs -> Phase] /\ \A q \in Runs \ {r} : phase'[q] = phase[q]
        /\ phase'[r] = "attach_set"
    BY <1>5 DEF TypeOK, Phase
  <2>2. setKey[r] \in SetKeys /\ sets[setKey[r]] \in ManifestSet
    BY <1>5 DEF TypeOK
  <2>3. fetched \in ManifestSet
    BY <1>2, <2>2, SetUpdates
  <2> HIDE DEF fetched
  <2>4. /\ heldSet' \in [Runs -> ManifestSet \cup {Nil}]
        /\ \A q \in Runs \ {r} : heldSet'[q] = heldSet[q]
        /\ heldSet'[r] \in ManifestSet
    BY <1>5, <2>3 DEF TypeOK
  <2>5. todo' \in [Runs -> SUBSET Flavours]
    BY <1>5 DEF TypeOK
  <2> QED
    BY <1>1, <1>2, <1>3, <2>1, <2>2, <2>4, <2>5 DEF ReleaseManifestSet, FetchSet,
       NotifyMoves, bucket, TypeOK
<1> QED
  BY <1>4, <1>5 DEF ReleaseManifestSet, FetchSet, GoPhase

LEMMA CollectLogMoves ==
    ASSUME TypeInv, NEW r \in Runs, NEW f \in Flavours, CollectLog(r, f)
    PROVE  NotifyMoves(r)
<1> USE DEF TypeInv
<1>1. /\ \A g \in Flavours : build[r][g] \in Idle /\ test[r][g] \in Idle
      /\ promote[r] \in Idle
  BY NotifyIsAlone DEF CollectLog
<1>2. logKey[r] \in LogObjects /\ heldSet[r] \in ManifestSet /\ setKey[r] \in SetKeys
  BY DEF CollectLog, Holding
<1>3. attaching[r] = Nil /\ \A g \in Flavours : g # Nil
  BY ConstantsAssumption DEF CollectLog, Scheduling
<1>4. todo' \in [Runs -> SUBSET Flavours]
  <2>1. todo \in [Runs -> SUBSET Flavours]
    BY DEF TypeOK
  <2> QED
    BY <2>1 DEF CollectLog
<1>5. PICK s \in ManifestSet : heldSet' = [heldSet EXCEPT ![r] = s]
  <2>0. heldSet \in [Runs -> ManifestSet \cup {Nil}] /\ singles \in [Flavours -> Manifest \cup {Nil}]
    BY DEF TypeOK
  <2>1. CASE UNCHANGED heldSet
    <3>1. heldSet' = [heldSet EXCEPT ![r] = heldSet[r]]
      BY <2>0, <2>1
    <3> QED
      BY <1>2, <3>1
  <2>2. CASE /\ singles[f] # Nil /\ singles[f].log # Nil
             /\ heldSet' = [heldSet EXCEPT ![r].logs = @ \cup {singles[f].log}]
    <3>1. singles[f].log \in LogObjects
      BY <2>0, <2>2 DEF Manifest
    <3>2. [heldSet[r] EXCEPT !.logs = heldSet[r].logs \cup {singles[f].log}] \in ManifestSet
      BY <1>2, <3>1, SetUpdates
    <3> QED
      BY <2>2, <3>2
  <2> QED
    BY <2>1, <2>2 DEF CollectLog
<1>6. /\ heldSet' \in [Runs -> ManifestSet \cup {Nil}]
      /\ \A q \in Runs \ {r} : heldSet'[q] = heldSet[q]
      /\ heldSet'[r] \in ManifestSet
  BY <1>5 DEF TypeOK
<1> QED
  BY <1>1, <1>2, <1>3, <1>4, <1>6 DEF CollectLog, NotifyMoves, bucket, TypeOK

LEMMA AttachSetMoves ==
    ASSUME TypeInv, NEW r \in Runs, AttachSet(r)
    PROVE  NotifyMoves(r)
<1> USE DEF TypeInv
<1>1. /\ \A g \in Flavours : build[r][g] \in Idle /\ test[r][g] \in Idle
      /\ promote[r] \in Idle
  BY NotifyIsAlone DEF UploadReleaseManifestSet, AttachSet
<1>2. heldSet[r] \in ManifestSet /\ setKey[r] \in SetKeys
  BY DEF UploadReleaseManifestSet, AttachSet, Holding
<1>3. attaching[r] = Nil /\ \A g \in Flavours : g # Nil
  BY ConstantsAssumption DEF UploadReleaseManifestSet, AttachSet, Scheduling
<1>4. /\ phase' \in [Runs -> Phase] /\ \A q \in Runs \ {r} : phase'[q] = phase[q]
      /\ phase'[r] = "done"
  BY DEF UploadReleaseManifestSet, AttachSet, GoPhase, TypeOK, Phase
<1>5. /\ heldSet' \in [Runs -> ManifestSet \cup {Nil}]
      /\ \A q \in Runs \ {r} : heldSet'[q] = heldSet[q]
  BY DEF UploadReleaseManifestSet, AttachSet, TypeOK
<1>6. sets' \in [SetKeys -> ManifestSet \cup {Nil}]
  BY <1>2 DEF UploadReleaseManifestSet, AttachSet, TypeOK
<1> QED
  BY <1>1, <1>3, <1>4, <1>5, <1>6 DEF UploadReleaseManifestSet, AttachSet, NotifyMoves, TypeOK

LEMMA NotifyFailsMoves ==
    ASSUME TypeInv, NEW r \in Runs, NotifyFails(r)
    PROVE  NotifyMoves(r)
<1> USE DEF TypeInv
<1>1. /\ \A g \in Flavours : build[r][g] \in Idle /\ test[r][g] \in Idle
      /\ promote[r] \in Idle
  BY NotifyIsAlone DEF NotifyFails
<1>2. \A g \in Flavours : g # Nil
  BY ConstantsAssumption
<1>3. /\ phase' \in [Runs -> Phase] /\ \A q \in Runs \ {r} : phase'[q] = phase[q]
      /\ phase'[r] = "failed"
  BY DEF NotifyFails, GoPhase, TypeOK, Phase
<1>4. /\ heldSet' \in [Runs -> ManifestSet \cup {Nil}]
      /\ \A q \in Runs \ {r} : heldSet'[q] = heldSet[q]
  BY DEF NotifyFails, TypeOK
<1>5. /\ attaching' \in [Runs -> Flavours \cup {Nil}] /\ attaching'[r] = Nil
      /\ \A q \in Runs \ {r} : attaching'[q] = attaching[q]
  BY DEF NotifyFails, TypeOK
<1>6. /\ held' \in [Runs -> [Flavours -> Manifest \cup {Nil}]]
      /\ \A q \in Runs \ {r} : held'[q] = held[q]
  <2>1. held \in [Runs -> [Flavours -> Manifest \cup {Nil}]]
    BY DEF TypeOK
  <2> QED
    BY <2>1 DEF NotifyFails
<1>7. todo' \in [Runs -> SUBSET Flavours]
  BY DEF NotifyFails, TypeOK
<1> QED
  BY <1>1, <1>2, <1>3, <1>4, <1>5, <1>6, <1>7 DEF NotifyFails, NotifyMoves, bucket, TypeOK

LEMMA NotifyKeepsTypes ==
    ASSUME TypeInv, NEW r \in Runs, NotifyTask(r)
    PROVE  TypeInv'
<1>1. NotifyMoves(r)
  BY UploadLogsMoves, AttachReadMoves, AttachWriteMoves, FetchSetMoves, CollectLogMoves,
     AttachSetMoves, NotifyFailsMoves DEF NotifyTask
<1> QED
  BY <1>1, NotifyMovesKeepTypes

(* Starting a run, the clock, and the type invariant.                        *)

LEMMA StartRunKeepsTypes ==
    ASSUME TypeInv, NEW r \in Runs, StartRun(r)
    PROVE  TypeInv'
<1> USE DEF TypeInv, bucket, outside, buildPc, promotePc, notifyPc
<1>1. PICK ts \in TargetSets, k \in Kinds, b \in {"done", "failed"} :
            /\ targets' = [targets EXCEPT ![r] = ts]
            /\ kind' = [kind EXCEPT ![r] = k]
            /\ base' = [base EXCEPT ![r] = b]
  BY DEF StartRun
<1>2. ts \in SUBSET BuildTarget /\ k \in Kind
  BY ConstantsAssumption
<1>3. /\ phase' \in [Runs -> Phase] /\ \A q \in Runs \ {r} : phase'[q] = phase[q]
      /\ phase[r] = "idle" /\ phase'[r] = "tasks"
  BY DEF StartRun, TypeOK, Phase
<1>4. TypeOK'
  <2>1. /\ targets' \in [Runs -> SUBSET BuildTarget] /\ kind' \in [Runs -> Kind]
        /\ base' \in [Runs -> {"pending", "done", "failed"}]
    BY <1>1, <1>2 DEF TypeOK
  <2> QED
    BY <1>3, <2>1 DEF StartRun, TypeOK
<1>5. Scheduling'
  BY <1>3 DEF StartRun, Scheduling
<1>6. Holding'
  BY <1>3 DEF StartRun, Holding
<1> QED
  BY <1>4, <1>5, <1>6

LEMMA TickKeepsTypes ==
    ASSUME TypeInv, Tick
    PROVE  TypeInv'
<1> USE DEF TypeInv, bucket, outside, given, buildPc, promotePc, notifyPc, Tick
<1>1. clock' \in Time
  BY ConstantsAssumption DEF TypeOK, Time
<1>2. TypeOK'
  BY <1>1 DEF TypeOK
<1>3. Scheduling' /\ Holding'
  BY DEF Scheduling, Holding
<1> QED
  BY <1>2, <1>3

LEMMA StutterKeepsTypes ==
    ASSUME TypeInv, UNCHANGED vars
    PROVE  TypeInv'
BY DEF TypeInv, TypeOK, Scheduling, Holding, vars, bucket, outside, given, buildPc, promotePc,
       notifyPc

LEMMA InitTypes == Init => TypeInv
<1> SUFFICES ASSUME Init
             PROVE  TypeInv
  OBVIOUS
<1>1. TypeOK
  <2>1. 0 \in Time
    BY ConstantsAssumption DEF Time
  <2> QED
    BY <2>1 DEF Init, TypeOK, Phase, Kind, BuildStep, TestStep, PromoteStep, Idle
<1>2. Scheduling
  BY DEF Init, Scheduling, Idle
<1>3. Holding
  BY ConstantsAssumption DEF Init, Holding
<1> QED
  BY <1>1, <1>2, <1>3 DEF TypeInv

LEMMA StepKeepsTypes == TypeInv /\ [Next]_vars => TypeInv'
<1> SUFFICES ASSUME TypeInv, [Next]_vars
             PROVE  TypeInv'
  OBVIOUS
<1>1. CASE Tick
  BY <1>1, TickKeepsTypes
<1>2. ASSUME NEW r \in Runs, StartRun(r) \/ RunStep(r)
      PROVE  TypeInv'
  BY <1>2, StartRunKeepsTypes, BuildKeepsTypes, TestKeepsTypes, PromoteKeepsTypes,
     NotifyKeepsTypes DEF RunStep
<1>3. CASE UNCHANGED vars
  BY <1>3, StutterKeepsTypes
<1> QED
  BY <1>1, <1>2, <1>3 DEF Next

\* Every variable of the pipeline keeps its type, whatever the number of runs and
\* flavours and whichever of their steps fail.
THEOREM TypeCorrect == Spec => []TypeOK
<1>1. TypeInv => TypeOK
  BY DEF TypeInv
<1> QED
  BY InitTypes, StepKeepsTypes, <1>1, PTL DEF Spec

(* No document names a file that is not there.  A document reaches the bucket *)
(* by way of the memory of some step, so the copies held there are covered too.*)

Sound(f, m, present) == m # Nil => References(f, m) \subseteq present

SoundSet(s, present) ==
    s # Nil => /\ s.logs \subseteq present
               /\ \A f \in Flavours : /\ s.manifests[f] # Nil
                                      /\ Sound(f, s.manifests[f], present)

Copies ==
    /\ \A f \in Flavours : Sound(f, singles[f], objects)
    /\ \A r \in Runs, f \in Flavours : /\ Sound(f, held[r][f], objects)
                                       /\ Sound(f, found[r][f], objects)
    /\ \A k \in SetKeys : SoundSet(sets[k], objects)
    /\ \A r \in Runs : /\ SoundSet(heldSet[r], objects)
                       /\ logKey[r] # Nil => logKey[r] \in objects
    /\ \A r \in Runs, f \in Flavours :
          build[r][f] \in {"publish_oci", "upload_manifest"} => ImageObject(f, output[r][f]) \in objects

LEMMA SoundGrows ==
    ASSUME NEW f, NEW m, NEW A, NEW B, A \subseteq B, Sound(f, m, A)
    PROVE  Sound(f, m, B)
BY DEF Sound

LEMMA SoundSetGrows ==
    ASSUME NEW s, NEW A, NEW B, A \subseteq B, SoundSet(s, A)
    PROVE  SoundSet(s, B)
BY SoundGrows DEF SoundSet

LEMMA NothingIsSound ==
    ASSUME NEW A
    PROVE  SoundSet(Nil, A) /\ \A f \in Flavours : Sound(f, Nil, A)
BY DEF Sound, SoundSet

\* Amending a manifest does not change what it refers to, but for its log archive.
LEMMA AmendedIsSound ==
    ASSUME NEW m \in Manifest, NEW f, NEW A, Sound(f, m, A)
    PROVE  /\ \A p : Sound(f, [m EXCEPT !.pub = p], A)
           /\ \A t : Sound(f, [m EXCEPT !.test = t], A)
           /\ \A l \in A : Sound(f, [m EXCEPT !.log = l], A)
<1>1. m # Nil
  BY NoDocumentIsNil
<1>2. \A p : [m EXCEPT !.pub = p].content = m.content /\ [m EXCEPT !.pub = p].log = m.log
  BY DEF Manifest
<1>3. \A t : [m EXCEPT !.test = t].content = m.content /\ [m EXCEPT !.test = t].log = m.log
  BY DEF Manifest
<1>4. \A l : [m EXCEPT !.log = l].content = m.content /\ [m EXCEPT !.log = l].log = l
  BY DEF Manifest
<1> QED
  BY <1>1, <1>2, <1>3, <1>4 DEF Sound, References

\* A step is harmless if all it changes in documents and copies is sound.
Harmless ==
    /\ objects \subseteq objects'
    /\ \A f \in Flavours : singles'[f] = singles[f] \/ Sound(f, singles'[f], objects')
    /\ \A r \in Runs, f \in Flavours :
          /\ held'[r][f] = held[r][f] \/ Sound(f, held'[r][f], objects')
          /\ found'[r][f] = found[r][f] \/ Sound(f, found'[r][f], objects')
          /\ build'[r][f] \in {"publish_oci", "upload_manifest"} =>
                \/ build[r][f] \in {"publish_oci", "upload_manifest"} /\ output'[r][f] = output[r][f]
                \/ ImageObject(f, output'[r][f]) \in objects'
    /\ \A k \in SetKeys : sets'[k] = sets[k] \/ SoundSet(sets'[k], objects')
    /\ \A r \in Runs : /\ heldSet'[r] = heldSet[r] \/ SoundSet(heldSet'[r], objects')
                       /\ logKey'[r] = logKey[r] \/ logKey'[r] \in objects'

LEMMA HarmlessSteps ==
    ASSUME Copies, Harmless
    PROVE  Copies'
<1>1. \A f \in Flavours : Sound(f, singles[f], objects)'
  BY SoundGrows DEF Copies, Harmless
<1>2. \A r \in Runs, f \in Flavours :
         (Sound(f, held[r][f], objects) /\ Sound(f, found[r][f], objects))'
  BY SoundGrows DEF Copies, Harmless
<1>3. \A k \in SetKeys : SoundSet(sets[k], objects)'
  BY SoundSetGrows DEF Copies, Harmless
<1>4. \A r \in Runs : SoundSet(heldSet[r], objects)'
  BY SoundSetGrows DEF Copies, Harmless
<1>5. \A r \in Runs : (logKey[r] # Nil => logKey[r] \in objects)'
  BY DEF Copies, Harmless
<1>6. \A r \in Runs, f \in Flavours :
         (build[r][f] \in {"publish_oci", "upload_manifest"} => ImageObject(f, output[r][f]) \in objects)'
  BY DEF Copies, Harmless
<1> QED
  BY <1>1, <1>2, <1>3, <1>4, <1>5, <1>6 DEF Copies

\* It is enough to look at what a build task does to the bucket and to its own entries.
LEMMA HarmlessBuild ==
    ASSUME TypeInv, NEW r \in Runs, NEW f \in Flavours, BuildMoves(r, f),
           objects \subseteq objects',
           \A g \in Flavours : singles'[g] = singles[g] \/ Sound(g, singles'[g], objects'),
           held'[r][f] = held[r][f] \/ Sound(f, held'[r][f], objects'),
           build'[r][f] \in {"publish_oci", "upload_manifest"} => ImageObject(f, output'[r][f]) \in objects'
    PROVE  Harmless
<1>1. \A q \in Runs, g \in Flavours :
         /\ held'[q][g] = held[q][g] \/ Sound(g, held'[q][g], objects')
         /\ build'[q][g] \in {"publish_oci", "upload_manifest"} =>
                \/ build[q][g] \in {"publish_oci", "upload_manifest"} /\ output'[q][g] = output[q][g]
                \/ ImageObject(g, output'[q][g]) \in objects'
  <2> SUFFICES ASSUME NEW q \in Runs, NEW g \in Flavours
               PROVE  /\ held'[q][g] = held[q][g] \/ Sound(g, held'[q][g], objects')
                      /\ build'[q][g] \in {"publish_oci", "upload_manifest"} =>
                             \/ build[q][g] \in {"publish_oci", "upload_manifest"} /\ output'[q][g] = output[q][g]
                             \/ ImageObject(g, output'[q][g]) \in objects'
    OBVIOUS
  <2>1. CASE q = r /\ g = f
    BY <2>1
  <2>2. CASE q # r \/ g # f
    BY <2>2 DEF BuildMoves, Elsewhere
  <2> QED
    BY <2>1, <2>2
<1>2. UNCHANGED <<found, sets, heldSet, logKey>>
  BY DEF BuildMoves
<1> QED
  BY <1>1, <1>2 DEF Harmless

LEMMA BuildKeepsCopies ==
    ASSUME TypeInv, Copies, NEW r \in Runs, NEW f \in Flavours, BuildTask(r, f)
    PROVE  Copies'
<1>1. CASE PreBuild(r, f)
  <2>1. BuildMoves(r, f)
    BY <1>1, PreBuildMoves
  <2>2. build'[r][f] \notin {"publish_oci", "upload_manifest"} /\ UNCHANGED <<objects, singles, held>>
    <3>1. build \in [Runs -> [Flavours -> BuildStep]]
      BY DEF TypeInv, TypeOK
    <3> QED
      BY <1>1, <3>1 DEF PreBuild, GoBuild, bucket
  <2> QED
    BY <2>1, <2>2, HarmlessBuild, HarmlessSteps
<1>2. CASE BuildImage(r, f)
  <2>1. BuildMoves(r, f)
    BY <1>2, BuildImageMoves
  <2>2. build'[r][f] \notin {"publish_oci", "upload_manifest"} /\ UNCHANGED <<objects, singles, held>>
    <3>1. build \in [Runs -> [Flavours -> BuildStep]]
      BY DEF TypeInv, TypeOK
    <3> QED
      BY <1>2, <3>1 DEF BuildImage, GoBuild, bucket
  <2> QED
    BY <2>1, <2>2, HarmlessBuild, HarmlessSteps
<1>3. CASE UploadObjects(r, f)
  <2>1. BuildMoves(r, f)
    BY <1>3, UploadObjectsMoves
  <2>2. /\ objects \subseteq objects' /\ UNCHANGED <<singles, held>>
        /\ ImageObject(f, output'[r][f]) \in objects'
    BY <1>3 DEF UploadObjects
  <2> QED
    BY <2>1, <2>2, HarmlessBuild, HarmlessSteps
<1>10. CASE PublishOci(r, f)
  <2>1. BuildMoves(r, f)
    BY <1>10, PublishOciMoves
  <2>2. /\ UNCHANGED <<objects, singles, held, output>>
        /\ ImageObject(f, output[r][f]) \in objects
    BY <1>10 DEF PublishOci, Copies, bucket
  <2> QED
    BY <2>1, <2>2, HarmlessBuild, HarmlessSteps
<1>4. CASE UploadManifest(r, f)
  <2> DEFINE m == FreshManifest(r, f)
  <2>1. BuildMoves(r, f)
    BY <1>4, UploadManifestMoves
  <2>2. ImageObject(f, output[r][f]) \in objects
    BY <1>4 DEF UploadReleaseManifest, UploadManifest, Copies
  <2>3. References(f, m) = {ImageObject(f, output[r][f])}
    BY DEF References, FreshManifest
  <2>4. Sound(f, m, objects)
    BY <2>2, <2>3 DEF Sound
  <2>5. singles' = [singles EXCEPT ![f] = m] /\ UNCHANGED <<objects, held>>
    BY <1>4 DEF UploadReleaseManifest, UploadManifest
  <2>6. singles \in [Flavours -> Manifest \cup {Nil}] /\ build \in [Runs -> [Flavours -> BuildStep]]
    BY DEF TypeInv, TypeOK
  <2> HIDE DEF m
  <2>7. \A g \in Flavours : singles'[g] = singles[g] \/ Sound(g, singles'[g], objects')
    BY <2>4, <2>5, <2>6
  <2>8. build'[r][f] \notin {"publish_oci", "upload_manifest"}
    BY <1>4, <2>6 DEF UploadReleaseManifest, UploadManifest, GoBuild
  <2> QED
    BY <2>1, <2>5, <2>7, <2>8, HarmlessBuild, HarmlessSteps
<1>5. CASE PromoteSingle(r, f)
  <2>1. BuildMoves(r, f)
    BY <1>5, PromoteSingleMoves
  <2>2. build'[r][f] \notin {"publish_oci", "upload_manifest"} /\ UNCHANGED <<objects, singles>>
    <3>1. build \in [Runs -> [Flavours -> BuildStep]]
      BY DEF TypeInv, TypeOK
    <3> QED
      BY <1>5, <3>1 DEF PromoteSingle, GoBuild, bucket
  <2>3. held'[r][f] = held[r][f] \/ Sound(f, held'[r][f], objects')
    <3>1. CASE UNCHANGED held
      BY <3>1
    <3>2. CASE singles[f] # Nil /\ held' = [held EXCEPT ![r][f] = Prepared(f)]
      <4>1. singles[f] \in Manifest
        BY <3>2 DEF TypeInv, TypeOK
      <4>2. Sound(f, singles[f], objects)
        BY DEF Copies
      <4>3. Sound(f, Prepared(f), objects)
        BY <4>1, <4>2, AmendedIsSound DEF Prepared
      <4>4. held'[r][f] = Prepared(f)
        BY <3>2 DEF TypeInv, TypeOK
      <4> QED
        BY <2>2, <4>3, <4>4
    <3> QED
      BY <1>5, <3>1, <3>2 DEF PromoteSingle
  <2> QED
    BY <2>1, <2>2, <2>3, HarmlessBuild, HarmlessSteps
<1>6. CASE PublishImage(r, f)
  <2>1. BuildMoves(r, f)
    BY <1>6, PublishImageMoves
  <2>2. build'[r][f] \notin {"publish_oci", "upload_manifest"} /\ UNCHANGED <<objects, singles>>
    <3>1. build \in [Runs -> [Flavours -> BuildStep]]
      BY DEF TypeInv, TypeOK
    <3> QED
      BY <1>6, <3>1 DEF PublishImage, GoBuild, bucket
  <2>3. held[r][f] \in Manifest /\ Sound(f, held[r][f], objects)
    BY <1>6 DEF PublishImage, TypeInv, Holding, Copies
  <2>4. held'[r][f] \in {held[r][f], [held[r][f] EXCEPT !.pub = r]}
    BY <1>6 DEF PublishImage, TypeInv, TypeOK
  <2>5. Sound(f, held'[r][f], objects')
    BY <2>2, <2>3, <2>4, AmendedIsSound
  <2> QED
    BY <2>1, <2>2, <2>5, HarmlessBuild, HarmlessSteps
<1>7. CASE PublishFails(r, f)
  <2>1. BuildMoves(r, f)
    BY <1>7, PublishFailsMoves
  <2>2. build'[r][f] \notin {"publish_oci", "upload_manifest"} /\ UNCHANGED <<objects, singles>>
    <3>1. build \in [Runs -> [Flavours -> BuildStep]]
      BY DEF TypeInv, TypeOK
    <3> QED
      BY <1>7, <3>1 DEF PublishFails, GoBuild, bucket
  <2>3. held'[r][f] = held[r][f] \/ held'[r][f] = Nil
    BY <1>7 DEF PublishFails, Drop, TypeInv, TypeOK
  <2> QED
    BY <2>1, <2>2, <2>3, NothingIsSound, HarmlessBuild, HarmlessSteps
<1>8. CASE PersistSingle(r, f)
  <2>1. BuildMoves(r, f)
    BY <1>8, PersistSingleMoves
  <2>2. build'[r][f] \notin {"publish_oci", "upload_manifest"} /\ UNCHANGED objects
    <3>1. build \in [Runs -> [Flavours -> BuildStep]]
      BY DEF TypeInv, TypeOK
    <3> QED
      BY <1>8, <3>1 DEF UploadReleaseManifest, PersistSingle, GoBuild
  <2>3. held'[r][f] = Nil
    BY <1>8 DEF UploadReleaseManifest, PersistSingle, Drop, TypeInv, TypeOK
  <2>4. \A g \in Flavours : singles'[g] = singles[g] \/ Sound(g, singles'[g], objects')
    BY <1>8, <2>2 DEF UploadReleaseManifest, PersistSingle, Copies, TypeInv, TypeOK
  <2> QED
    BY <2>1, <2>2, <2>3, <2>4, NothingIsSound, HarmlessBuild, HarmlessSteps
<1>9. CASE BuildFails(r, f)
  <2>1. BuildMoves(r, f)
    BY <1>9, BuildFailsMoves
  <2>2. build'[r][f] \notin {"publish_oci", "upload_manifest"} /\ UNCHANGED <<objects, singles>>
    <3>1. build \in [Runs -> [Flavours -> BuildStep]]
      BY DEF TypeInv, TypeOK
    <3> QED
      BY <1>9, <3>1 DEF BuildFails, GoBuild, bucket
  <2>3. held'[r][f] = Nil
    BY <1>9 DEF BuildFails, Drop, TypeInv, TypeOK
  <2> QED
    BY <2>1, <2>2, <2>3, NothingIsSound, HarmlessBuild, HarmlessSteps
<1> QED
  BY <1>1, <1>2, <1>3, <1>4, <1>5, <1>6, <1>7, <1>8, <1>9, <1>10 DEF BuildTask

LEMMA TestKeepsCopies ==
    ASSUME TypeInv, Copies, NEW r \in Runs, NEW f \in Flavours, TestTask(r, f)
    PROVE  Copies'
<1>1. held \in [Runs -> [Flavours -> Manifest \cup {Nil}]]
  BY DEF TypeInv, TypeOK
<1>2. UNCHANGED <<objects, sets, build, output, found, heldSet, logKey>>
  BY DEF UploadReleaseManifest, TestTask, PreCheckTests, RunTests, UploadTestResult,
     TestFails, bucket, buildPc, promotePc, notifyPc
<1>3. \A g \in Flavours : singles'[g] = singles[g] \/ Sound(g, singles'[g], objects')
  <2>1. CASE UNCHANGED singles
    BY <2>1
  <2>2. CASE UploadTestResult(r, f)
    BY <1>2, <2>2 DEF UploadReleaseManifest, UploadTestResult, Copies, TypeInv, TypeOK
  <2> QED
    BY <2>1, <2>2 DEF TestTask, PreCheckTests, RunTests, TestFails, bucket
<1>4. \A q \in Runs, g \in Flavours : held'[q][g] = held[q][g] \/ Sound(g, held'[q][g], objects')
  <2>1. CASE UNCHANGED held
    BY <2>1
  <2>2. CASE held' = [held EXCEPT ![r][f] = Nil]
    BY <1>1, <2>2, NothingIsSound
  <2>3. CASE RunTests(r, f) /\ singles[f] # Nil /\ "manifest" \in targets[r]
    <3>1. PICK res \in {"OK", "FAILED"} :
                 held' = [held EXCEPT ![r][f] = [singles[f] EXCEPT !.test = res]]
      BY <2>3 DEF RunTests
    <3>2. singles[f] \in Manifest /\ Sound(f, singles[f], objects)
      BY <2>3 DEF Copies, TypeInv, TypeOK
    <3>3. Sound(f, [singles[f] EXCEPT !.test = res], objects)
      BY <3>2, AmendedIsSound
    <3> DEFINE m == [singles[f] EXCEPT !.test = res]
    <3>4. held' = [held EXCEPT ![r][f] = m] /\ Sound(f, m, objects')
      BY <1>2, <3>1, <3>3
    <3> HIDE DEF m
    <3> QED
      BY <1>1, <3>4
  <2> QED
    BY <2>1, <2>2, <2>3 DEF UploadReleaseManifest, TestTask, PreCheckTests, RunTests,
       UploadTestResult, TestFails, Drop
<1>5. Harmless
  BY <1>2, <1>3, <1>4 DEF Harmless
<1> QED
  BY <1>5, HarmlessSteps

LEMMA PromoteKeepsCopies ==
    ASSUME TypeInv, Copies, NEW r \in Runs, PromoteTask(r)
    PROVE  Copies'
<1>1. found \in [Runs -> [Flavours -> Manifest \cup {Nil}]] /\ sets \in [SetKeys -> ManifestSet \cup {Nil}]
  BY DEF TypeInv, TypeOK
<1>2. UNCHANGED <<objects, singles, held, build, output, heldSet, logKey>>
  BY DEF UploadReleaseManifestSet, PromoteTask, BuildComponentDescriptor, CollectRelease,
     PromoteSet, ReleaseStep, PromoteFails, bucket, buildPc, notifyPc
<1>3. \A q \in Runs, g \in Flavours :
         found'[q][g] = found[q][g] \/ Sound(g, found'[q][g], objects')
  <2>1. CASE UNCHANGED found
    BY <2>1
  <2>2. CASE found' = [found EXCEPT ![r] = [f \in Flavours |-> Nil]]
    BY <1>1, <2>2, NothingIsSound
  <2>3. CASE \E f \in Flavours : CollectRelease(r, f)
    <3>1. PICK f \in Flavours : found' = [found EXCEPT ![r][f] = singles[f]]
      BY <2>3 DEF CollectRelease
    <3>2. Sound(f, singles[f], objects')
      BY <1>2 DEF Copies
    <3> QED
      BY <1>1, <3>1, <3>2
  <2> QED
    BY <2>1, <2>2, <2>3 DEF UploadReleaseManifestSet, PromoteTask, BuildComponentDescriptor,
       PromoteSet, ReleaseStep, PromoteFails
<1>4. \A k \in SetKeys : sets'[k] = sets[k] \/ SoundSet(sets'[k], objects')
  <2>1. CASE UNCHANGED sets
    BY <2>1
  <2>2. CASE PromoteSet(r) /\ \A f \in Flavours : found[r][f] # Nil
    <3> DEFINE made == [manifests |-> found[r], logs |-> {}]
               key == SetKeyOf(kind[r], clock)
    <3>1. SoundSet(made, objects')
      <4>1. \A f \in Flavours : Sound(f, found[r][f], objects')
        BY <1>2 DEF Copies
      <4>2. made.manifests = found[r] /\ made.logs = {}
        OBVIOUS
      <4> QED
        BY <2>2, <4>1, <4>2 DEF SoundSet
    <3>2. sets' = [sets EXCEPT ![key] = made]
      BY <2>2 DEF UploadReleaseManifestSet, PromoteSet
    <3> HIDE DEF made, key
    <3> QED
      BY <1>1, <3>1, <3>2
  <2> QED
    BY <2>1, <2>2 DEF UploadReleaseManifestSet, PromoteTask, BuildComponentDescriptor,
       CollectRelease, PromoteSet, ReleaseStep, PromoteFails, bucket
<1>5. Harmless
  BY <1>2, <1>3, <1>4 DEF Harmless
<1> QED
  BY <1>5, HarmlessSteps

LEMMA NotifyKeepsCopies ==
    ASSUME TypeInv, Copies, NEW r \in Runs, NotifyTask(r)
    PROVE  Copies'
<1>1. /\ held \in [Runs -> [Flavours -> Manifest \cup {Nil}]]
      /\ heldSet \in [Runs -> ManifestSet \cup {Nil}]
      /\ logKey \in [Runs -> LogObjects \cup {Nil}]
  BY DEF TypeInv, TypeOK
<1>2. UNCHANGED <<build, output, found>> /\ objects \subseteq objects'
  BY DEF UploadReleaseManifest, UploadReleaseManifestSet, UploadLogArchive, BuildResults,
     ReleaseManifestSet, NotifyTask, UploadLogs, AttachRead, AttachWrite, FetchSet,
     CollectLog, AttachSet, NotifyFails, bucket, buildPc, promotePc
<1>3. \A q \in Runs : logKey'[q] = logKey[q] \/ logKey'[q] \in objects'
  <2>1. CASE UNCHANGED logKey
    BY <2>1
  <2>2. CASE UploadLogs(r)
    BY <1>1, <2>2 DEF UploadLogArchive, BuildResults, UploadLogs
  <2> QED
    BY <2>1, <2>2 DEF UploadReleaseManifest, UploadReleaseManifestSet, ReleaseManifestSet,
       NotifyTask, AttachRead, AttachWrite, FetchSet, CollectLog, AttachSet, NotifyFails,
       notifyPc
<1>4. phase[r] \in {"attach_singles", "attach_set"} => logKey[r] \in objects
  BY NoDocumentIsNil DEF TypeInv, Holding, Copies
<1>5. \A g \in Flavours : singles'[g] = singles[g] \/ Sound(g, singles'[g], objects')
  <2>1. CASE UNCHANGED singles
    BY <2>1
  <2>2. CASE \E f \in Flavours : AttachWrite(r, f)
    BY <2>2 DEF UploadReleaseManifest, AttachWrite, Copies, TypeInv, TypeOK
  <2> QED
    BY <2>1, <2>2 DEF UploadReleaseManifestSet, UploadLogArchive, BuildResults,
       ReleaseManifestSet, NotifyTask, UploadLogs, AttachRead, FetchSet, CollectLog,
       AttachSet, NotifyFails, bucket
<1>6. \A q \in Runs, g \in Flavours : held'[q][g] = held[q][g] \/ Sound(g, held'[q][g], objects')
  <2>1. CASE UNCHANGED held
    BY <2>1
  <2>2. CASE NotifyFails(r)
    BY <1>1, <2>2, NothingIsSound DEF NotifyFails
  <2>3. CASE \E f \in Flavours : AttachWrite(r, f)
    <3>1. PICK f \in Flavours : held' = [held EXCEPT ![r][f] = Nil]
      BY <2>3 DEF UploadReleaseManifest, AttachWrite, Drop
    <3> QED
      BY <1>1, <3>1, NothingIsSound
  <2>4. ASSUME NEW f \in Flavours, AttachRead(r, f)
        PROVE  \A q \in Runs, g \in Flavours :
                  held'[q][g] = held[q][g] \/ Sound(g, held'[q][g], objects')
    <3> DEFINE m == WithLogfile(singles[f], r)
    <3>1. held' = [held EXCEPT ![r][f] = m]
      BY <2>4 DEF AttachRead
    <3>2. /\ singles[f] \in Manifest /\ Sound(f, singles[f], objects)
          /\ logKey[r] \in objects /\ UNCHANGED objects
      BY <1>4, <2>4 DEF AttachRead, Copies, TypeInv, TypeOK, bucket
    <3>3. Sound(f, m, objects')
      BY <3>2, AmendedIsSound DEF WithLogfile
    <3> HIDE DEF m
    <3> QED
      BY <1>1, <3>1, <3>3
  <2> QED
    BY <2>1, <2>2, <2>3, <2>4 DEF UploadReleaseManifestSet, UploadLogArchive, BuildResults,
       ReleaseManifestSet, NotifyTask, UploadLogs, FetchSet, CollectLog, AttachSet
<1>7. \A k \in SetKeys : sets'[k] = sets[k] \/ SoundSet(sets'[k], objects')
  <2>1. CASE UNCHANGED sets
    BY <2>1
  <2>2. CASE AttachSet(r)
    BY <2>2 DEF UploadReleaseManifestSet, AttachSet, Copies, TypeInv, TypeOK
  <2> QED
    BY <2>1, <2>2 DEF UploadReleaseManifest, UploadLogArchive, BuildResults,
       ReleaseManifestSet, NotifyTask, UploadLogs, AttachRead, AttachWrite, FetchSet,
       CollectLog, NotifyFails, bucket
<1>8. \A q \in Runs : heldSet'[q] = heldSet[q] \/ SoundSet(heldSet'[q], objects')
  <2>1. CASE UNCHANGED heldSet
    BY <2>1
  <2>2. CASE heldSet' = [heldSet EXCEPT ![r] = Nil]
    BY <1>1, <2>2, NothingIsSound
  <2>3. CASE FetchSet(r) /\ setKey[r] # Nil /\ sets[setKey[r]] # Nil
    <3> DEFINE s == [sets[setKey[r]] EXCEPT !.logs = @ \cup {logKey[r]}]
    <3>1. heldSet' = [heldSet EXCEPT ![r] = s]
      BY <2>3 DEF ReleaseManifestSet, FetchSet
    <3>2. /\ sets[setKey[r]] \in ManifestSet /\ SoundSet(sets[setKey[r]], objects)
          /\ logKey[r] \in objects /\ UNCHANGED objects
      BY <1>4, <2>3 DEF ReleaseManifestSet, FetchSet, Copies, TypeInv, TypeOK, bucket
    <3>3. /\ s.manifests = sets[setKey[r]].manifests
          /\ s.logs = sets[setKey[r]].logs \cup {logKey[r]}
      BY <3>2 DEF ManifestSet
    <3>4. SoundSet(s, objects')
      BY <2>3, <3>2, <3>3 DEF SoundSet
    <3> HIDE DEF s
    <3> QED
      BY <1>1, <3>1, <3>4
  <2>4. ASSUME NEW f \in Flavours, CollectLog(r, f), heldSet' # heldSet
        PROVE  \A q \in Runs : heldSet'[q] = heldSet[q] \/ SoundSet(heldSet'[q], objects')
    <3> DEFINE s == [heldSet[r] EXCEPT !.logs = @ \cup {singles[f].log}]
    <3>1. /\ heldSet' = [heldSet EXCEPT ![r] = s]
          /\ singles[f] # Nil /\ singles[f].log # Nil
      BY <2>4 DEF CollectLog
    <3>2. heldSet[r] \in ManifestSet /\ SoundSet(heldSet[r], objects) /\ UNCHANGED objects
      BY <2>4 DEF CollectLog, Copies, TypeInv, Holding, bucket
    <3>3. singles[f].log \in objects
      BY <3>1 DEF Copies, Sound, References
    <3>4. /\ s.manifests = heldSet[r].manifests
          /\ s.logs = heldSet[r].logs \cup {singles[f].log}
      BY <3>2 DEF ManifestSet
    <3>5. SoundSet(s, objects')
      <4>1. heldSet[r] # Nil
        BY <3>2, NoDocumentIsNil
      <4> QED
        BY <3>2, <3>3, <3>4, <4>1 DEF SoundSet
    <3> HIDE DEF s
    <3> QED
      BY <1>1, <3>1, <3>5
  <2> QED
    BY <2>1, <2>2, <2>3, <2>4 DEF UploadReleaseManifest, UploadReleaseManifestSet,
       UploadLogArchive, BuildResults, ReleaseManifestSet, NotifyTask, UploadLogs,
       AttachRead, AttachWrite, FetchSet, AttachSet, NotifyFails, notifyPc
<1>9. Harmless
  BY <1>2, <1>3, <1>5, <1>6, <1>7, <1>8 DEF Harmless
<1> QED
  BY <1>9, HarmlessSteps

LEMMA InitCopies == Init => Copies
<1> SUFFICES ASSUME Init
             PROVE  Copies
  OBVIOUS
<1>1. /\ \A f \in Flavours : singles[f] = Nil
      /\ \A k \in SetKeys : sets[k] = Nil
      /\ \A r \in Runs : heldSet[r] = Nil /\ logKey[r] = Nil
  BY DEF Init
<1>2. \A r \in Runs, f \in Flavours :
         held[r][f] = Nil /\ found[r][f] = Nil /\ build[r][f] = "pending"
  BY DEF Init
<1> QED
  BY <1>1, <1>2, NothingIsSound DEF Copies

LEMMA StepKeepsCopies == TypeInv /\ Copies /\ [Next]_vars => Copies'
<1> SUFFICES ASSUME TypeInv, Copies, [Next]_vars
             PROVE  Copies'
  OBVIOUS
<1>1. CASE Tick \/ UNCHANGED vars \/ \E r \in Runs : StartRun(r)
  BY <1>1, HarmlessSteps DEF Tick, StartRun, Harmless, vars, bucket, buildPc, promotePc,
     notifyPc
<1>2. ASSUME NEW r \in Runs, RunStep(r)
      PROVE  Copies'
  BY <1>2, BuildKeepsCopies, TestKeepsCopies, PromoteKeepsCopies, NotifyKeepsCopies
     DEF RunStep
<1> QED
  BY <1>1, <1>2 DEF Next

\* Every file that a manifest or a manifest set in the bucket names is there, however
\* many runs of the same commit overlap and at whatever step each of them fails.
THEOREM NothingDangles == Spec => []NoDanglingReference
<1>1. Copies => NoDanglingReference
  BY DEF Copies, Sound, SoundSet, NoDanglingReference
<1> QED
  BY InitTypes, StepKeepsTypes, InitCopies, StepKeepsCopies, <1>1, PTL DEF Spec

(* The release is complete when the promote task looks at it.                 *)

Progress ==
    /\ \A r \in Runs, f \in Flavours :
          /\ phase[r] = "idle" => build[r][f] = "pending"
          /\ /\ "manifest" \in targets[r]
             /\ build[r][f] \in {"promote_single", "publish", "persist", "done"}
             => singles[f] # Nil
    /\ \A r \in Runs :
          /\ phase[r] = "idle" => promote[r] = "pending" /\ descriptor[r] = Nil
          /\ phase[r] # "idle" => CheckRequirements(targets[r])
          /\ promote[r] = "collect" =>
                /\ "manifest" \in targets[r]
                /\ \A f \in Flavours : IF f \in todo[r] THEN singles[f] # Nil
                                       ELSE found[r][f] # Nil
          /\ descriptor[r] # Nil /\ "manifest" \in targets[r] => descriptor[r] = Flavours


\* A manifest is amended and replaced but never removed.
LEMMA ManifestsStay ==
    ASSUME TypeInv, NEW r \in Runs, RunStep(r)
    PROVE  \A f \in Flavours : singles[f] # Nil => singles'[f] # Nil
<1>1. singles \in [Flavours -> Manifest \cup {Nil}]
  BY DEF TypeInv, TypeOK
<1>2. CASE UNCHANGED singles
  BY <1>2
<1>3. CASE \E f \in Flavours, m \in Manifest : singles' = [singles EXCEPT ![f] = m]
  BY <1>1, <1>3, NoDocumentIsNil
<1>4. ASSUME NEW f \in Flavours, BuildTask(r, f)
      PROVE  UNCHANGED singles \/ \E m \in Manifest : singles' = [singles EXCEPT ![f] = m]
  <2>1. CASE UploadManifest(r, f)
    <3>1. output[r][f] \in Contents /\ clock \in Time
      BY <2>1 DEF UploadReleaseManifest, UploadManifest, TypeInv, Holding, TypeOK
    <3>2. FreshManifest(r, f) \in Manifest
      BY <3>1, FreshManifestType
    <3> QED
      BY <2>1, <3>2 DEF UploadReleaseManifest, UploadManifest
  <2>2. CASE PersistSingle(r, f)
    BY <2>2 DEF UploadReleaseManifest, PersistSingle, TypeInv, Holding
  <2> QED
    BY <1>4, <2>1, <2>2 DEF BuildTask, PreBuild, BuildImage, UploadObjects, PublishOci,
       PromoteSingle, PublishImage, PublishFails, BuildFails, bucket
<1>5. ASSUME NEW f \in Flavours, TestTask(r, f)
      PROVE  UNCHANGED singles \/ \E m \in Manifest : singles' = [singles EXCEPT ![f] = m]
  BY <1>5 DEF UploadReleaseManifest, TestTask, PreCheckTests, RunTests, UploadTestResult,
     TestFails, bucket, TypeInv, Holding
<1>6. ASSUME PromoteTask(r)
      PROVE  UNCHANGED singles
  BY <1>6 DEF UploadReleaseManifestSet, PromoteTask, BuildComponentDescriptor,
     CollectRelease, PromoteSet, ReleaseStep, PromoteFails, bucket
<1>7. ASSUME NotifyTask(r)
      PROVE  \/ UNCHANGED singles
             \/ \E f \in Flavours, m \in Manifest : singles' = [singles EXCEPT ![f] = m]
  BY <1>7 DEF UploadReleaseManifest, UploadReleaseManifestSet, UploadLogArchive,
     BuildResults, ReleaseManifestSet, NotifyTask, UploadLogs, AttachRead, AttachWrite,
     FetchSet, CollectLog, AttachSet, NotifyFails, bucket, TypeInv, Holding
<1> QED
  BY <1>2, <1>3, <1>4, <1>5, <1>6, <1>7 DEF RunStep

Promotable == {"promote_single", "publish", "persist", "done"}

LEMMA BuildKeepsProgress ==
    ASSUME TypeInv, Progress, NEW r \in Runs, NEW f \in Flavours, BuildTask(r, f)
    PROVE  Progress'
<1>1. BuildMoves(r, f)
  BY PreBuildMoves, BuildImageMoves, UploadObjectsMoves, PublishOciMoves,
     UploadManifestMoves, PromoteSingleMoves, PublishImageMoves, PublishFailsMoves, PersistSingleMoves,
     BuildFailsMoves DEF BuildTask
<1>2. \A g \in Flavours : singles[g] # Nil => singles'[g] # Nil
  BY ManifestsStay DEF RunStep
<1>3. build \in [Runs -> [Flavours -> BuildStep]] /\ singles \in [Flavours -> Manifest \cup {Nil}]
  BY DEF TypeInv, TypeOK
<1>4. ASSUME "manifest" \in targets[r], build'[r][f] \in Promotable
      PROVE  singles'[f] # Nil
  <2>1. CASE build[r][f] \in Promotable
    BY <1>2, <1>4, <2>1 DEF Progress, Promotable
  <2>2. CASE PreBuild(r, f)
    <3>1. "build" \in targets[r]
      <4>1. CheckRequirements(targets[r])
        BY <2>2 DEF PreBuild, BuildMayStart, Progress
      <4>2. Requires("manifest") = {"build"}
        BY DEF Requires
      <4> QED
        BY <1>4, <4>1, <4>2 DEF CheckRequirements
    <3>2. AlreadyBuilt(f)
      BY <1>3, <1>4, <2>2, <3>1 DEF PreBuild, GoBuild, Promotable
    <3> QED
      BY <1>2, <3>2 DEF AlreadyBuilt
  <2>3. CASE BuildImage(r, f)
    BY <1>3, <1>4, <2>3 DEF BuildImage, GoBuild, Promotable
  <2>4. CASE UploadObjects(r, f)
    BY <1>3, <1>4, <2>4 DEF UploadObjects, GoBuild, AfterObjects, Promotable
  <2>5. CASE UploadManifest(r, f)
    <3> DEFINE m == FreshManifest(r, f)
    <3>1. output[r][f] \in Contents /\ clock \in Time
      BY <2>5 DEF UploadReleaseManifest, UploadManifest, TypeInv, Holding, TypeOK
    <3>2. m \in Manifest
      BY <3>1, FreshManifestType
    <3>3. singles' = [singles EXCEPT ![f] = m]
      BY <2>5 DEF UploadReleaseManifest, UploadManifest
    <3> HIDE DEF m
    <3> QED
      BY <1>3, <3>2, <3>3, NoDocumentIsNil
  <2>6. CASE BuildFails(r, f)
    BY <1>3, <1>4, <2>6 DEF BuildFails, GoBuild, Promotable
  <2>7. CASE PublishOci(r, f)
    BY <1>3, <1>4, <2>7 DEF PublishOci, GoBuild, Promotable
  <2> QED
    BY <2>1, <2>2, <2>3, <2>4, <2>5, <2>6, <2>7
       DEF UploadReleaseManifest, BuildTask, PromoteSingle, PublishImage, PublishFails,
          PersistSingle, Promotable
<1>5. ASSUME NEW q \in Runs, NEW g \in Flavours
      PROVE  /\ phase'[q] = "idle" => build'[q][g] = "pending"
             /\ "manifest" \in targets'[q] /\ build'[q][g] \in Promotable => singles'[g] # Nil
  <2>1. CASE q = r /\ g = f
    BY <1>1, <1>4, <2>1 DEF BuildMoves
  <2>2. CASE q # r \/ g # f
    <3>1. build'[q][g] = build[q][g] /\ UNCHANGED <<phase, targets>>
      BY <1>1, <2>2 DEF BuildMoves, Elsewhere
    <3> QED
      BY <1>2, <3>1 DEF Progress, Promotable
  <2> QED
    BY <2>1, <2>2
<1>6. ASSUME NEW q \in Runs
      PROVE  /\ phase'[q] = "idle" => promote'[q] = "pending" /\ descriptor'[q] = Nil
             /\ phase'[q] # "idle" => CheckRequirements(targets'[q])
             /\ promote'[q] = "collect" =>
                   /\ "manifest" \in targets'[q]
                   /\ \A g \in Flavours : IF g \in todo'[q] THEN singles'[g] # Nil
                                          ELSE found'[q][g] # Nil
             /\ descriptor'[q] # Nil /\ "manifest" \in targets'[q] => descriptor'[q] = Flavours
  BY <1>1, <1>2 DEF BuildMoves, Progress
<1> QED
  BY <1>5, <1>6 DEF Progress, Promotable

LEMMA TestKeepsProgress ==
    ASSUME TypeInv, Progress, NEW r \in Runs, NEW f \in Flavours, TestTask(r, f)
    PROVE  Progress'
<1>1. \A g \in Flavours : singles[g] # Nil => singles'[g] # Nil
  BY ManifestsStay DEF RunStep
<1>2. UNCHANGED <<phase, build, targets, promote, descriptor, todo, found>>
  BY DEF UploadReleaseManifest, TestTask, PreCheckTests, RunTests, UploadTestResult,
     TestFails, outside, given, buildPc, promotePc
<1> QED
  BY <1>1, <1>2 DEF Progress

LEMMA PromoteKeepsProgress ==
    ASSUME TypeInv, Progress, NEW r \in Runs, PromoteTask(r)
    PROVE  Progress'
<1>1. UNCHANGED <<phase, build, targets, singles>>
  BY DEF UploadReleaseManifestSet, PromoteTask, BuildComponentDescriptor, CollectRelease,
     PromoteSet, ReleaseStep, PromoteFails, bucket, given, buildPc
<1>2. phase[r] = "tasks"
  BY PromoteIsActive DEF UploadReleaseManifestSet, PromoteTask, BuildComponentDescriptor,
     PromoteMayStart, CollectRelease, PromoteSet, ReleaseStep, PromoteFails, Idle
<1>3. /\ promote \in [Runs -> PromoteStep] /\ todo \in [Runs -> SUBSET Flavours]
      /\ found \in [Runs -> [Flavours -> Manifest \cup {Nil}]]
      /\ descriptor \in [Runs -> (SUBSET Flavours) \cup {Nil}]
  BY DEF TypeInv, TypeOK
<1>4. ASSUME NEW q \in Runs \ {r}
      PROVE  /\ promote'[q] = promote[q] /\ todo'[q] = todo[q] /\ found'[q] = found[q]
             /\ descriptor'[q] = descriptor[q]
  BY <1>3 DEF UploadReleaseManifestSet, PromoteTask, GoPromote, BuildComponentDescriptor,
     CollectRelease, PromoteSet, ReleaseStep, PromoteFails, outside
<1>5. /\ promote'[r] = "collect" =>
            /\ "manifest" \in targets[r]
            /\ \A g \in Flavours : IF g \in todo'[r] THEN singles[g] # Nil
                                   ELSE found'[r][g] # Nil
      /\ descriptor'[r] # Nil /\ "manifest" \in targets[r] => descriptor'[r] = Flavours
  <2>1. CASE BuildComponentDescriptor(r)
    <3>1. ASSUME "manifest" \in targets[r], NEW g \in Flavours
          PROVE  singles[g] # Nil
      BY <2>1, <3>1 DEF BuildComponentDescriptor, PromoteMayStart, Progress
    <3>2. promote'[r] = "collect" => "manifest" \in targets[r] /\ todo'[r] = Flavours
      BY <1>3, <2>1 DEF BuildComponentDescriptor, GoPromote
    <3>3. CASE "component-descriptor" \in targets[r]
      <4>1. descriptor'[r] = {g \in Flavours : singles[g] # Nil}
        BY <1>3, <2>1, <3>3 DEF BuildComponentDescriptor
      <4> QED
        BY <3>1, <3>2, <4>1
    <3>4. CASE "component-descriptor" \notin targets[r]
      <4>1. UNCHANGED descriptor
        BY <2>1, <3>4 DEF BuildComponentDescriptor
      <4> QED
        BY <3>1, <3>2, <4>1 DEF Progress
    <3> QED
      BY <3>3, <3>4
  <2>2. ASSUME NEW f \in Flavours, CollectRelease(r, f)
        PROVE  /\ promote'[r] = "collect" =>
                     /\ "manifest" \in targets[r]
                     /\ \A g \in Flavours : IF g \in todo'[r] THEN singles[g] # Nil
                                            ELSE found'[r][g] # Nil
               /\ descriptor'[r] # Nil /\ "manifest" \in targets[r] => descriptor'[r] = Flavours
    <3>1. /\ promote[r] = "collect" /\ f \in todo[r] /\ UNCHANGED descriptor
          /\ todo'[r] = todo[r] \ {f}
          /\ \A g \in Flavours : found'[r][g] = IF g = f THEN singles[f] ELSE found[r][g]
      BY <1>3, <2>2 DEF CollectRelease, outside
    <3> QED
      BY <3>1 DEF Progress
  <2>3. CASE PromoteSet(r) \/ ReleaseStep(r) \/ PromoteFails(r)
    <3>1. promote'[r] # "collect" /\ UNCHANGED descriptor
      BY <1>3, <2>3 DEF UploadReleaseManifestSet, PromoteSet, ReleaseStep, PromoteFails,
         GoPromote, outside
    <3> QED
      BY <3>1 DEF Progress
  <2> QED
    BY <2>1, <2>2, <2>3 DEF PromoteTask
<1>6. ASSUME NEW q \in Runs
      PROVE  /\ phase'[q] = "idle" => promote'[q] = "pending" /\ descriptor'[q] = Nil
             /\ phase'[q] # "idle" => CheckRequirements(targets'[q])
             /\ promote'[q] = "collect" =>
                   /\ "manifest" \in targets'[q]
                   /\ \A g \in Flavours : IF g \in todo'[q] THEN singles'[g] # Nil
                                          ELSE found'[q][g] # Nil
             /\ descriptor'[q] # Nil /\ "manifest" \in targets'[q] => descriptor'[q] = Flavours
  <2>1. CASE q = r
    BY <1>1, <1>2, <1>5, <2>1 DEF Progress
  <2>2. CASE q # r
    BY <1>1, <1>4, <2>2 DEF Progress
  <2> QED
    BY <2>1, <2>2
<1> QED
  BY <1>1, <1>6 DEF Progress

LEMMA NotifyKeepsProgress ==
    ASSUME TypeInv, Progress, NEW r \in Runs, NotifyTask(r)
    PROVE  Progress'
<1>1. NotifyMoves(r)
  BY UploadLogsMoves, AttachReadMoves, AttachWriteMoves, FetchSetMoves, CollectLogMoves,
     AttachSetMoves, NotifyFailsMoves DEF NotifyTask
<1>2. \A g \in Flavours : singles[g] # Nil => singles'[g] # Nil
  BY ManifestsStay DEF RunStep
<1>3. todo \in [Runs -> SUBSET Flavours]
  BY DEF TypeInv, TypeOK
<1>4. \A q \in Runs \ {r} : todo'[q] = todo[q]
  BY <1>3 DEF UploadReleaseManifest, UploadReleaseManifestSet, UploadLogArchive,
     BuildResults, ReleaseManifestSet, NotifyTask, UploadLogs, AttachRead, AttachWrite,
     FetchSet, CollectLog, AttachSet, NotifyFails
<1>5. phase[r] # "idle" /\ phase'[r] # "idle" /\ promote[r] # "collect"
  BY <1>1 DEF UploadReleaseManifest, UploadReleaseManifestSet, UploadLogArchive,
     BuildResults, ReleaseManifestSet, NotifyMoves, NotifyTask, UploadLogs, AttachRead,
     AttachWrite, FetchSet, CollectLog, AttachSet, NotifyFails, Settled, Idle
<1>6. UNCHANGED <<build, targets, promote, descriptor, found>>
  BY <1>1 DEF NotifyMoves, outside, given, buildPc, promotePc
<1>7. \A q \in Runs : phase'[q] = "idle" <=> phase[q] = "idle"
  BY <1>1, <1>5 DEF NotifyMoves
<1>8. ASSUME NEW q \in Runs, promote[q] = "collect"
      PROVE  todo'[q] = todo[q]
  BY <1>4, <1>5, <1>8
<1> QED
  BY <1>2, <1>6, <1>7, <1>8 DEF Progress

LEMMA StartKeepsProgress ==
    ASSUME TypeInv, Progress, NEW r \in Runs, StartRun(r)
    PROVE  Progress'
<1>1. UNCHANGED <<singles, build, promote, descriptor, todo, found>> /\ phase[r] = "idle"
  BY DEF StartRun, bucket, outside, buildPc, promotePc
<1>2. PICK ts \in TargetSets : CheckRequirements(ts) /\ targets' = [targets EXCEPT ![r] = ts]
  BY DEF StartRun
<1>3. targets \in [Runs -> SUBSET BuildTarget] /\ phase \in [Runs -> Phase]
  BY DEF TypeInv, TypeOK
<1>4. /\ targets'[r] = ts /\ phase'[r] = "tasks"
      /\ \A q \in Runs \ {r} : targets'[q] = targets[q] /\ phase'[q] = phase[q]
  BY <1>2, <1>3 DEF StartRun
<1>5. promote[r] = "pending" /\ descriptor[r] = Nil /\ \A f \in Flavours : build[r][f] = "pending"
  BY <1>1 DEF Progress
<1> QED
  BY <1>1, <1>2, <1>4, <1>5 DEF Progress

LEMMA InitProgress == Init => Progress
BY DEF Init, Progress

LEMMA StepKeepsProgress == TypeInv /\ Progress /\ [Next]_vars => Progress'
<1> SUFFICES ASSUME TypeInv, Progress, [Next]_vars
             PROVE  Progress'
  OBVIOUS
<1>1. CASE Tick \/ UNCHANGED vars
  BY <1>1 DEF Tick, Progress, vars, bucket, outside, given, buildPc, promotePc
<1>2. ASSUME NEW r \in Runs, StartRun(r) \/ RunStep(r)
      PROVE  Progress'
  BY <1>2, StartKeepsProgress, BuildKeepsProgress, TestKeepsProgress, PromoteKeepsProgress,
     NotifyKeepsProgress DEF RunStep
<1> QED
  BY <1>1, <1>2 DEF Next

\* The promote task never comes upon an incomplete release: no target set that a run is
\* rendered with, no overlapping run and no failed step leads it there.
THEOREM PromotesOnlyCompleteReleases == Spec => []PromotionIsComplete
<1>1. Progress => PromotionIsComplete
  BY DEF Progress, PromotionIsComplete
<1> QED
  BY InitTypes, StepKeepsTypes, InitProgress, StepKeepsProgress, <1>1, PTL DEF Spec

\* The component descriptor of a run that makes manifests lists every flavour.
THEOREM DescribesCompleteReleases == Spec => []DescriptorIsComplete
<1>1. Progress => DescriptorIsComplete
  BY DEF Progress, DescriptorIsComplete
<1> QED
  BY InitTypes, StepKeepsTypes, InitProgress, StepKeepsProgress, <1>1, PTL DEF Spec

=============================================================================

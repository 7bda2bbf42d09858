--------------------------- MODULE AlicloudPublish ---------------------------
(***************************************************************************)
(* Publishing to Alibaba Cloud (ci/glci/alicloud.py, AlicloudImageMaker):  *)
(* the image goes to one OSS object per version, is imported from there,   *)
(* copied to the other regions, waited for and shared.  What an earlier    *)
(* attempt left under the same name is used again, and a failing attempt   *)
(* deletes whatever has its name.                                          *)
(***************************************************************************)
EXTENDS Naturals, FiniteSets

CONSTANTS Attempts,   \* attempts to publish, one per build task of a run
          Releases,   \* what is published, all of the same version
          ReleaseOf,  \* the release an attempt publishes
          Regions,    \* the regions of the cloud
          Home,       \* build_cfg.alicloud_region
          MaxActive,  \* how many attempts for one release may be under way at the same time
          MaxFaults,  \* bound on failing requests, images and lost pods
          Nil

ASSUME AlicloudAssumption ==
    /\ ReleaseOf \in [Attempts -> Releases]
    /\ Home \in Regions
    /\ MaxActive \in Nat /\ MaxFaults \in Nat
    /\ Nil \notin Releases

VARIABLES
    oss,      \* the release whose image is at gardenlinux-<version>.qcow2
    image,    \* the image with the name of a release in a region, if there is one
    recorded, \* the releases whose manifest names published images
    pc,       \* of an attempt: the step it is at
    todo,     \* regions a loop of an attempt has still to visit
    faults    \* requests, images and pods that failed so far

vars == <<oss, image, recorded, pc, todo, faults>>

Image == [content : Releases, state : {"creating", "available", "failed"}, shared : BOOLEAN]

ASSUME NoImageIsNil == Nil \notin Image

Ended  == {"idle", "done", "failed", "lost"}
Active == {a \in Attempts : pc[a] \notin Ended}

Go(a, step) == pc' = [pc EXCEPT ![a] = step] /\ UNCHANGED todo
Goal(a, step, regions) == /\ pc' = [pc EXCEPT ![a] = step]
                          /\ todo' = [todo EXCEPT ![a] = regions]
Visited(a, r) == todo' = [todo EXCEPT ![a] = @ \ {r}] /\ UNCHANGED pc

Found(a, r) == image[ReleaseOf[a]][r]
Put(a, r, i) == image' = [image EXCEPT ![ReleaseOf[a]][r] = i]
\* (mutant) a state nobody waits for
New_Waiting(content) == [content |-> content, state |-> "waiting", shared |-> FALSE]

New(content) == [content |-> content, state |-> "creating", shared |-> FALSE]

-----------------------------------------------------------------------------

Start(a) ==
    /\ pc[a] = "idle"
    /\ Cardinality({b \in Active : ReleaseOf[b] = ReleaseOf[a]}) < MaxActive
    /\ ReleaseOf[a] \notin recorded
    /\ Go(a, "upload")
    /\ UNCHANGED <<oss, image, recorded, faults>>

\* (mutant) an object that is there is not uploaded again
Upload_Once(a) ==
    /\ pc[a] = "upload"
    /\ oss' = IF oss = Nil THEN ReleaseOf[a] ELSE oss
    /\ Go(a, "import")
    /\ UNCHANGED <<image, recorded, faults>>

\* cp_image_from_s3
Upload(a) ==
    /\ pc[a] = "upload"
    /\ oss' = ReleaseOf[a]
    /\ Go(a, "import")
    /\ UNCHANGED <<image, recorded, faults>>

\* (mutant) an image that is there already is not looked for
Import_Anew(a) ==
    /\ pc[a] = "import"
    /\ IF Found(a, Home) = Nil THEN Put(a, Home, New(oss)) /\ Go(a, "wait_import")
                               ELSE UNCHANGED image /\ Goal(a, "delete", Regions)
    /\ UNCHANGED <<oss, recorded, faults>>

\* import_image
Import(a) ==
    /\ pc[a] = "import"
    /\ IF Found(a, Home) = Nil THEN Put(a, Home, New(oss)) ELSE UNCHANGED image
    /\ Go(a, "wait_import")
    /\ UNCHANGED <<oss, recorded, faults>>

WaitForImport(a) ==
    /\ pc[a] = "wait_import"
    /\ Found(a, Home) # Nil /\ Found(a, Home).state = "available"
    /\ Goal(a, "copy", Regions \ {Home})
    /\ UNCHANGED <<oss, image, recorded, faults>>

\* copy_image; the source image may have been deleted by another attempt.
CopyImage(a, r) ==
    /\ pc[a] = "copy" /\ r \in todo[a]
    /\ IF Found(a, r) # Nil THEN UNCHANGED image /\ Visited(a, r)
       ELSE IF Found(a, Home) = Nil THEN UNCHANGED image /\ Goal(a, "delete", Regions)
       ELSE Put(a, r, New(Found(a, Home).content)) /\ Visited(a, r)
    /\ UNCHANGED <<oss, recorded, faults>>

CopiesMade(a) ==
    /\ pc[a] = "copy" /\ todo[a] = {}
    /\ Goal(a, "wait", Regions \ {Home})
    /\ UNCHANGED <<oss, image, recorded, faults>>

\* (mutant) image and region swapped at one place only: the wait is for nothing
WaitForCopy_Swapped(a, r) ==
    /\ pc[a] = "wait" /\ r \in todo[a]
    /\ Found(a, r) # Nil
    /\ Visited(a, r)
    /\ UNCHANGED <<oss, image, recorded, faults>>

\* _wait_for_image
WaitForCopy(a, r) ==
    /\ pc[a] = "wait" /\ r \in todo[a]
    /\ Found(a, r) # Nil /\ Found(a, r).state = "available"
    /\ Visited(a, r)
    /\ UNCHANGED <<oss, image, recorded, faults>>

\* The image waited for is gone, or has not become available before TIME_OUT; the state
\* CreateFailed is not told from the others.
WaitFails(a, r) ==
    /\ \/ pc[a] = "wait_import" /\ r = Home
       \/ pc[a] = "wait" /\ r \in todo[a]
    /\ \/ Found(a, r) = Nil /\ UNCHANGED faults
       \/ Found(a, r) # Nil /\ Found(a, r).state = "failed" /\ UNCHANGED faults
       \/ /\ Found(a, r) # Nil /\ Found(a, r).state = "creating"
          /\ faults < MaxFaults /\ faults' = faults + 1
    /\ Goal(a, "delete", Regions)
    /\ UNCHANGED <<oss, image, recorded>>

CopiesReady(a) ==
    /\ pc[a] = "wait" /\ todo[a] = {}
    /\ Goal(a, "share", Regions)
    /\ UNCHANGED <<oss, image, recorded, faults>>

\* _share_images
ShareImage(a, r) ==
    /\ pc[a] = "share" /\ r \in todo[a]
    /\ IF Found(a, r) = Nil
         THEN UNCHANGED image /\ Goal(a, "delete", Regions)
         ELSE Put(a, r, [Found(a, r) EXCEPT !.shared = TRUE]) /\ Visited(a, r)
    /\ UNCHANGED <<oss, recorded, faults>>

Persist(a) ==
    /\ pc[a] = "share" /\ todo[a] = {}
    /\ recorded' = recorded \cup {ReleaseOf[a]}
    /\ Go(a, "done")
    /\ UNCHANGED <<oss, image, faults>>

RequestFails(a) ==
    /\ pc[a] \in {"upload", "import", "wait_import", "copy", "wait", "share"}
    /\ faults < MaxFaults
    /\ faults' = faults + 1
    /\ Goal(a, "delete", Regions)
    /\ UNCHANGED <<oss, image, recorded>>

\* delete_images looks for the image in one region after the other, at home last.
Deleting(a, r) == pc[a] = "delete" /\ r \in todo[a] /\ (r = Home => todo[a] = {Home})

NothingToDelete(a, r) ==
    /\ Deleting(a, r)
    /\ Found(a, r) = Nil
    /\ Visited(a, r)
    /\ UNCHANGED <<oss, image, recorded, faults>>

\* _del_image first stops sharing the image, which changes nothing if it is not shared ...
UnshareImage(a, r) ==
    /\ Deleting(a, r)
    /\ Found(a, r) # Nil /\ Found(a, r).shared
    /\ Put(a, r, [Found(a, r) EXCEPT !.shared = FALSE])
    /\ UNCHANGED <<oss, recorded, pc, todo, faults>>

\* ... and then deletes it.
DeleteImage(a, r) ==
    /\ Deleting(a, r)
    /\ Found(a, r) # Nil /\ ~Found(a, r).shared
    /\ Put(a, r, Nil)
    /\ Visited(a, r)
    /\ UNCHANGED <<oss, recorded, faults>>

\* When either request fails, the loop goes on with the next region ...
DeleteFails(a, r) ==
    /\ Deleting(a, r)
    /\ Found(a, r) # Nil
    /\ faults < MaxFaults /\ faults' = faults + 1
    /\ Visited(a, r)
    /\ UNCHANGED <<oss, image, recorded>>

\* ... but when the regions or an image cannot be looked up, it ends there.
LookupFails(a) ==
    /\ pc[a] = "delete" /\ todo[a] # {}
    /\ faults < MaxFaults /\ faults' = faults + 1
    /\ Goal(a, "failed", {})
    /\ UNCHANGED <<oss, image, recorded>>

EndDelete(a) ==
    /\ pc[a] = "delete" /\ todo[a] = {}
    /\ Go(a, "failed")
    /\ UNCHANGED <<oss, image, recorded, faults>>

PodLost(a) ==
    /\ a \in Active
    /\ faults < MaxFaults
    /\ faults' = faults + 1
    /\ Goal(a, "lost", {})
    /\ UNCHANGED <<oss, image, recorded>>

CloudDecides(rel, r) ==
    /\ image[rel][r] # Nil /\ image[rel][r].state = "creating"
    /\ \/ /\ image' = [image EXCEPT ![rel][r].state = "available"]
          /\ UNCHANGED faults
       \/ /\ faults < MaxFaults
          /\ faults' = faults + 1
          /\ image' = [image EXCEPT ![rel][r].state = "failed"]
    /\ UNCHANGED <<oss, recorded, pc, todo>>

Init ==
    /\ oss = Nil
    /\ image = [rel \in Releases |-> [r \in Regions |-> Nil]]
    /\ recorded = {}
    /\ pc = [a \in Attempts |-> "idle"]
    /\ todo = [a \in Attempts |-> {}]
    /\ faults = 0

Publish(a) ==
    \/ Upload(a) \/ Import(a) \/ WaitForImport(a) \/ CopiesMade(a) \/ CopiesReady(a)
    \/ Persist(a) \/ EndDelete(a)
    \/ \E r \in Regions : \/ CopyImage(a, r) \/ WaitForCopy(a, r) \/ WaitFails(a, r)
                          \/ ShareImage(a, r) \/ NothingToDelete(a, r)
                          \/ UnshareImage(a, r) \/ DeleteImage(a, r)

Fault(a) ==
    \/ RequestFails(a) \/ LookupFails(a) \/ PodLost(a)
    \/ \E r \in Regions : DeleteFails(a, r)

Next ==
    \/ \E a \in Attempts : Start(a) \/ Publish(a) \/ Fault(a)
    \/ \E rel \in Releases, r \in Regions : CloudDecides(rel, r)

Spec == Init /\ [][Next]_vars

\* A started attempt goes on, and the cloud does not leave an image creating for ever.
FairSpec ==
    /\ Spec
    /\ \A a \in Attempts : WF_vars(Publish(a))
    /\ \A rel \in Releases, r \in Regions : WF_vars(CloudDecides(rel, r))

-----------------------------------------------------------------------------
(* Properties.                                                              *)

\* The type invariant.
TypeOK ==
    /\ oss \in Releases \cup {Nil}
    /\ image \in [Releases -> [Regions -> Image \cup {Nil}]]
    /\ recorded \subseteq Releases
    /\ pc \in [Attempts -> Ended \cup {"upload", "import", "wait_import", "copy", "wait",
                                       "share", "delete"}]
    /\ todo \in [Attempts -> SUBSET Regions]
    /\ faults \in 0..MaxFaults

\* A release that is recorded as published is there in every region, available and shared,
\* also when it was put together from the leftovers of several attempts.
RecordedImagesAreUsable ==
    \A rel \in recorded, r \in Regions :
        /\ image[rel][r] # Nil
        /\ image[rel][r].state = "available"
        /\ image[rel][r].shared

\* No two releases are between the upload of their image and its import at the same time.
\* Nothing in alicloud.py sees to that, although they upload to the same object.
UploadsApart ==
    \A a, b \in Attempts : pc[a] = "import" /\ pc[b] = "import" => ReleaseOf[a] = ReleaseOf[b]

\* model.py, ReleaseManifest: "metadata for a gardenlinux release variant" - an image that
\* a manifest names as published was made from the artifacts of that manifest, whatever
\* overlaps, fails and is found again, but for an upload between an upload and its import.
RecordedImagesAreOwn ==
    []UploadsApart =>
        [](\A rel \in recorded, r \in Regions :
               image[rel][r] # Nil => image[rel][r].content = rel)

\* An attempt that meets no fault succeeds, whatever earlier attempts left behind, unless
\* that is an image the cloud could not make.
RetrySucceeds ==
    \A a \in Attempts :
        (/\ pc[a] = "upload" /\ faults = MaxFaults
         /\ \A r \in Regions : Found(a, r) = Nil \/ Found(a, r).state # "failed")
        ~> ReleaseOf[a] \in recorded
=============================================================================

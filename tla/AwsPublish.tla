----------------------------- MODULE AwsPublish -----------------------------
(***************************************************************************)
(* Publishing one flavour to AWS (ci/glci/aws.py, called by promote_single *)
(* through ci/promote.py publish_image): import, register, copy to every   *)
(* region, wait, make public, and the removal of the images when any of    *)
(* this fails.  An attempt is the build task of one pipeline run; all      *)
(* attempts give the image the same name.                                  *)
(***************************************************************************)
EXTENDS Naturals, FiniteSets

CONSTANTS Attempts,   \* attempts to publish the flavour, one per pipeline run
          Regions,    \* what enumerate_region_names yields
          Home,       \* build_cfg.aws_region
          MaxActive,  \* how many attempts may be under way at the same time
          MaxFaults,  \* bound on failing requests, rejected images and lost pods
          Nil

ASSUME PublishAssumption ==
    /\ Home \in Regions
    /\ IsFiniteSet(Regions)
    /\ MaxActive \in Nat /\ MaxFaults \in Nat
    /\ Nil \notin Attempts

VARIABLES
    ami,      \* of a region: the image with that name, if there is one
    recorded, \* the attempt whose image map the release manifest names, or Nil
    pc,       \* of an attempt: the step it is at
    todo,     \* regions a loop of an attempt has still to visit
    loopVar,  \* region_name and image_id of unregister_images_by_name, for each of its calls
    thread,   \* the threads of each of its calls, one per image found
    faults    \* requests, imports and pods that failed so far

vars == <<ami, recorded, pc, todo, loopVar, thread, faults>>

\* The image that an attempt made in a region; its id is unique.
Image == [by : Attempts, state : {"pending", "available", "failed"}, public : BOOLEAN]

\* An attempt may clean up twice: on a failing copy, and in publish_image.
Calls == {1, 2}

\* A thread that was submitted, or that holds a client of a region.
Thread == {"submitted"} \cup Regions

ASSUME NoThreadIsNil == Nil \notin Thread

Ended  == {"idle", "done", "failed", "lost"}
Active == {a \in Attempts : pc[a] \notin Ended}

Go(a, step) == pc' = [pc EXCEPT ![a] = step]
Goal(a, step, regions) == Go(a, step) /\ todo' = [todo EXCEPT ![a] = regions]
Visited(a, r) == todo' = [todo EXCEPT ![a] = @ \ {r}]

\* The call of unregister_images_by_name that an error at a step leads to.
CleanupAfter(step) == IF step = "copy" THEN "clean1" ELSE "clean2"

-----------------------------------------------------------------------------
(* upload_and_register_gardenlinux_image.                                   *)

\* promote_single_step does not publish what the manifest calls published.
Start(a) ==
    /\ pc[a] = "idle"
    /\ Cardinality(Active) < MaxActive
    /\ recorded = Nil
    /\ Go(a, "import")
    /\ UNCHANGED <<ami, recorded, todo, loopVar, thread, faults>>

\* import_snapshot, and the polling until AWS has imported the image, or rejected it.
Import(a) ==
    /\ pc[a] = "import"
    /\ Go(a, "register")
    /\ UNCHANGED <<ami, recorded, todo, loopVar, thread, faults>>

\* (mutant) an image state nobody waits for
New_Transient(a) == [by |-> a, state |-> "transient", public |-> FALSE]

New(a) == [by |-> a, state |-> "pending", public |-> FALSE]

\* The snapshot is registered; a name that is taken is an error.
Register(a) ==
    /\ pc[a] = "register"
    /\ IF ami[Home] = Nil
         THEN ami' = [ami EXCEPT ![Home] = New(a)] /\ Goal(a, "tag", {})
         ELSE UNCHANGED ami /\ Goal(a, CleanupAfter("register"), Regions)
    /\ UNCHANGED <<recorded, loopVar, thread, faults>>

\* The registered image is given a tag, if it is still there.
CreateTags(a) ==
    /\ pc[a] = "tag"
    /\ IF ami[Home] # Nil /\ ami[Home].by = a
         THEN Goal(a, "regions", {})
         ELSE Goal(a, CleanupAfter("tag"), Regions)
    /\ UNCHANGED <<ami, recorded, loopVar, thread, faults>>

\* enumerate_region_names, before the try statement around the copying.
EnumerateRegions(a) ==
    /\ pc[a] = "regions"
    /\ Goal(a, "copy", Regions \ {Home})
    /\ UNCHANGED <<ami, recorded, loopVar, thread, faults>>

\* One round of copy_image; a name is assumed to be given once in a region.
CopyImage(a, r) ==
    /\ pc[a] = "copy" /\ r \in todo[a]
    /\ IF ami[Home] # Nil /\ ami[Home].by = a /\ ami[r] = Nil
         THEN ami' = [ami EXCEPT ![r] = New(a)] /\ Visited(a, r) /\ UNCHANGED pc
         ELSE UNCHANGED ami /\ Goal(a, CleanupAfter("copy"), Regions)
    /\ UNCHANGED <<recorded, loopVar, thread, faults>>

CopiesMade(a) ==
    /\ pc[a] = "copy" /\ todo[a] = {}
    /\ Goal(a, "wait", Regions)
    /\ UNCHANGED <<ami, recorded, loopVar, thread, faults>>

\* (mutant) only some of the erroneous states end the polling
Erroneous_Invalid == {"invalid"}

Erroneous == {"failed"}

\* wait_for_image_state: polls until the image is available, without a timeout; an image
\* that is gone is an error.
WaitForImage(a, r) ==
    /\ pc[a] = "wait" /\ r \in todo[a]
    /\ IF ami[r] = Nil THEN Goal(a, CleanupAfter("wait"), Regions)
       ELSE IF ami[r].by # a THEN Goal(a, CleanupAfter("wait"), Regions)
       ELSE IF ami[r].state = "available" THEN Visited(a, r) /\ UNCHANGED pc
       ELSE ami[r].state \in Erroneous /\ Goal(a, CleanupAfter("wait"), Regions)
    /\ UNCHANGED <<ami, recorded, loopVar, thread, faults>>

\* (mutant) the images are not waited for
ImagesReady_AtOnce(a) ==
    /\ pc[a] = "wait"
    /\ Goal(a, "public", Regions)
    /\ UNCHANGED <<ami, recorded, loopVar, thread, faults>>

ImagesReady(a) ==
    /\ pc[a] = "wait" /\ todo[a] = {}
    /\ Goal(a, "public", Regions)
    /\ UNCHANGED <<ami, recorded, loopVar, thread, faults>>

\* One round of set_images_public.
SetPublic(a, r) ==
    /\ pc[a] = "public" /\ r \in todo[a]
    /\ IF ami[r] # Nil /\ ami[r].by = a
         THEN ami' = [ami EXCEPT ![r].public = TRUE] /\ Visited(a, r) /\ UNCHANGED pc
         ELSE UNCHANGED ami /\ Goal(a, CleanupAfter("public"), Regions)
    /\ UNCHANGED <<recorded, loopVar, thread, faults>>

\* promote_single_step re-uploads the manifest with the image ids.
Persist(a) ==
    /\ pc[a] = "public" /\ todo[a] = {}
    /\ recorded' = a
    /\ Go(a, "done")
    /\ UNCHANGED <<ami, todo, loopVar, thread, faults>>

\* Any request of the attempt may fail.
RequestFails(a) ==
    /\ pc[a] \in {"import", "register", "tag", "regions", "copy", "wait", "public"}
    /\ faults < MaxFaults
    /\ faults' = faults + 1
    /\ Goal(a, CleanupAfter(pc[a]), Regions)
    /\ UNCHANGED <<ami, recorded, loopVar, thread>>

-----------------------------------------------------------------------------
(* unregister_images_by_name.  Its loop goes on while the threads it submits *)
(* run, and they read region_name and image_id of the loop when they need    *)
(* them.  What a thread raises is never looked at.                           *)

Call(a) == IF pc[a] = "clean1" THEN 1 ELSE 2
Cleaning(a) == pc[a] \in {"clean1", "clean2"}

\* Where the attempt goes on after a call: its error is raised again.
AfterCleanup(a) == IF pc[a] = "clean1" THEN "clean2" ELSE "failed"

FindImage(a, r) ==
    /\ Cleaning(a) /\ r \in todo[a]
    /\ IF ami[r] = Nil
         THEN UNCHANGED <<loopVar, thread>>
         ELSE /\ loopVar' = [loopVar EXCEPT ![a][Call(a)] = [region |-> r, by |-> ami[r].by]]
              /\ thread' = [thread EXCEPT ![a][Call(a)][r] = "submitted"]
    /\ Visited(a, r)
    /\ UNCHANGED <<ami, recorded, pc, faults>>

\* A thread makes a client for the region that region_name now holds ...
ConnectThread(a, c, r) ==
    /\ thread[a][c][r] = "submitted"
    /\ thread' = [thread EXCEPT ![a][c][r] = loopVar[a][c].region]
    /\ UNCHANGED <<ami, recorded, pc, todo, loopVar, faults>>

\* ... and asks it to deregister the image that image_id now holds.
Deregister(a, c, r) ==
    LET here == thread[a][c][r]
        hit  == /\ loopVar[a][c].region = here
                /\ ami[here] # Nil
                /\ ami[here].by = loopVar[a][c].by
    IN /\ here \in Regions
       /\ ami' = IF hit THEN [ami EXCEPT ![here] = Nil] ELSE ami
       /\ thread' = [thread EXCEPT ![a][c][r] = Nil]
       /\ UNCHANGED <<recorded, pc, todo, loopVar, faults>>

DeregisterFails(a, c, r) ==
    /\ thread[a][c][r] \in Thread
    /\ faults < MaxFaults
    /\ faults' = faults + 1
    /\ thread' = [thread EXCEPT ![a][c][r] = Nil]
    /\ UNCHANGED <<ami, recorded, pc, todo, loopVar>>

EndCleanup(a) ==
    /\ Cleaning(a) /\ todo[a] = {}
    /\ \A r \in Regions : thread[a][Call(a)][r] = Nil
    /\ Goal(a, AfterCleanup(a), IF pc[a] = "clean1" THEN Regions ELSE {})
    /\ UNCHANGED <<ami, recorded, loopVar, thread, faults>>

\* A failing search ends the call, not the threads.
FindImageFails(a) ==
    /\ Cleaning(a) /\ todo[a] # {}
    /\ faults < MaxFaults
    /\ faults' = faults + 1
    /\ Goal(a, AfterCleanup(a), IF pc[a] = "clean1" THEN Regions ELSE {})
    /\ UNCHANGED <<ami, recorded, loopVar, thread>>

-----------------------------------------------------------------------------

NoThread == [c \in Calls |-> [r \in Regions |-> Nil]]

\* The pod of the task is gone, or the task has timed out.
PodLost(a) ==
    /\ a \in Active
    /\ faults < MaxFaults
    /\ faults' = faults + 1
    /\ Goal(a, "lost", {})
    /\ thread' = [thread EXCEPT ![a] = NoThread]
    /\ UNCHANGED <<ami, recorded, loopVar>>

\* AWS ends the processing of an image.
AwsDecides(r) ==
    /\ ami[r] # Nil /\ ami[r].state = "pending"
    /\ \/ ami' = [ami EXCEPT ![r].state = "available"] /\ UNCHANGED faults
       \/ /\ faults < MaxFaults
          /\ faults' = faults + 1
          /\ ami' = [ami EXCEPT ![r].state = "failed"]
    /\ UNCHANGED <<recorded, pc, todo, loopVar, thread>>

Init ==
    /\ ami = [r \in Regions |-> Nil]
    /\ recorded = Nil
    /\ pc = [a \in Attempts |-> "idle"]
    /\ todo = [a \in Attempts |-> {}]
    /\ loopVar = [a \in Attempts |-> [c \in Calls |-> Nil]]
    /\ thread = [a \in Attempts |-> NoThread]
    /\ faults = 0

Publish(a) ==
    \/ Import(a) \/ Register(a) \/ CreateTags(a) \/ EnumerateRegions(a)
    \/ CopiesMade(a) \/ ImagesReady(a) \/ Persist(a)
    \/ \E r \in Regions : CopyImage(a, r) \/ WaitForImage(a, r) \/ SetPublic(a, r)

Cleanup(a) ==
    \/ EndCleanup(a)
    \/ \E r \in Regions : FindImage(a, r)
    \/ \E c \in Calls, r \in Regions : ConnectThread(a, c, r) \/ Deregister(a, c, r)

Fault(a) ==
    \/ RequestFails(a) \/ FindImageFails(a) \/ PodLost(a)
    \/ \E c \in Calls, r \in Regions : DeregisterFails(a, c, r)

Next ==
    \/ \E a \in Attempts : Start(a) \/ Publish(a) \/ Cleanup(a) \/ Fault(a)
    \/ \E r \in Regions : AwsDecides(r)

Spec == Init /\ [][Next]_vars

\* A started attempt goes on, and AWS does not leave an image pending for ever.
FairSpec ==
    /\ Spec
    /\ \A a \in Attempts : WF_vars(Publish(a) \/ Cleanup(a))
    /\ \A r \in Regions : WF_vars(AwsDecides(r))

-----------------------------------------------------------------------------
(* Properties.                                                              *)

Step == Ended \cup {"import", "register", "tag", "regions", "copy", "wait", "public",
                    "clean1", "clean2"}

\* The type invariant.
TypeOK ==
    /\ ami \in [Regions -> Image \cup {Nil}]
    /\ recorded \in Attempts \cup {Nil}
    /\ pc \in [Attempts -> Step]
    /\ todo \in [Attempts -> SUBSET Regions]
    /\ loopVar \in [Attempts -> [Calls -> [region : Regions, by : Attempts] \cup {Nil}]]
    /\ thread \in [Attempts -> [Calls -> [Regions -> Thread \cup {Nil}]]]
    /\ faults \in 0..MaxFaults

\* promote_single_step relies on "transactional semantics" of a manifest with published
\* images: the images it names are there, in every region, ready and public.
RecordedImagesAreUsable ==
    recorded # Nil => \A r \in Regions :
        ami[r] = [by |-> recorded, state |-> "available", public |-> TRUE]

\* Every attempt ends, though wait_for_image_state polls without a timeout.
AttemptsEnd == \A a \in Attempts : pc[a] = "import" ~> pc[a] \in Ended

\* aws.py, upload_and_register_gardenlinux_image: "an error occurred whilst copying images -
\* will remove them" - an attempt whose copying failed has left no image behind.
FailedCopiesAreRemoved ==
    \A a \in Attempts, r \in Regions :
        pc[a] = "failed" /\ loopVar[a][1] # Nil /\ thread[a] = NoThread /\ ami[r] # Nil =>
            ami[r].by # a
=============================================================================

----------------------- MODULE AlicloudPublishProofs -----------------------
(***************************************************************************)
(* Proofs about AlicloudPublish, for any number of attempts, releases and  *)
(* regions.  Types, and whose image a release has, are shown for attempts  *)
(* that overlap in any way; that what is recorded is usable is shown for   *)
(* attempts that take turns for each release, whatever attempts for other  *)
(* releases do at the same time.                                           *)
(*                                                                         *)
(* An attempt builds on what it finds, so what has to be shown of an image *)
(* that is recorded is shown of whatever may lie under its name: it is the *)
(* release's own (OwnImages), and each stage of an attempt has brought all *)
(* regions it has visited to where it needs them (Working).                *)
(***************************************************************************)
EXTENDS AlicloudPublish, FiniteSetTheorems, TLAPS

\* Who is to import has uploaded, so that there is something to import.
TypeInv == TypeOK /\ \A a \in Attempts : pc[a] = "import" => oss # Nil

-----------------------------------------------------------------------------
(* Types, however many attempts overlap.                                    *)

LEMMA InitiallyTypeInv == Init => TypeInv
BY AlicloudAssumption DEF Init, TypeInv, TypeOK, Ended

\* The steps that make, share or delete one image of the release.
LEMMA PutKeepsTypes ==
    ASSUME TypeOK, NEW a \in Attempts, NEW r \in Regions, NEW i \in Image \cup {Nil}, Put(a, r, i)
    PROVE  /\ image' \in [Releases -> [Regions -> Image \cup {Nil}]]
           /\ \A rel \in Releases : rel # ReleaseOf[a] => image'[rel] = image[rel]
           /\ \A q \in Regions : image'[ReleaseOf[a]][q] = IF q = r THEN i ELSE image[ReleaseOf[a]][q]
BY AlicloudAssumption DEF Put, TypeOK

LEMMA FoundIsImage ==
    ASSUME TypeOK, NEW a \in Attempts, NEW r \in Regions, Found(a, r) # Nil
    PROVE  Found(a, r) \in Image /\ Found(a, r).content \in Releases
BY AlicloudAssumption DEF Found, TypeOK, Image

LEMMA NewIsImage ==
    ASSUME NEW c \in Releases
    PROVE  New(c) \in Image /\ New(c).content = c /\ New(c) # Nil
<1>1. New(c) \in Image /\ New(c).content = c
  BY DEF New, Image
<1> QED
  BY <1>1, NoImageIsNil

\* Sharing an image, or no longer, changes nothing else of it.
LEMMA SharingKeepsImage ==
    ASSUME NEW i \in Image, NEW s \in BOOLEAN
    PROVE  /\ [i EXCEPT !.shared = s] \in Image /\ [i EXCEPT !.shared = s] # Nil
           /\ [i EXCEPT !.shared = s].content = i.content
           /\ [i EXCEPT !.shared = s].state = i.state
           /\ [i EXCEPT !.shared = s].shared = s
<1> DEFINE j == [i EXCEPT !.shared = s]
<1>1. j \in Image /\ j.content = i.content /\ j.state = i.state /\ j.shared = s
  BY DEF Image
<1> QED
  BY <1>1, NoImageIsNil

\* What one of these steps puts is an image, and it shows that of what it puts it from.
LEMMA WhatIsPut ==
    ASSUME TypeInv, NEW a \in Attempts, NEW r \in Regions,
           Import(a) \/ CopyImage(a, r) \/ ShareImage(a, r) \/ UnshareImage(a, r) \/ DeleteImage(a, r)
    PROVE  \/ UNCHANGED image
           \/ \E q \in Regions, i \in Image \cup {Nil} :
                  /\ Put(a, q, i)
                  /\ i # Nil => \/ pc[a] = "import" /\ i.content = oss
                                \/ \E p \in Regions : Found(a, p) # Nil /\ i.content = Found(a, p).content
<1> USE DEF TypeInv
<1>1. CASE Import(a)
  <2>1. oss \in Releases
    BY <1>1 DEF Import, TypeOK
  <2> QED
    BY <1>1, <2>1, NewIsImage, AlicloudAssumption DEF Import
<1>2. CASE CopyImage(a, r)
  <2>1. CASE Found(a, r) = Nil /\ Found(a, Home) # Nil
    <3>1. Found(a, Home).content \in Releases /\ Home \in Regions
      BY <2>1, FoundIsImage, AlicloudAssumption
    <3>2. Put(a, r, New(Found(a, Home).content))
      BY <1>2, <2>1 DEF CopyImage
    <3> QED
      BY <2>1, <3>1, <3>2, NewIsImage
  <2> QED
    BY <1>2, <2>1 DEF CopyImage
<1>3. CASE ShareImage(a, r)
  <2>1. CASE Found(a, r) # Nil
    <3>1. Put(a, r, [Found(a, r) EXCEPT !.shared = TRUE])
      BY <1>3, <2>1 DEF ShareImage
    <3>2. /\ [Found(a, r) EXCEPT !.shared = TRUE] \in Image
          /\ [Found(a, r) EXCEPT !.shared = TRUE].content = Found(a, r).content
      BY <2>1, FoundIsImage, SharingKeepsImage
    <3> QED
      BY <2>1, <3>1, <3>2
  <2> QED
    BY <1>3, <2>1 DEF ShareImage
<1>4. CASE UnshareImage(a, r)
  <2>1. Found(a, r) # Nil /\ Put(a, r, [Found(a, r) EXCEPT !.shared = FALSE])
    BY <1>4 DEF UnshareImage
  <2>2. /\ [Found(a, r) EXCEPT !.shared = FALSE] \in Image
        /\ [Found(a, r) EXCEPT !.shared = FALSE].content = Found(a, r).content
    BY <2>1, FoundIsImage, SharingKeepsImage
  <2> QED
    BY <2>1, <2>2
<1>5. CASE DeleteImage(a, r)
  BY <1>5 DEF DeleteImage
<1> QED
  BY <1>1, <1>2, <1>3, <1>4, <1>5

\* The cloud makes up its mind about an image and changes nothing else of it.
LEMMA WhatTheCloudDecides ==
    ASSUME TypeOK, NEW rel \in Releases, NEW r \in Regions, CloudDecides(rel, r)
    PROVE  /\ image' \in [Releases -> [Regions -> Image \cup {Nil}]]
           /\ image[rel][r] # Nil /\ image[rel][r].state = "creating"
           /\ image'[rel][r] # Nil
           /\ image'[rel][r].content = image[rel][r].content
           /\ image'[rel][r].shared = image[rel][r].shared
           /\ \A p \in Releases, q \in Regions : p # rel \/ q # r => image'[p][q] = image[p][q]
<1>1. /\ image[rel][r] \in Image /\ image[rel][r] # Nil /\ image[rel][r].state = "creating"
      /\ \E s \in {"available", "failed"} : image' = [image EXCEPT ![rel][r].state = s]
  BY DEF CloudDecides, TypeOK
<1>2. SUFFICES ASSUME NEW s \in {"available", "failed"}, image' = [image EXCEPT ![rel][r].state = s]
               PROVE  /\ image' \in [Releases -> [Regions -> Image \cup {Nil}]]
                      /\ image'[rel][r] # Nil
                      /\ image'[rel][r].content = image[rel][r].content
                      /\ image'[rel][r].shared = image[rel][r].shared
                      /\ \A p \in Releases, q \in Regions :
                             p # rel \/ q # r => image'[p][q] = image[p][q]
  BY <1>1
<1> DEFINE i == [image[rel][r] EXCEPT !.state = s]
<1>3. i \in Image /\ i.content = image[rel][r].content /\ i.shared = image[rel][r].shared
  BY <1>1 DEF Image
<1>4. image' = [image EXCEPT ![rel][r] = i]
  BY <1>2
<1>5. i # Nil
  BY <1>3, NoImageIsNil
<1> HIDE DEF i
<1> QED
  BY <1>3, <1>4, <1>5 DEF TypeOK

LEMMA ImagesKeepTypes ==
    ASSUME TypeInv, [Next]_vars
    PROVE  image' \in [Releases -> [Regions -> Image \cup {Nil}]]
<1>1. ASSUME NEW a \in Attempts, NEW r \in Regions,
             Import(a) \/ CopyImage(a, r) \/ ShareImage(a, r) \/ UnshareImage(a, r)
             \/ DeleteImage(a, r)
      PROVE  image' \in [Releases -> [Regions -> Image \cup {Nil}]]
  BY <1>1, WhatIsPut, PutKeepsTypes DEF TypeInv, TypeOK
<1>2. ASSUME NEW rel \in Releases, NEW r \in Regions, CloudDecides(rel, r)
      PROVE  image' \in [Releases -> [Regions -> Image \cup {Nil}]]
  BY <1>2, WhatTheCloudDecides DEF TypeInv
<1>3. CASE UNCHANGED image
  BY <1>3 DEF TypeInv, TypeOK
<1>4. CASE UNCHANGED vars
  BY <1>3, <1>4 DEF vars
<1>5. ASSUME NEW a \in Attempts, Start(a) \/ Fault(a)
      PROVE  UNCHANGED image
  BY <1>5 DEF Start, Fault, RequestFails, LookupFails, PodLost, DeleteFails
<1>6. ASSUME NEW a \in Attempts, Publish(a), UNCHANGED image => image' \in [Releases -> [Regions -> Image \cup {Nil}]]
      PROVE  image' \in [Releases -> [Regions -> Image \cup {Nil}]]
  <2>1. CASE Import(a) \/ \E r \in Regions : \/ CopyImage(a, r) \/ ShareImage(a, r)
                                             \/ UnshareImage(a, r) \/ DeleteImage(a, r)
    BY <2>1, <1>1, AlicloudAssumption
  <2>2. CASE \/ Upload(a) \/ WaitForImport(a) \/ CopiesMade(a) \/ CopiesReady(a) \/ Persist(a)
             \/ EndDelete(a)
             \/ \E r \in Regions : WaitForCopy(a, r) \/ WaitFails(a, r) \/ NothingToDelete(a, r)
    BY <1>6, <2>2 DEF Upload, WaitForImport, CopiesMade, CopiesReady, Persist, EndDelete, WaitForCopy,
                 WaitFails, NothingToDelete
  <2> QED
    BY <1>6, <2>1, <2>2 DEF Publish
<1> QED
  BY <1>2, <1>3, <1>4, <1>5, <1>6 DEF Next

\* What an attempt does with its own place and its list, and with the rest but the images.
LEMMA AttemptKeepsTypes ==
    ASSUME TypeInv, NEW a \in Attempts, Start(a) \/ Publish(a) \/ Fault(a)
    PROVE  /\ oss' \in Releases \cup {Nil} /\ (oss # Nil => oss' # Nil)
           /\ recorded' \subseteq Releases /\ faults' \in 0 .. MaxFaults
           /\ \E step \in Ended \cup {"upload", "import", "wait_import", "copy", "wait", "share",
                                      "delete"} :
                  /\ pc' = [pc EXCEPT ![a] = step]
                  /\ step = "import" => Upload(a)
           /\ \E regions \in SUBSET Regions : todo' = [todo EXCEPT ![a] = regions]
<1> USE AlicloudAssumption DEF TypeInv, TypeOK, Ended, Go, Goal, Visited
<1> DEFINE Steps == Ended \cup {"upload", "import", "wait_import", "copy", "wait", "share", "delete"}
           Fits == /\ oss' \in Releases \cup {Nil} /\ (oss # Nil => oss' # Nil)
                   /\ recorded' \subseteq Releases /\ faults' \in 0 .. MaxFaults
                   /\ \E step \in Steps : pc' = [pc EXCEPT ![a] = step] /\ (step = "import" => Upload(a))
                   /\ \E regions \in SUBSET Regions : todo' = [todo EXCEPT ![a] = regions]
<1>a. /\ pc = [pc EXCEPT ![a] = pc[a]] /\ pc[a] \in Steps
      /\ todo = [todo EXCEPT ![a] = todo[a]] /\ todo[a] \in SUBSET Regions
  OBVIOUS
<1>1. CASE Start(a) \/ WaitForImport(a) \/ CopiesMade(a) \/ CopiesReady(a) \/ EndDelete(a)
  BY <1>1, <1>a DEF Start, WaitForImport, CopiesMade, CopiesReady, EndDelete
<1>2. CASE Upload(a)
  BY <1>2, <1>a DEF Upload
<1>3. CASE Import(a) \/ Persist(a)
  BY <1>3, <1>a DEF Import, Persist
<1>4. CASE RequestFails(a) \/ LookupFails(a) \/ PodLost(a)
  BY <1>4, <1>a DEF RequestFails, LookupFails, PodLost
<1>5. ASSUME NEW r \in Regions, CopyImage(a, r) \/ ShareImage(a, r)
      PROVE  Fits
  <2>1. (UNCHANGED pc /\ todo' = [todo EXCEPT ![a] = @ \ {r}]) \/ Goal(a, "delete", Regions)
    BY <1>5 DEF CopyImage, ShareImage
  <2>2. pc[a] # "import" /\ UNCHANGED <<oss, recorded, faults>>
    BY <1>5 DEF CopyImage, ShareImage
  <2> QED
    BY <2>1, <2>2, <1>a
<1>6. ASSUME NEW r \in Regions,
             WaitForCopy(a, r) \/ NothingToDelete(a, r) \/ UnshareImage(a, r) \/ DeleteImage(a, r)
      PROVE  Fits
  <2>1. (UNCHANGED pc /\ todo' = [todo EXCEPT ![a] = @ \ {r}]) \/ UNCHANGED <<pc, todo>>
    BY <1>6 DEF WaitForCopy, NothingToDelete, UnshareImage, DeleteImage
  <2>2. pc[a] # "import" /\ UNCHANGED <<oss, recorded, faults>>
    BY <1>6 DEF WaitForCopy, NothingToDelete, UnshareImage, DeleteImage, Deleting
  <2> QED
    BY <2>1, <2>2, <1>a
<1>7. ASSUME NEW r \in Regions, WaitFails(a, r)
      PROVE  Fits
  <2>1. faults' \in 0 .. MaxFaults
    BY <1>7 DEF WaitFails
  <2>2. UNCHANGED <<oss, recorded>> /\ Goal(a, "delete", Regions)
    BY <1>7 DEF WaitFails
  <2> QED
    BY <2>1, <2>2
<1>8. ASSUME NEW r \in Regions, DeleteFails(a, r)
      PROVE  Fits
  <2>1. pc[a] = "delete" /\ UNCHANGED pc /\ todo' = [todo EXCEPT ![a] = @ \ {r}]
    BY <1>8 DEF DeleteFails, Deleting
  <2>2. faults' \in 0 .. MaxFaults /\ UNCHANGED <<oss, recorded>>
    BY <1>8 DEF DeleteFails
  <2>3. todo[a] \ {r} \in SUBSET Regions /\ todo' = [todo EXCEPT ![a] = todo[a] \ {r}]
    BY <2>1, <1>a
  <2>4. pc' = [pc EXCEPT ![a] = pc[a]] /\ pc[a] \in Steps /\ pc[a] # "import"
    BY <2>1, <1>a
  <2> HIDE DEF Steps
  <2> QED
    BY <2>2, <2>3, <2>4
<1> QED
  BY <1>1, <1>2, <1>3, <1>4, <1>5, <1>6, <1>7, <1>8 DEF Publish, Fault

LEMMA StepKeepsTypes ==
    ASSUME TypeInv, [Next]_vars
    PROVE  TypeInv'
<1>1. image' \in [Releases -> [Regions -> Image \cup {Nil}]]
  BY ImagesKeepTypes
<1>2. CASE UNCHANGED vars
  BY <1>2 DEF vars, TypeInv, TypeOK, Ended
<1>3. ASSUME NEW a \in Attempts, Start(a) \/ Publish(a) \/ Fault(a)
      PROVE  TypeInv'
  <2>1. oss' \in Releases \cup {Nil} /\ recorded' \subseteq Releases /\ faults' \in 0 .. MaxFaults
    BY <1>3, AttemptKeepsTypes
  <2>2. /\ pc' \in [Attempts -> Ended \cup {"upload", "import", "wait_import", "copy", "wait",
                                           "share", "delete"}]
        /\ todo' \in [Attempts -> SUBSET Regions]
    BY <1>3, AttemptKeepsTypes DEF TypeInv, TypeOK
  <2>3. ASSUME NEW b \in Attempts, pc'[b] = "import"
        PROVE  oss' # Nil
    <3>1. CASE Upload(a)
      BY <3>1, AlicloudAssumption DEF Upload
    <3>2. CASE ~Upload(a)
      <4>1. pc[b] = "import"
        BY <1>3, <2>3, <3>2, AttemptKeepsTypes DEF TypeInv, TypeOK
      <4> QED
        BY <4>1, <1>3, AttemptKeepsTypes DEF TypeInv
    <3> QED
      BY <3>1, <3>2
  <2> QED
    BY <1>1, <2>1, <2>2, <2>3 DEF TypeInv, TypeOK
<1>4. ASSUME NEW rel \in Releases, NEW r \in Regions, CloudDecides(rel, r)
      PROVE  TypeInv'
  BY <1>1, <1>4, AlicloudAssumption DEF CloudDecides, TypeInv, TypeOK
<1> QED
  BY <1>2, <1>3, <1>4 DEF Next

-----------------------------------------------------------------------------
(* Whose image a release has, however many attempts overlap.                *)

OwnImages ==
    \A rel \in Releases, r \in Regions : image[rel][r] # Nil => image[rel][r].content = rel

OwnUploads == \A a \in Attempts : pc[a] = "import" => oss = ReleaseOf[a]

OwnInv == TypeInv /\ OwnImages /\ OwnUploads

LEMMA InitiallyOwnInv == Init => OwnInv
BY InitiallyTypeInv, AlicloudAssumption DEF Init, OwnInv, OwnImages, OwnUploads

\* The images of a release are made from what lies at the version's object, and from each
\* other.
LEMMA ImagesStayOwn ==
    ASSUME OwnInv, NEW a \in Attempts, NEW r \in Regions,
           Import(a) \/ CopyImage(a, r) \/ ShareImage(a, r) \/ UnshareImage(a, r) \/ DeleteImage(a, r)
    PROVE  OwnImages'
<1>1. CASE UNCHANGED image
  BY <1>1 DEF OwnInv, OwnImages
<1>2. ASSUME NEW q \in Regions, NEW i \in Image \cup {Nil}, Put(a, q, i),
             i # Nil => \/ pc[a] = "import" /\ i.content = oss
                        \/ \E p \in Regions : Found(a, p) # Nil /\ i.content = Found(a, p).content
      PROVE  OwnImages'
  <2>1. i # Nil => i.content = ReleaseOf[a]
    BY <1>2, AlicloudAssumption DEF OwnInv, OwnImages, OwnUploads, Found
  <2>2. /\ \A rel \in Releases : rel # ReleaseOf[a] => image'[rel] = image[rel]
        /\ \A p \in Regions : image'[ReleaseOf[a]][p] = IF p = q THEN i ELSE image[ReleaseOf[a]][p]
    BY <1>2, PutKeepsTypes DEF OwnInv, TypeInv
  <2> QED
    BY <2>1, <2>2 DEF OwnInv, OwnImages
<1> QED
  BY <1>1, <1>2, WhatIsPut DEF OwnInv

LEMMA StepKeepsOwnInv ==
    ASSUME OwnInv, UploadsApart', [Next]_vars
    PROVE  OwnInv'
<1>1. TypeInv'
  BY StepKeepsTypes DEF OwnInv
<1>2. CASE UNCHANGED vars
  BY <1>1, <1>2 DEF vars, OwnInv, OwnImages, OwnUploads
<1>3. ASSUME NEW a \in Attempts, Start(a) \/ Publish(a) \/ Fault(a)
      PROVE  OwnInv'
  <2>1. OwnImages'
    <3>1. CASE Import(a) \/ \E r \in Regions : \/ CopyImage(a, r) \/ ShareImage(a, r)
                                               \/ UnshareImage(a, r) \/ DeleteImage(a, r)
      BY <3>1, ImagesStayOwn, AlicloudAssumption
    <3>2. CASE UNCHANGED image
      BY <3>2 DEF OwnInv, OwnImages
    <3>3. CASE Publish(a)
      BY <3>1, <3>2, <3>3 DEF Publish, Upload, WaitForImport, CopiesMade, CopiesReady, Persist,
                              EndDelete, WaitForCopy, WaitFails, NothingToDelete
    <3>4. CASE Start(a) \/ Fault(a)
      BY <3>2, <3>4 DEF Start, Fault, RequestFails, LookupFails, PodLost, DeleteFails
    <3> QED
      BY <1>3, <3>3, <3>4
  <2>2. OwnUploads'
    <3>1. CASE Upload(a)
      <4>1. oss' = ReleaseOf[a] /\ pc'[a] = "import"
        BY <3>1 DEF Upload, Go, OwnInv, TypeInv, TypeOK
      <4> QED
        BY <4>1 DEF OwnUploads, UploadsApart
    <3>2. CASE ~Upload(a)
      <4>1. \A b \in Attempts : pc'[b] = "import" => pc[b] = "import"
        BY <1>3, <3>2, AttemptKeepsTypes DEF OwnInv, TypeInv, TypeOK
      <4>2. UNCHANGED oss
        <5>1. CASE Start(a) \/ Fault(a)
          BY <5>1 DEF Start, Fault, RequestFails, LookupFails, PodLost, DeleteFails
        <5>2. CASE Publish(a)
          BY <5>2, <3>2 DEF Publish, Import, WaitForImport, CopiesMade, CopiesReady, Persist,
                            EndDelete, CopyImage, WaitForCopy, WaitFails, ShareImage,
                            NothingToDelete, UnshareImage, DeleteImage
        <5> QED
          BY <1>3, <5>1, <5>2
      <4> QED
        BY <4>1, <4>2 DEF OwnInv, OwnUploads
    <3> QED
      BY <3>1, <3>2
  <2> QED
    BY <1>1, <2>1, <2>2 DEF OwnInv
<1>4. ASSUME NEW rel \in Releases, NEW r \in Regions, CloudDecides(rel, r)
      PROVE  OwnInv'
  <2>1. OwnImages'
    BY <1>4, WhatTheCloudDecides DEF OwnInv, TypeInv, OwnImages
  <2>2. OwnUploads'
    BY <1>4 DEF CloudDecides, OwnInv, OwnUploads
  <2> QED
    BY <1>1, <2>1, <2>2 DEF OwnInv
<1> QED
  BY <1>2, <1>3, <1>4 DEF Next

-----------------------------------------------------------------------------
(* That what is recorded is usable, when attempts for one release take turns. *)

\* Attempts for one release take turns, and none starts once the release is recorded.
Turns ==
    /\ \A a, b \in Active : ReleaseOf[a] = ReleaseOf[b] => a = b
    /\ \A a \in Active : ReleaseOf[a] \notin recorded

There(a, r)  == Found(a, r) # Nil
Ready(a, r)  == There(a, r) /\ Found(a, r).state = "available"
Shared(a, r) == Ready(a, r) /\ Found(a, r).shared

Working ==
    \A a \in Attempts :
        /\ pc[a] = "copy" => Ready(a, Home) /\ \A r \in Regions \ todo[a] : There(a, r)
        /\ pc[a] = "wait" => /\ \A r \in Regions : There(a, r)
                             /\ \A r \in Regions \ todo[a] : Ready(a, r)
        /\ pc[a] = "share" => /\ \A r \in Regions : Ready(a, r)
                              /\ \A r \in Regions \ todo[a] : Shared(a, r)

PublishInv == TypeInv /\ Turns /\ Working /\ RecordedImagesAreUsable

-----------------------------------------------------------------------------

LEMMA InitiallyPublishInv == Init => PublishInv
BY InitiallyTypeInv DEF Init, PublishInv, Turns, Working, RecordedImagesAreUsable, Active, Ended

\* An attempt is started only when none for the same release is under way.
LEMMA OneAtATime ==
    ASSUME PublishInv, MaxActive = 1, NEW a \in Attempts, Start(a)
    PROVE  \A b \in Active : ReleaseOf[b] # ReleaseOf[a]
<1> DEFINE Same == {b \in Active : ReleaseOf[b] = ReleaseOf[a]}
<1>1. IsFiniteSet(Same)
  <2>1. CASE Same = {}
    BY <2>1, FS_EmptySet
  <2>2. CASE Same # {}
    <3>1. PICK b \in Same : TRUE
      BY <2>2
    <3>2. Same = {b}
      BY <3>1 DEF PublishInv, Turns
    <3> QED
      BY <3>2, FS_Singleton
  <2> QED
    BY <2>1, <2>2
<1>2. Cardinality(Same) < 1
  BY DEF Start
<1> HIDE DEF Same
<1>3. Cardinality(Same) = 0
  BY <1>1, <1>2, FS_CardinalityType
<1>4. Same = {}
  BY <1>1, <1>3, FS_EmptySet
<1> QED
  BY <1>4 DEF Same

\* While an attempt is under way those for the same release are not, and a step of it does
\* not start them.
LEMMA OthersRest ==
    ASSUME PublishInv, NEW a \in Attempts, a \in Active,
           pc' = [pc EXCEPT ![a] = pc'[a]]
    PROVE  /\ \A b \in Attempts : b # a => pc'[b] = pc[b]
           /\ \A b \in Attempts : b # a /\ ReleaseOf[b] = ReleaseOf[a] => pc[b] \in Ended
           /\ \A b, c \in Active' : ReleaseOf[b] = ReleaseOf[c] => b = c
           /\ Active' \subseteq Active
BY DEF PublishInv, Turns, Active, TypeInv, TypeOK

\* A step of an attempt keeps what concerns the others: only its own part is left to show.
LEMMA OwnPartSuffices ==
    ASSUME PublishInv, TypeInv', NEW a \in Attempts, a \in Active,
           pc' = [pc EXCEPT ![a] = pc'[a]], todo' = [todo EXCEPT ![a] = todo'[a]],
           \A rel \in Releases : rel # ReleaseOf[a] => image'[rel] = image[rel],
           recorded' = recorded,
           /\ pc'[a] = "copy" => Ready(a, Home)' /\ \A r \in Regions \ todo'[a] : There(a, r)'
           /\ pc'[a] = "wait" => /\ \A r \in Regions : There(a, r)'
                                 /\ \A r \in Regions \ todo'[a] : Ready(a, r)'
           /\ pc'[a] = "share" => /\ \A r \in Regions : Ready(a, r)'
                                  /\ \A r \in Regions \ todo'[a] : Shared(a, r)'
    PROVE  PublishInv'
<1>1. Turns'
  BY OthersRest DEF PublishInv, Turns
<1>2. Working'
  <2>1. ASSUME NEW b \in Attempts, b # a, ReleaseOf[b] = ReleaseOf[a] PROVE pc'[b] \in Ended
    BY <2>1, OthersRest
  <2>2. ASSUME NEW b \in Attempts, ReleaseOf[b] # ReleaseOf[a]
        PROVE  /\ pc'[b] = pc[b] /\ todo'[b] = todo[b]
               /\ image'[ReleaseOf[b]] = image[ReleaseOf[b]]
    BY <2>2, OthersRest, AlicloudAssumption DEF PublishInv, TypeInv, TypeOK
  <2>3. ASSUME NEW b \in Attempts, ReleaseOf[b] # ReleaseOf[a], NEW r \in Regions
        PROVE  /\ There(b, r)' <=> There(b, r)
               /\ Ready(b, r)' <=> Ready(b, r)
               /\ Shared(b, r)' <=> Shared(b, r)
    BY <2>2, <2>3 DEF There, Ready, Shared, Found
  <2>4. ASSUME NEW b \in Attempts, ReleaseOf[b] # ReleaseOf[a]
        PROVE  /\ pc'[b] = "copy" => Ready(b, Home)' /\ \A r \in Regions \ todo'[b] : There(b, r)'
               /\ pc'[b] = "wait" => /\ \A r \in Regions : There(b, r)'
                                     /\ \A r \in Regions \ todo'[b] : Ready(b, r)'
               /\ pc'[b] = "share" => /\ \A r \in Regions : Ready(b, r)'
                                      /\ \A r \in Regions \ todo'[b] : Shared(b, r)'
    BY <2>2, <2>3, <2>4, AlicloudAssumption DEF PublishInv, Working
  <2> QED
    BY <2>1, <2>4 DEF Working, Ended
<1>3. RecordedImagesAreUsable'
  BY DEF PublishInv, Turns, RecordedImagesAreUsable, TypeInv, TypeOK
<1> QED
  BY <1>1, <1>2, <1>3 DEF PublishInv

-----------------------------------------------------------------------------
(* The steps of an attempt.                                                 *)

LEMMA StartKeeps ==
    ASSUME PublishInv, TypeInv', MaxActive = 1, NEW a \in Attempts, Start(a)
    PROVE  PublishInv'
<1>1. \A b \in Active : ReleaseOf[b] # ReleaseOf[a]
  BY OneAtATime
<1>2. /\ pc'[a] = "upload" /\ UNCHANGED <<oss, image, recorded, faults, todo>>
      /\ \A b \in Attempts : b # a => pc'[b] = pc[b]
  BY DEF Start, Go, PublishInv, TypeInv, TypeOK
<1>3. Turns'
  <2>1. Active' = Active \cup {a}
    BY <1>2 DEF Active, Ended
  <2> QED
    BY <1>1, <1>2, <2>1 DEF PublishInv, Turns, Start
<1>4. RecordedImagesAreUsable'
  BY <1>2 DEF PublishInv, RecordedImagesAreUsable
<1>5. Working'
  BY <1>2 DEF PublishInv, Working, There, Ready, Shared, Found
<1> QED
  BY <1>3, <1>4, <1>5 DEF PublishInv

\* The steps that leave the images and what is recorded as they are.
LEMMA LookingKeeps ==
    ASSUME PublishInv, TypeInv', NEW a \in Attempts,
           \/ Upload(a) \/ WaitForImport(a) \/ CopiesMade(a) \/ CopiesReady(a) \/ EndDelete(a)
           \/ Fault(a)
           \/ \E r \in Regions : WaitForCopy(a, r) \/ WaitFails(a, r) \/ NothingToDelete(a, r)
    PROVE  PublishInv'
<1>1. a \in Active
  BY DEF Active, Ended, Upload, WaitForImport, CopiesMade, CopiesReady, EndDelete, Fault,
         RequestFails, LookupFails, PodLost, DeleteFails, Deleting, WaitForCopy, WaitFails,
         NothingToDelete
<1>2. UNCHANGED <<image, recorded>>
  BY DEF Upload, WaitForImport, CopiesMade, CopiesReady, EndDelete, Fault, RequestFails,
         LookupFails, PodLost, DeleteFails, WaitForCopy, WaitFails, NothingToDelete
<1>3. pc' = [pc EXCEPT ![a] = pc'[a]] /\ todo' = [todo EXCEPT ![a] = todo'[a]]
  BY AttemptKeepsTypes DEF Publish, PublishInv, TypeInv, TypeOK
<1> DEFINE NextStage ==
      /\ pc'[a] = "copy" => Ready(a, Home)' /\ \A r \in Regions \ todo'[a] : There(a, r)'
      /\ pc'[a] = "wait" => /\ \A r \in Regions : There(a, r)'
                            /\ \A r \in Regions \ todo'[a] : Ready(a, r)'
      /\ pc'[a] = "share" => /\ \A r \in Regions : Ready(a, r)'
                             /\ \A r \in Regions \ todo'[a] : Shared(a, r)'
<1>4. NextStage
  <2> USE AlicloudAssumption DEF Go, Goal, PublishInv, TypeInv, TypeOK
  <2>1. CASE Upload(a)
    BY <2>1 DEF Upload
  <2>2. CASE WaitForImport(a)
    BY <2>2 DEF WaitForImport, Working, Ready, There, Found
  <2>3. CASE CopiesMade(a)
    BY <2>3 DEF CopiesMade, Working, Ready, There, Found
  <2>4. CASE CopiesReady(a)
    BY <2>4 DEF CopiesReady, Working, Ready, There, Found
  <2>5. CASE EndDelete(a) \/ RequestFails(a) \/ LookupFails(a) \/ PodLost(a)
    BY <2>5 DEF EndDelete, RequestFails, LookupFails, PodLost
  <2>6. ASSUME NEW r \in Regions, WaitFails(a, r)
        PROVE  NextStage
    BY <2>6 DEF WaitFails
  <2>7. ASSUME NEW r \in Regions, WaitForCopy(a, r)
        PROVE  NextStage
    BY <2>7 DEF WaitForCopy, Visited, Working, Ready, There, Found
  <2>8. ASSUME NEW r \in Regions, NothingToDelete(a, r) \/ DeleteFails(a, r)
        PROVE  NextStage
    BY <2>8 DEF NothingToDelete, DeleteFails, Deleting, Visited
  <2> QED
    BY <2>1, <2>2, <2>3, <2>4, <2>5, <2>6, <2>7, <2>8 DEF Fault
<1> QED
  BY <1>1, <1>2, <1>3, <1>4, OwnPartSuffices

LEMMA ImportKeeps ==
    ASSUME PublishInv, TypeInv', NEW a \in Attempts, Import(a)
    PROVE  PublishInv'
<1>1. a \in Active /\ UNCHANGED <<recorded, todo>> /\ pc' = [pc EXCEPT ![a] = "wait_import"]
  BY DEF Active, Ended, Import, Go
<1>2. \A rel \in Releases : rel # ReleaseOf[a] => image'[rel] = image[rel]
  BY DEF Import, Put, PublishInv, TypeInv, TypeOK
<1>3. pc'[a] = "wait_import" /\ todo' = [todo EXCEPT ![a] = todo'[a]]
  BY <1>1 DEF PublishInv, TypeInv, TypeOK
<1> QED
  BY <1>1, <1>2, <1>3, OwnPartSuffices

LEMMA CopyImageKeeps ==
    ASSUME PublishInv, TypeInv', NEW a \in Attempts, NEW r \in Regions, CopyImage(a, r)
    PROVE  PublishInv'
<1>1. /\ a \in Active /\ pc[a] = "copy" /\ r \in todo[a] /\ Ready(a, Home)
      /\ UNCHANGED <<recorded, pc>> /\ todo' = [todo EXCEPT ![a] = @ \ {r}]
      /\ ReleaseOf[a] \in Releases /\ Home \in Regions
  BY AlicloudAssumption
     DEF Active, Ended, CopyImage, PublishInv, Working, Ready, There, Visited
<1>2. todo'[a] = todo[a] \ {r} /\ todo' = [todo EXCEPT ![a] = todo'[a]] /\ pc'[a] = "copy"
      /\ pc' = [pc EXCEPT ![a] = pc'[a]]
  BY <1>1 DEF PublishInv, TypeInv, TypeOK
<1>3. /\ \A rel \in Releases : rel # ReleaseOf[a] => image'[rel] = image[rel]
      /\ image'[ReleaseOf[a]][r] # Nil
      /\ \A q \in Regions : \/ q = r /\ r # Home
                            \/ image'[ReleaseOf[a]][q] = image[ReleaseOf[a]][q]
  <2>1. CASE Found(a, r) # Nil
    <3>1. UNCHANGED image
      BY <2>1 DEF CopyImage
    <3> QED
      BY <2>1, <3>1 DEF Found
  <2>2. CASE Found(a, r) = Nil
    <3>1. Found(a, Home) # Nil /\ r # Home
      BY <1>1, <2>2 DEF Ready, There
    <3>2. Put(a, r, New(Found(a, Home).content))
      BY <2>2, <3>1 DEF CopyImage
    <3>3. New(Found(a, Home).content) \in Image /\ New(Found(a, Home).content) # Nil
      BY <1>1, <3>1, FoundIsImage, NewIsImage DEF PublishInv, TypeInv
    <3> QED
      BY <1>1, <3>1, <3>2, <3>3, PutKeepsTypes DEF PublishInv, TypeInv
  <2> QED
    BY <2>1, <2>2
<1>4. Ready(a, Home)' /\ \A q \in Regions \ todo'[a] : There(a, q)'
  BY <1>1, <1>2, <1>3 DEF PublishInv, Working, Ready, There, Found
<1> QED
  BY <1>1, <1>2, <1>3, <1>4, OwnPartSuffices

LEMMA ShareImageKeeps ==
    ASSUME PublishInv, TypeInv', NEW a \in Attempts, NEW r \in Regions, ShareImage(a, r)
    PROVE  PublishInv'
<1>1. /\ a \in Active /\ pc[a] = "share" /\ r \in todo[a] /\ ReleaseOf[a] \in Releases
      /\ \A q \in Regions : Ready(a, q)
      /\ Found(a, r) # Nil /\ Found(a, r).state = "available"
  BY AlicloudAssumption DEF Active, Ended, ShareImage, PublishInv, Working, Ready, There
<1>2. /\ Put(a, r, [Found(a, r) EXCEPT !.shared = TRUE])
      /\ UNCHANGED <<recorded, pc>> /\ todo' = [todo EXCEPT ![a] = @ \ {r}]
  BY <1>1 DEF ShareImage, Visited
<1>3. todo'[a] = todo[a] \ {r} /\ todo' = [todo EXCEPT ![a] = todo'[a]] /\ pc'[a] = "share"
      /\ pc' = [pc EXCEPT ![a] = pc'[a]]
  BY <1>1, <1>2 DEF PublishInv, TypeInv, TypeOK
<1> DEFINE i == [Found(a, r) EXCEPT !.shared = TRUE]
<1>4. Found(a, r) \in Image
  BY <1>1, FoundIsImage DEF PublishInv, TypeInv
<1>5. i \in Image /\ i # Nil /\ i.state = "available" /\ i.shared
  BY <1>1, <1>4, SharingKeepsImage
<1>6. Put(a, r, i)
  BY <1>2
<1> HIDE DEF i
<1>7. /\ \A rel \in Releases : rel # ReleaseOf[a] => image'[rel] = image[rel]
      /\ \A q \in Regions : image'[ReleaseOf[a]][q] = IF q = r THEN i ELSE image[ReleaseOf[a]][q]
  BY <1>5, <1>6, PutKeepsTypes DEF PublishInv, TypeInv
<1>8. (\A q \in Regions : Ready(a, q)') /\ \A q \in Regions \ todo'[a] : Shared(a, q)'
  BY <1>1, <1>3, <1>5, <1>7 DEF PublishInv, Working, Shared, Ready, There, Found
<1> QED
  BY <1>1, <1>2, <1>3, <1>7, <1>8, OwnPartSuffices

\* The steps of a failing attempt that remove what has its name.
LEMMA RemovingKeeps ==
    ASSUME PublishInv, TypeInv', NEW a \in Attempts, NEW r \in Regions,
           UnshareImage(a, r) \/ DeleteImage(a, r)
    PROVE  PublishInv'
<1>1. /\ a \in Active /\ pc[a] = "delete" /\ UNCHANGED <<recorded, pc>>
      /\ \A rel \in Releases : rel # ReleaseOf[a] => image'[rel] = image[rel]
      /\ UNCHANGED todo \/ todo' = [todo EXCEPT ![a] = @ \ {r}]
  BY DEF Active, Ended, UnshareImage, DeleteImage, Deleting, Visited, Put, PublishInv, TypeInv,
         TypeOK
<1>2. /\ pc'[a] = "delete" /\ pc' = [pc EXCEPT ![a] = pc'[a]]
      /\ todo' = [todo EXCEPT ![a] = todo'[a]]
  BY <1>1 DEF PublishInv, TypeInv, TypeOK
<1> QED
  BY <1>1, <1>2, OwnPartSuffices

\* What is recorded is what the last stage has brought to its end in every region.
LEMMA PersistKeeps ==
    ASSUME PublishInv, TypeInv', NEW a \in Attempts, Persist(a)
    PROVE  PublishInv'
<1>1. /\ a \in Active /\ \A r \in Regions : Shared(a, r)
      /\ UNCHANGED <<oss, image, faults, todo>> /\ ReleaseOf[a] \in Releases
      /\ pc' = [pc EXCEPT ![a] = "done"] /\ recorded' = recorded \cup {ReleaseOf[a]}
  BY AlicloudAssumption DEF Active, Ended, Persist, Go, PublishInv, Working
<1>2. pc'[a] = "done" /\ pc' = [pc EXCEPT ![a] = pc'[a]]
  BY <1>1 DEF PublishInv, TypeInv, TypeOK
<1>3. /\ \A b \in Attempts : b # a => pc'[b] = pc[b]
      /\ a \notin Active' /\ Active' \subseteq Active
  BY <1>1, <1>2, OthersRest DEF Active, Ended
<1>4. Turns'
  BY <1>1, <1>3, OthersRest DEF PublishInv, Turns
<1>5. Working'
  BY <1>1, <1>2, <1>3 DEF PublishInv, Working, There, Ready, Shared, Found
<1>6. RecordedImagesAreUsable'
  BY <1>1 DEF PublishInv, RecordedImagesAreUsable, Shared, Ready, There, Found
<1> QED
  BY <1>4, <1>5, <1>6 DEF PublishInv

\* An image that is still being made is none that anybody relies on being ready.
LEMMA CloudDecidesKeeps ==
    ASSUME PublishInv, TypeInv', NEW rel \in Releases, NEW r \in Regions, CloudDecides(rel, r)
    PROVE  PublishInv'
<1>1. UNCHANGED <<recorded, pc, todo>>
  BY DEF CloudDecides
<1>2. /\ image[rel][r] # Nil /\ image[rel][r].state = "creating"
      /\ image'[rel][r] # Nil
      /\ \A p \in Releases, q \in Regions : p # rel \/ q # r => image'[p][q] = image[p][q]
  BY WhatTheCloudDecides DEF PublishInv, TypeInv
<1>3. Turns'
  BY <1>1 DEF PublishInv, Turns, Active
<1>4. RecordedImagesAreUsable'
  <2>1. \A p \in recorded : p \in Releases /\ p # rel
    BY <1>2 DEF PublishInv, TypeInv, TypeOK, RecordedImagesAreUsable
  <2> QED
    BY <1>1, <1>2, <2>1 DEF PublishInv, RecordedImagesAreUsable
<1>5. Working'
  <2>1. ASSUME NEW a \in Attempts, NEW q \in Regions
        PROVE  /\ There(a, q) => There(a, q)'
               /\ Ready(a, q) => Ready(a, q)'
               /\ Shared(a, q) => Shared(a, q)'
    <3>1. ReleaseOf[a] \in Releases
      BY AlicloudAssumption
    <3> QED
      BY <1>2, <3>1 DEF There, Ready, Shared, Found
  <2> QED
    BY <1>1, <2>1, AlicloudAssumption DEF PublishInv, Working
<1> QED
  BY <1>3, <1>4, <1>5 DEF PublishInv

LEMMA StepKeepsPublishInv ==
    ASSUME PublishInv, MaxActive = 1, [Next]_vars
    PROVE  PublishInv'
<1>a. TypeInv'
  BY StepKeepsTypes DEF PublishInv
<1>1. CASE UNCHANGED vars
  <2>1. Turns'
    BY <1>1 DEF vars, PublishInv, Turns, Active
  <2>2. Working' /\ RecordedImagesAreUsable'
    BY <1>1 DEF vars, PublishInv, Working, RecordedImagesAreUsable, There, Ready, Shared, Found
  <2> QED
    BY <1>a, <2>1, <2>2 DEF PublishInv
<1>2. ASSUME NEW a \in Attempts, Start(a) \/ Publish(a) \/ Fault(a)
      PROVE  PublishInv'
  <2>1. CASE Start(a)
    BY <1>a, <2>1, StartKeeps
  <2>2. CASE Fault(a)
    BY <1>a, <2>2, LookingKeeps
  <2>3. CASE Publish(a)
    <3>1. CASE \/ Upload(a) \/ WaitForImport(a) \/ CopiesMade(a) \/ CopiesReady(a) \/ EndDelete(a)
               \/ \E r \in Regions : \/ WaitForCopy(a, r) \/ WaitFails(a, r)
                                     \/ NothingToDelete(a, r)
      BY <1>a, <3>1, LookingKeeps
    <3>2. CASE Import(a) \/ Persist(a)
      BY <1>a, <3>2, ImportKeeps, PersistKeeps
    <3>3. CASE \E r \in Regions : \/ CopyImage(a, r) \/ ShareImage(a, r)
                                  \/ UnshareImage(a, r) \/ DeleteImage(a, r)
      BY <1>a, <3>3, CopyImageKeeps, ShareImageKeeps, RemovingKeeps
    <3> QED
      BY <2>3, <3>1, <3>2, <3>3 DEF Publish
  <2> QED
    BY <1>2, <2>1, <2>2, <2>3
<1>3. ASSUME NEW rel \in Releases, NEW r \in Regions, CloudDecides(rel, r)
      PROVE  PublishInv'
  BY <1>a, <1>3, CloudDecidesKeeps
<1> QED
  BY <1>1, <1>2, <1>3 DEF Next

-----------------------------------------------------------------------------
(* What follows.                                                            *)

\* Every variable keeps its type, however many attempts overlap.
THEOREM AlicloudTypeCorrect == Spec => []TypeOK
<1>1. TypeInv /\ [Next]_vars => TypeInv'
  BY StepKeepsTypes
<1>2. TypeInv => TypeOK
  BY DEF TypeInv
<1> QED
  BY <1>1, <1>2, InitiallyTypeInv, PTL DEF Spec

\* All releases of a version are imported from one OSS object, which attempts overwrite
\* without looking.  Still no release is published with the image of another, in whatever
\* other ways attempts overlap, if no upload of another release falls between an upload and
\* the import that follows it.
THEOREM PublishedIsOwn == Spec => RecordedImagesAreOwn
<1>1. OwnInv /\ UploadsApart' /\ [Next]_vars => OwnInv'
  BY StepKeepsOwnInv
<1>2. OwnInv => \A rel \in recorded, r \in Regions :
                    image[rel][r] # Nil => image[rel][r].content = rel
  BY DEF OwnInv, OwnImages, TypeInv, TypeOK
<1> QED
  BY <1>1, <1>2, InitiallyOwnInv, PTL DEF Spec, RecordedImagesAreOwn

\* When attempts for one release take turns, each stage finds what the one before has brought
\* about, whatever attempts for other releases do: the inductive invariant of alicloud.py.
THEOREM PublishInvariant == ASSUME MaxActive = 1 PROVE Spec => []PublishInv
<1>1. Init => PublishInv
  BY InitiallyPublishInv
<1>2. PublishInv /\ [Next]_vars => PublishInv'
  BY StepKeepsPublishInv
<1> QED
  BY <1>1, <1>2, PTL DEF Spec

\* What make_image has handed to the manifest is available and shared in every region, also
\* when an attempt has put it together from what others left.
THEOREM PublishedIsUsable == ASSUME MaxActive = 1 PROVE Spec => []RecordedImagesAreUsable
<1>1. PublishInv => RecordedImagesAreUsable
  BY DEF PublishInv
<1> QED
  BY <1>1, PublishInvariant, PTL
=============================================================================

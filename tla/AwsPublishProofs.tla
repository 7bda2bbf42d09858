-------------------------- MODULE AwsPublishProofs --------------------------
(***************************************************************************)
(* Proofs about AwsPublish, for any number of attempts and regions: its    *)
(* types, and what holds of the images when attempts take turns.           *)
(*                                                                         *)
(* The removal of images deregisters by loop variables that have moved on, *)
(* and its threads outlive the attempt they belong to.  What saves the     *)
(* images that are recorded is whose images it can have found: only those  *)
(* of attempts that will never record any (Aiming).                        *)
(***************************************************************************)
EXTENDS AwsPublish, FiniteSetTheorems, TLAPS

\* An attempt that will record nothing any more.
Dirty == {"clean1", "clean2", "failed", "lost"}

\* Nobody is under way once something is recorded.
Turns ==
    /\ \A a, b \in Active : a = b
    /\ recorded # Nil => Active = {}
    /\ \A a \in Attempts : pc[a] = "done" => recorded # Nil

\* Images are of attempts that have been started.
Makers == \A r \in Regions : ami[r] # Nil => pc[ami[r].by] # "idle"

Aiming ==
    \A a \in Attempts, c \in Calls, r \in Regions : thread[a][c][r] \in Thread =>
        /\ loopVar[a][c] \in [region : Regions, by : Attempts]
        /\ pc[loopVar[a][c].by] \in Dirty

Own(a, r)    == ami[r] \in Image /\ ami[r].by = a
Ready(a, r)  == Own(a, r) /\ ami[r].state = "available"
Public(a, r) == Ready(a, r) /\ ami[r].public

Working ==
    \A a \in Attempts :
        /\ pc[a] = "regions" => Own(a, Home)
        /\ pc[a] = "copy" => \A r \in Regions \ todo[a] : Own(a, r)
        /\ pc[a] = "wait" => /\ \A r \in Regions : Own(a, r)
                             /\ \A r \in Regions \ todo[a] : Ready(a, r)
        /\ pc[a] = "public" => /\ \A r \in Regions : Ready(a, r)
                               /\ \A r \in Regions \ todo[a] : Public(a, r)

Recorded ==
    recorded # Nil => pc[recorded] = "done" /\ \A r \in Regions : Public(recorded, r)

PublishInv == TypeOK /\ Turns /\ Makers /\ Aiming /\ Working /\ Recorded

-----------------------------------------------------------------------------

LEMMA InitiallyPublishInv == Init => PublishInv
BY PublishAssumption, NoThreadIsNil
   DEF Init, NoThread, PublishInv, TypeOK, Turns, Makers, Aiming, Working, Recorded, Active,
       Ended, Step, Dirty

\* Where an attempt goes.
Moves(a) ==
    /\ pc' = [pc EXCEPT ![a] = pc'[a]]
    /\ pc' \in [Attempts -> Step] /\ todo' \in [Attempts -> SUBSET Regions]

LEMMA GoalMoves ==
    ASSUME TypeOK, NEW a \in Attempts, NEW step \in Step, NEW regions \in SUBSET Regions,
           Goal(a, step, regions)
    PROVE  Moves(a) /\ pc'[a] = step /\ todo'[a] = regions
BY DEF Goal, Go, TypeOK, Moves

LEMMA GoMoves ==
    ASSUME TypeOK, NEW a \in Attempts, NEW step \in Step, Go(a, step), UNCHANGED todo
    PROVE  Moves(a) /\ pc'[a] = step
BY DEF Go, TypeOK, Moves

LEMMA VisitedMoves ==
    ASSUME TypeOK, NEW a \in Attempts, NEW r \in Regions, Visited(a, r), UNCHANGED pc
    PROVE  Moves(a) /\ pc'[a] = pc[a] /\ todo'[a] = todo[a] \ {r}
BY DEF Visited, TypeOK, Moves

LEMMA Cleanups ==
    /\ \A step \in Step : CleanupAfter(step) \in {"clean1", "clean2"}
    /\ \A a \in Attempts : AfterCleanup(a) \in {"clean2", "failed"}
    /\ {"import", "register", "tag", "regions", "copy", "wait", "public", "clean1", "clean2"}
          \cup Ended \subseteq Step
BY DEF CleanupAfter, AfterCleanup, Step

\* An attempt is started only when none is under way.
LEMMA OneAtATime ==
    ASSUME PublishInv, MaxActive = 1, NEW a \in Attempts, Start(a)
    PROVE  Active = {}
<1>1. IsFiniteSet(Active)
  <2>1. CASE Active = {}
    BY <2>1, FS_EmptySet
  <2>2. CASE Active # {}
    <3>1. PICK b \in Active : TRUE
      BY <2>2
    <3>2. Active = {b}
      BY <3>1 DEF PublishInv, Turns
    <3> QED
      BY <3>2, FS_Singleton
  <2> QED
    BY <2>1, <2>2
<1>2. Cardinality(Active) \in Nat /\ Cardinality(Active) < 1
  BY <1>1, FS_CardinalityType DEF Start
<1>3. Cardinality(Active) = 0
  BY <1>2
<1> QED
  BY <1>1, <1>3, FS_EmptySet

\* A step of the attempt under way finds the others at rest and nothing recorded.
LEMMA OthersRest ==
    ASSUME PublishInv, NEW a \in Attempts, a \in Active, pc' = [pc EXCEPT ![a] = pc'[a]]
    PROVE  /\ recorded = Nil
           /\ \A b \in Attempts : b # a => pc[b] \in Ended \ {"done"} /\ pc'[b] = pc[b]
           /\ Active' \subseteq {a}
BY DEF PublishInv, Turns, Active, TypeOK, Ended

\* A step of an attempt that records nothing: what is left to show is about its own images
\* and its threads.
LEMMA OwnPartSuffices ==
    ASSUME PublishInv, TypeOK', NEW a \in Attempts, a \in Active,
           pc' = [pc EXCEPT ![a] = pc'[a]],
           pc'[a] \notin {"idle", "done"},
           pc[a] \in Dirty => pc'[a] \in Dirty,
           recorded' = recorded,
           \A r \in Regions : ami'[r] # Nil =>
               ami'[r].by = a \/ (ami[r] # Nil /\ ami'[r].by = ami[r].by),
           Aiming',
           /\ pc'[a] = "regions" => Own(a, Home)'
           /\ pc'[a] = "copy" => \A r \in Regions \ todo'[a] : Own(a, r)'
           /\ pc'[a] = "wait" => /\ \A r \in Regions : Own(a, r)'
                                 /\ \A r \in Regions \ todo'[a] : Ready(a, r)'
           /\ pc'[a] = "public" => /\ \A r \in Regions : Ready(a, r)'
                                   /\ \A r \in Regions \ todo'[a] : Public(a, r)'
    PROVE  PublishInv'
<1>1. Turns'
  BY OthersRest DEF PublishInv, Turns, Ended
<1>2. Makers'
  <2>1. ASSUME NEW r \in Regions, ami[r] # Nil
        PROVE  ami[r].by \in Attempts
    BY <2>1 DEF PublishInv, TypeOK, Image
  <2> QED
    BY <2>1, OthersRest DEF PublishInv, Makers
<1>3. Working'
  BY OthersRest DEF Working, Ended
<1>4. Recorded'
  BY OthersRest DEF Recorded
<1> QED
  BY <1>1, <1>2, <1>3, <1>4 DEF PublishInv

\* Threads that stay as they are aim at what they aimed at.
LEMMA AimingStays ==
    ASSUME PublishInv, NEW a \in Attempts, pc' = [pc EXCEPT ![a] = pc'[a]],
           pc[a] \in Dirty => pc'[a] \in Dirty,
           loopVar' = loopVar,
           \A b \in Attempts, c \in Calls, r \in Regions :
               thread'[b][c][r] \in Thread => thread[b][c][r] \in Thread
    PROVE  Aiming'
BY DEF PublishInv, TypeOK, Aiming

-----------------------------------------------------------------------------
(* The steps of an attempt.                                                 *)

LEMMA StartKeeps ==
    ASSUME PublishInv, MaxActive = 1, NEW a \in Attempts, Start(a)
    PROVE  PublishInv'
<1>1. \A b \in Attempts : b # a => pc'[b] = pc[b] /\ pc[b] \in Ended
  BY OneAtATime DEF Start, Go, Active, PublishInv, TypeOK
<1>2. /\ pc'[a] = "import" /\ pc' = [pc EXCEPT ![a] = "import"] /\ recorded = Nil
      /\ UNCHANGED <<ami, recorded, todo, loopVar, thread, faults>>
  BY DEF Start, Go, PublishInv, TypeOK
<1>3. TypeOK'
  BY <1>2 DEF PublishInv, TypeOK, Step
<1>4. Turns'
  BY <1>1, <1>2 DEF PublishInv, Turns, Active
<1>5. Makers' /\ Working' /\ Recorded'
  BY <1>1, <1>2 DEF PublishInv, Makers, Working, Recorded, Ended
<1>6. Aiming'
  BY <1>2, AimingStays DEF Start, Dirty
<1> QED
  BY <1>3, <1>4, <1>5, <1>6 DEF PublishInv

\* The steps that change no image, no thread but by losing all, and record nothing.
LEMMA LookingKeeps ==
    ASSUME PublishInv, NEW a \in Attempts,
           \/ Import(a) \/ CreateTags(a) \/ EnumerateRegions(a) \/ CopiesMade(a)
           \/ ImagesReady(a) \/ RequestFails(a) \/ PodLost(a) \/ EndCleanup(a)
           \/ FindImageFails(a) \/ \E r \in Regions : WaitForImage(a, r)
    PROVE  PublishInv'
<1>1. a \in Active
  BY DEF Active, Ended, Import, CreateTags, EnumerateRegions, CopiesMade, ImagesReady, RequestFails, PodLost, EndCleanup,
         FindImageFails, WaitForImage, Cleaning
<1>2. UNCHANGED <<ami, recorded, loopVar>>
  BY DEF Import, CreateTags, EnumerateRegions, CopiesMade, ImagesReady, RequestFails, PodLost, EndCleanup, FindImageFails,
         WaitForImage
<1>3. Moves(a) /\ pc'[a] \notin {"idle", "done"} /\ (pc[a] \in Dirty => pc'[a] \in Dirty)
  <2> USE Cleanups DEF PublishInv
  <2>1. CASE Import(a)
    BY <2>1, GoMoves DEF Import, Dirty
  <2>2. CASE CopiesMade(a) \/ ImagesReady(a)
    BY <2>2, GoalMoves DEF CopiesMade, ImagesReady, Dirty
  <2>a. CASE EnumerateRegions(a)
    BY <2>a, GoalMoves DEF EnumerateRegions, Dirty
  <2>b. CASE CreateTags(a)
    <3>1. pc[a] = "tag" /\ (Goal(a, "regions", {}) \/ Goal(a, CleanupAfter("tag"), Regions))
      BY <2>b DEF CreateTags
    <3>2. CASE Goal(a, "regions", {})
      BY <3>1, <3>2, GoalMoves DEF Dirty
    <3>3. CASE Goal(a, CleanupAfter("tag"), Regions)
      BY <3>1, <3>3, GoalMoves DEF Dirty
    <3> QED
      BY <3>1, <3>2, <3>3
  <2>3. CASE RequestFails(a)
    <3>1. pc[a] \in {"import", "register", "tag", "regions", "copy", "wait", "public"}
          /\ Goal(a, CleanupAfter(pc[a]), Regions)
      BY <2>3 DEF RequestFails
    <3>2. CleanupAfter(pc[a]) \in {"clean1", "clean2"}
      BY <3>1
    <3> QED
      BY <3>1, <3>2, GoalMoves DEF Dirty
  <2>4. CASE PodLost(a)
    BY <2>4, GoalMoves DEF PodLost, Dirty, Ended
  <2>5. CASE EndCleanup(a) \/ FindImageFails(a)
    <3>1. PICK regions \in SUBSET Regions : Goal(a, AfterCleanup(a), regions)
      BY <2>5 DEF EndCleanup, FindImageFails
    <3> QED
      BY <3>1, GoalMoves DEF Dirty, Ended
  <2>6. ASSUME NEW r \in Regions, WaitForImage(a, r)
        PROVE  Moves(a) /\ pc'[a] \in {"wait", "clean1", "clean2"} /\ pc[a] = "wait"
    <3>1. pc[a] = "wait"
          /\ (Goal(a, CleanupAfter("wait"), Regions) \/ (Visited(a, r) /\ UNCHANGED pc))
      BY <2>6 DEF WaitForImage
    <3>2. CASE Goal(a, CleanupAfter("wait"), Regions)
      BY <3>1, <3>2, GoalMoves
    <3>3. CASE Visited(a, r) /\ UNCHANGED pc
      BY <3>1, <3>3, VisitedMoves
    <3> QED
      BY <3>1, <3>2, <3>3
  <2> QED
    BY <2>1, <2>2, <2>a, <2>b, <2>3, <2>4, <2>5, <2>6 DEF Dirty
<1>4. faults' \in 0 .. MaxFaults
  BY PublishAssumption
     DEF Import, CreateTags, EnumerateRegions, CopiesMade, ImagesReady, RequestFails, PodLost, EndCleanup, FindImageFails,
         WaitForImage, PublishInv, TypeOK
<1>5. thread' = thread \/ thread' = [thread EXCEPT ![a] = NoThread]
  BY DEF Import, CreateTags, EnumerateRegions, CopiesMade, ImagesReady, RequestFails, PodLost, EndCleanup, FindImageFails,
         WaitForImage
<1>6. /\ thread' \in [Attempts -> [Calls -> [Regions -> Thread \cup {Nil}]]]
      /\ \A b \in Attempts, c \in Calls, r \in Regions :
             thread'[b][c][r] \in Thread => thread[b][c][r] \in Thread
  <2>1. NoThread \in [Calls -> [Regions -> Thread \cup {Nil}]]
        /\ \A c \in Calls, r \in Regions : NoThread[c][r] = Nil
    BY DEF NoThread
  <2>2. CASE thread' = thread
    BY <2>2 DEF PublishInv, TypeOK
  <2>3. CASE thread' = [thread EXCEPT ![a] = NoThread]
    BY <2>1, <2>3, NoThreadIsNil DEF PublishInv, TypeOK
  <2> QED
    BY <1>5, <2>2, <2>3
<1>7. TypeOK'
  BY <1>2, <1>3, <1>4, <1>6 DEF PublishInv, TypeOK, Moves
<1>8. Aiming'
  BY <1>2, <1>3, <1>6, AimingStays DEF Moves
<1> DEFINE NextStage ==
      /\ pc'[a] = "regions" => Own(a, Home)'
      /\ pc'[a] = "copy" => \A r \in Regions \ todo'[a] : Own(a, r)'
      /\ pc'[a] = "wait" => /\ \A r \in Regions : Own(a, r)'
                            /\ \A r \in Regions \ todo'[a] : Ready(a, r)'
      /\ pc'[a] = "public" => /\ \A r \in Regions : Ready(a, r)'
                              /\ \A r \in Regions \ todo'[a] : Public(a, r)'
<1>9. NextStage
  <2> USE DEF Go, Goal, PublishInv, TypeOK
  <2>1. CASE Import(a) \/ RequestFails(a) \/ PodLost(a) \/ EndCleanup(a) \/ FindImageFails(a)
    BY <2>1 DEF Import, RequestFails, PodLost, EndCleanup, FindImageFails, CleanupAfter,
                AfterCleanup
  <2>a. CASE CreateTags(a)
    BY <2>a, PublishAssumption DEF CreateTags, CleanupAfter, Own
  <2>b. CASE EnumerateRegions(a)
    BY <2>b, PublishAssumption DEF EnumerateRegions, Working, Own
  <2>2. CASE CopiesMade(a)
    BY <2>2 DEF CopiesMade, Working, Own
  <2>3. CASE ImagesReady(a)
    BY <2>3 DEF ImagesReady, Working, Own, Ready
  <2>4. ASSUME NEW r \in Regions, WaitForImage(a, r)
        PROVE  NextStage
    BY <2>4 DEF WaitForImage, Visited, Working, Own, Ready, CleanupAfter
  <2> QED
    BY <2>1, <2>a, <2>b, <2>2, <2>3, <2>4
<1> HIDE DEF NextStage
<1>10. UNCHANGED ami
  BY <1>2
<1> QED
  <2> USE DEF NextStage
  <2> QED
    BY <1>1, <1>2, <1>3, <1>7, <1>8, <1>9, <1>10, OwnPartSuffices DEF Moves

\* A new image in a region, under a name that was free.
LEMMA NewImage ==
    ASSUME TypeOK, NEW a \in Attempts, NEW r \in Regions, ami' = [ami EXCEPT ![r] = New(a)]
    PROVE  /\ ami' \in [Regions -> Image \cup {Nil}]
           /\ Own(a, r)'
           /\ \A q \in Regions : q # r => ami'[q] = ami[q]
<1>1. New(a) \in Image /\ New(a).by = a
  BY DEF New, Image
<1> QED
  BY <1>1 DEF Own, TypeOK

LEMMA RegisterKeeps ==
    ASSUME PublishInv, NEW a \in Attempts, Register(a)
    PROVE  PublishInv'
<1>1. /\ a \in Active /\ pc[a] = "register" /\ Home \in Regions
      /\ UNCHANGED <<recorded, loopVar, thread, faults>>
  BY PublishAssumption DEF Active, Ended, Register
<1>2. Moves(a) /\ pc'[a] \in {"tag", "clean1", "clean2"}
  <2>1. \/ Goal(a, "tag", {})
        \/ Goal(a, CleanupAfter("register"), Regions)
    BY DEF Register
  <2> QED
    BY <2>1, Cleanups, GoalMoves DEF PublishInv
<1>3. Aiming'
  BY <1>1, <1>2, AimingStays DEF Dirty, Moves
<1>4. CASE ami[Home] = Nil
  <2>1. ami' = [ami EXCEPT ![Home] = New(a)] /\ pc'[a] = "tag"
    BY <1>4 DEF Register, Goal, Go, PublishInv, TypeOK
  <2>2. /\ ami' \in [Regions -> Image \cup {Nil}]
        /\ Own(a, Home)'
        /\ \A q \in Regions : q # Home => ami'[q] = ami[q]
    BY <1>1, <2>1, NewImage DEF PublishInv
  <2>3. TypeOK'
    BY <1>1, <1>2, <2>2 DEF PublishInv, TypeOK, Moves
  <2>4. \A q \in Regions : ami'[q] # Nil => ami'[q].by = a \/ (ami[q] # Nil /\ ami'[q].by = ami[q].by)
    BY <2>2 DEF Own
  <2> QED
    BY <1>1, <1>2, <1>3, <2>1, <2>3, <2>4, OwnPartSuffices DEF Dirty, Moves
<1>5. CASE ami[Home] # Nil
  <2>1. UNCHANGED ami /\ pc'[a] \in {"clean1", "clean2"}
    BY <1>5 DEF Register, Goal, Go, CleanupAfter, PublishInv, TypeOK
  <2>2. TypeOK'
    BY <1>1, <1>2, <2>1 DEF PublishInv, TypeOK, Moves
  <2> QED
    BY <1>1, <1>2, <1>3, <2>1, <2>2, OwnPartSuffices DEF Dirty, Moves
<1> QED
  BY <1>4, <1>5

LEMMA CopyImageKeeps ==
    ASSUME PublishInv, NEW a \in Attempts, NEW r \in Regions, CopyImage(a, r)
    PROVE  PublishInv'
<1>1. /\ a \in Active /\ pc[a] = "copy" /\ r \in todo[a]
      /\ UNCHANGED <<recorded, loopVar, thread, faults>>
  BY DEF Active, Ended, CopyImage
<1>2. Moves(a) /\ pc'[a] \in {"copy", "clean1", "clean2"}
  <2>1. \/ Visited(a, r) /\ UNCHANGED pc
        \/ Goal(a, CleanupAfter("copy"), Regions)
    BY DEF CopyImage
  <2> QED
    BY <1>1, <2>1, Cleanups, GoalMoves, VisitedMoves DEF PublishInv
<1>3. Aiming'
  BY <1>1, <1>2, AimingStays DEF Dirty, Moves
<1> DEFINE Free == ami[Home] # Nil /\ ami[Home].by = a /\ ami[r] = Nil
<1>4. CASE Free
  <2>1. ami' = [ami EXCEPT ![r] = New(a)] /\ todo'[a] = todo[a] \ {r} /\ pc'[a] = "copy"
    BY <1>1, <1>4 DEF CopyImage, Visited, PublishInv, TypeOK
  <2>2. /\ ami' \in [Regions -> Image \cup {Nil}]
        /\ Own(a, r)'
        /\ \A q \in Regions : q # r => ami'[q] = ami[q]
    BY <2>1, NewImage DEF PublishInv
  <2>3. TypeOK'
    BY <1>1, <1>2, <2>2 DEF PublishInv, TypeOK, Moves
  <2>4. \A q \in Regions : ami'[q] # Nil => ami'[q].by = a \/ (ami[q] # Nil /\ ami'[q].by = ami[q].by)
    BY <2>2 DEF Own
  <2>5. \A q \in Regions \ todo'[a] : Own(a, q)'
    BY <1>1, <2>1, <2>2 DEF PublishInv, Working, Own
  <2> QED
    BY <1>1, <1>2, <1>3, <2>1, <2>3, <2>4, <2>5, OwnPartSuffices DEF Dirty, Moves
<1>5. CASE ~Free
  <2>1. UNCHANGED ami /\ pc'[a] \in {"clean1", "clean2"}
    BY <1>5 DEF CopyImage, Goal, Go, CleanupAfter, PublishInv, TypeOK
  <2>2. TypeOK'
    BY <1>1, <1>2, <2>1 DEF PublishInv, TypeOK, Moves
  <2> QED
    BY <1>1, <1>2, <1>3, <2>1, <2>2, OwnPartSuffices DEF Dirty, Moves
<1> QED
  BY <1>4, <1>5

LEMMA SetPublicKeeps ==
    ASSUME PublishInv, NEW a \in Attempts, NEW r \in Regions, SetPublic(a, r)
    PROVE  PublishInv'
<1>1. /\ a \in Active /\ pc[a] = "public" /\ r \in todo[a]
      /\ UNCHANGED <<recorded, loopVar, thread, faults>>
      /\ \A q \in Regions : Ready(a, q)
  BY DEF Active, Ended, SetPublic, PublishInv, Working
<1>2. Moves(a) /\ pc'[a] \in {"public", "clean1", "clean2"}
  <2>1. \/ Visited(a, r) /\ UNCHANGED pc
        \/ Goal(a, CleanupAfter("public"), Regions)
    BY DEF SetPublic
  <2> QED
    BY <1>1, <2>1, Cleanups, GoalMoves, VisitedMoves DEF PublishInv
<1>3. Aiming'
  BY <1>1, <1>2, AimingStays DEF Dirty, Moves
<1>4. CASE ami[r] # Nil
  <2>1. ami' = [ami EXCEPT ![r].public = TRUE] /\ todo'[a] = todo[a] \ {r} /\ pc'[a] = "public"
    BY <1>1, <1>4 DEF SetPublic, Visited, PublishInv, TypeOK, Ready, Own
  <2>2. /\ ami' \in [Regions -> Image \cup {Nil}]
        /\ Public(a, r)'
        /\ \A q \in Regions : q # r => ami'[q] = ami[q]
    BY <1>1, <2>1 DEF PublishInv, TypeOK, Public, Ready, Own, Image
  <2>3. TypeOK'
    BY <1>1, <1>2, <2>2 DEF PublishInv, TypeOK, Moves
  <2>4. \A q \in Regions : ami'[q] # Nil => ami'[q].by = a \/ (ami[q] # Nil /\ ami'[q].by = ami[q].by)
    BY <2>2 DEF Public, Ready, Own
  <2>a. \A q \in Regions : Ready(a, q)'
    BY <1>1, <2>2 DEF Public, Ready, Own
  <2>b. \A q \in Regions \ todo[a] : Public(a, q)
    BY <1>1 DEF PublishInv, Working
  <2>c. \A q \in Regions \ todo'[a] : Public(a, q)'
    BY <2>1, <2>2, <2>b DEF Public, Ready, Own
  <2>5. (\A q \in Regions : Ready(a, q)') /\ \A q \in Regions \ todo'[a] : Public(a, q)'
    BY <2>a, <2>c
  <2> QED
    BY <1>1, <1>2, <1>3, <2>1, <2>3, <2>4, <2>5, OwnPartSuffices DEF Dirty, Moves
<1>5. CASE ami[r] = Nil
  <2>1. UNCHANGED ami /\ pc'[a] \in {"clean1", "clean2"}
    BY <1>5 DEF SetPublic, Goal, Go, CleanupAfter, PublishInv, TypeOK
  <2>2. TypeOK'
    BY <1>1, <1>2, <2>1 DEF PublishInv, TypeOK, Moves
  <2> QED
    BY <1>1, <1>2, <1>3, <2>1, <2>2, OwnPartSuffices DEF Dirty, Moves
<1> QED
  BY <1>4, <1>5

\* What is recorded is what the last stage has brought to its end in every region.
LEMMA PersistKeeps ==
    ASSUME PublishInv, NEW a \in Attempts, Persist(a)
    PROVE  PublishInv'
<1>1. /\ a \in Active /\ pc[a] = "public" /\ \A r \in Regions : Public(a, r)
      /\ UNCHANGED <<ami, todo, loopVar, thread, faults>>
      /\ pc' = [pc EXCEPT ![a] = "done"] /\ recorded' = a
  BY DEF Active, Ended, Persist, Go, PublishInv, Working
<1>2. TypeOK' /\ pc'[a] = "done" /\ a # Nil
  BY <1>1, PublishAssumption DEF PublishInv, TypeOK, Step, Ended
<1>3. \A b \in Attempts : pc'[b] \in Ended
  BY <1>1, <1>2, OthersRest DEF Ended
<1>4. Turns' /\ Working'
  BY <1>1, <1>2, <1>3 DEF Turns, Working, Active, Ended
<1>5. Makers' /\ Recorded'
  BY <1>1, <1>2 DEF PublishInv, TypeOK, Makers, Recorded, Public, Ready, Own
<1>6. Aiming'
  BY <1>1, AimingStays DEF Dirty
<1> QED
  BY <1>2, <1>4, <1>5, <1>6 DEF PublishInv

-----------------------------------------------------------------------------
(* The removal, its threads, and the cloud.                                 *)

\* Whatever image the removal finds is of an attempt that will record nothing: of its own,
\* which is cleaning up, or of one that has ended without recording anything.
LEMMA FoundIsDirty ==
    ASSUME PublishInv, NEW a \in Attempts, Cleaning(a), NEW r \in Regions, ami[r] # Nil
    PROVE  ami[r].by \in Attempts /\ pc[ami[r].by] \in Dirty
<1>1. ami[r].by \in Attempts /\ pc[ami[r].by] # "idle" /\ pc[ami[r].by] \in Step
  BY DEF PublishInv, TypeOK, Makers, Image
<1>2. a \in Active /\ pc[a] \in {"clean1", "clean2"}
  BY DEF Cleaning, Active, Ended
<1>3. recorded = Nil /\ \A b \in Active : b = a
  BY <1>2 DEF PublishInv, Turns
<1>4. pc[ami[r].by] # "done"
  BY <1>1, <1>3 DEF PublishInv, Turns
<1> QED
  BY <1>1, <1>2, <1>3, <1>4 DEF Active, Ended, Dirty

LEMMA FindImageKeeps ==
    ASSUME PublishInv, NEW a \in Attempts, NEW r \in Regions, FindImage(a, r)
    PROVE  PublishInv'
<1>1. /\ a \in Active /\ Cleaning(a) /\ pc[a] \in {"clean1", "clean2"} /\ Call(a) \in Calls
      /\ Visited(a, r) /\ UNCHANGED <<ami, recorded, pc, faults>>
  BY DEF FindImage, Cleaning, Active, Ended, Call, Calls
<1>2. Moves(a) /\ pc'[a] = pc[a]
  BY <1>1, VisitedMoves DEF PublishInv
<1> DEFINE c == Call(a)
           v == [region |-> r, by |-> ami[r].by]
           Target == [region : Regions, by : Attempts]
<1>3. CASE ami[r] # Nil
  <2>1. /\ loopVar' = [loopVar EXCEPT ![a][c] = v]
        /\ thread' = [thread EXCEPT ![a][c][r] = "submitted"]
    BY <1>3 DEF FindImage
  <2>2. v \in Target /\ v.by = ami[r].by /\ pc[ami[r].by] \in Dirty
    BY <1>1, <1>3, FoundIsDirty
  <2> HIDE DEF c, v
  <2>3. c \in Calls
    BY <1>1 DEF c
  <2>4. /\ loopVar' \in [Attempts -> [Calls -> Target \cup {Nil}]]
        /\ \A b \in Attempts, d \in Calls :
               loopVar'[b][d] = IF b = a /\ d = c THEN v ELSE loopVar[b][d]
    BY <2>1, <2>2, <2>3 DEF PublishInv, TypeOK
  <2>5. /\ thread' \in [Attempts -> [Calls -> [Regions -> Thread \cup {Nil}]]]
        /\ \A b \in Attempts, d \in Calls, q \in Regions :
               thread'[b][d][q] = IF b = a /\ d = c /\ q = r THEN "submitted" ELSE thread[b][d][q]
    <3>1. "submitted" \in Thread \cup {Nil} /\ TypeOK
      BY DEF Thread, PublishInv
    <3>2. thread' = [thread EXCEPT ![a][c][r] = "submitted"]
      BY <2>1
    <3> QED
      BY <2>3, <3>1, <3>2 DEF TypeOK
  <2>6. TypeOK'
    BY <1>1, <1>2, <2>4, <2>5 DEF PublishInv, TypeOK, Moves
  <2>7. Aiming'
    <3>1. ASSUME NEW b \in Attempts, NEW d \in Calls, NEW q \in Regions,
                 thread'[b][d][q] \in Thread
          PROVE  loopVar'[b][d] \in Target /\ pc[loopVar'[b][d].by] \in Dirty
      <4>1. CASE b = a /\ d = c
        BY <4>1, <2>2, <2>4
      <4>2. CASE ~(b = a /\ d = c)
        <5>1. thread'[b][d][q] = thread[b][d][q] /\ loopVar'[b][d] = loopVar[b][d]
          BY <4>2, <2>4, <2>5
        <5>2. loopVar[b][d] \in Target /\ pc[loopVar[b][d].by] \in Dirty
          BY <3>1, <5>1 DEF PublishInv, Aiming
        <5> QED
          BY <5>1, <5>2
      <4> QED
        BY <4>1, <4>2
    <3> QED
      BY <1>1, <3>1 DEF Aiming
  <2> QED
    BY <1>1, <1>2, <2>6, <2>7, OwnPartSuffices DEF Dirty, Moves
<1>4. CASE ami[r] = Nil
  <2>1. UNCHANGED <<loopVar, thread>>
    BY <1>4 DEF FindImage
  <2>2. TypeOK'
    BY <1>1, <1>2, <2>1 DEF PublishInv, TypeOK, Moves
  <2>3. Aiming'
    BY <1>1, <2>1 DEF PublishInv, Aiming
  <2> QED
    BY <1>1, <1>2, <2>2, <2>3, OwnPartSuffices DEF Dirty, Moves
<1> QED
  BY <1>3, <1>4

\* A thread may run long after its attempt has ended, and beside another one.
LEMMA ThreadKeeps ==
    ASSUME PublishInv, NEW a \in Attempts, NEW c \in Calls, NEW r \in Regions,
           ConnectThread(a, c, r) \/ Deregister(a, c, r) \/ DeregisterFails(a, c, r)
    PROVE  PublishInv'
<1>1. UNCHANGED <<recorded, pc, todo, loopVar>> /\ faults' \in 0 .. MaxFaults
  BY PublishAssumption DEF ConnectThread, Deregister, DeregisterFails, PublishInv, TypeOK
<1>2. thread[a][c][r] \in Thread
  BY DEF ConnectThread, Deregister, DeregisterFails, Thread
<1>3. /\ loopVar[a][c] \in [region : Regions, by : Attempts]
      /\ pc[loopVar[a][c].by] \in Dirty
  BY <1>2 DEF PublishInv, Aiming
<1>4. \E v \in Thread \cup {Nil} : thread' = [thread EXCEPT ![a][c][r] = v]
  BY <1>3 DEF ConnectThread, Deregister, DeregisterFails, Thread
<1>5. /\ thread' \in [Attempts -> [Calls -> [Regions -> Thread \cup {Nil}]]]
      /\ \A b \in Attempts, d \in Calls, q \in Regions :
             thread'[b][d][q] \in Thread => thread[b][d][q] \in Thread
  <2>1. PICK v \in Thread \cup {Nil} : thread' = [thread EXCEPT ![a][c][r] = v]
    BY <1>4
  <2>2. TypeOK
    BY DEF PublishInv
  <2>3. /\ thread' \in [Attempts -> [Calls -> [Regions -> Thread \cup {Nil}]]]
        /\ \A b \in Attempts, d \in Calls, q \in Regions :
               thread'[b][d][q] = IF b = a /\ d = c /\ q = r THEN v ELSE thread[b][d][q]
    BY <2>1, <2>2 DEF TypeOK
  <2> QED
    BY <1>2, <2>3
<1>6. /\ ami' \in [Regions -> Image \cup {Nil}]
      /\ \A q \in Regions : ami'[q] # ami[q] =>
             ami'[q] = Nil /\ ami[q] # Nil /\ pc[ami[q].by] \in Dirty
  <2>1. CASE Deregister(a, c, r)
    <3>1. \/ UNCHANGED ami
          \/ \E q \in Regions : /\ ami' = [ami EXCEPT ![q] = Nil]
                                /\ ami[q] # Nil /\ ami[q].by = loopVar[a][c].by
      BY <2>1 DEF Deregister
    <3> QED
      BY <3>1, <1>3 DEF PublishInv, TypeOK
  <2>2. CASE ConnectThread(a, c, r) \/ DeregisterFails(a, c, r)
    BY <2>2 DEF ConnectThread, DeregisterFails, PublishInv, TypeOK
  <2> QED
    BY <2>1, <2>2
<1>7. TypeOK' /\ Turns'
  BY <1>1, <1>5, <1>6 DEF PublishInv, TypeOK, Turns, Active
<1>8. Makers'
  BY <1>1, <1>6 DEF PublishInv, Makers
<1>9. Aiming'
  BY <1>1, <1>5 DEF PublishInv, Aiming
<1>10. ASSUME NEW b \in Attempts, pc[b] \notin Dirty, NEW q \in Regions
       PROVE  /\ Own(b, q) => Own(b, q)'
              /\ Ready(b, q) => Ready(b, q)'
              /\ Public(b, q) => Public(b, q)'
  BY <1>6, <1>10 DEF Own, Ready, Public
<1>11. Working'
  BY <1>1, <1>10, PublishAssumption DEF PublishInv, Working, Dirty
<1>12. Recorded'
  BY <1>1, <1>10 DEF PublishInv, TypeOK, Recorded, Dirty
<1> QED
  BY <1>7, <1>8, <1>9, <1>11, <1>12 DEF PublishInv

\* An image that is pending is none that anybody relies on being available.
LEMMA AwsDecidesKeeps ==
    ASSUME PublishInv, NEW r \in Regions, AwsDecides(r)
    PROVE  PublishInv'
<1>1. /\ ami[r] # Nil /\ ami[r] \in Image /\ ami[r].state = "pending"
      /\ UNCHANGED <<recorded, pc, todo, loopVar, thread>> /\ faults' \in 0 .. MaxFaults
      /\ \E s \in {"available", "failed"} : ami' = [ami EXCEPT ![r].state = s]
  BY PublishAssumption DEF AwsDecides, PublishInv, TypeOK
<1>2. PICK s \in {"available", "failed"} : ami' = [ami EXCEPT ![r].state = s]
  BY <1>1
<1> DEFINE i == [ami[r] EXCEPT !.state = s]
<1>3. i \in Image /\ i.by = ami[r].by
  BY <1>1 DEF Image
<1>4. /\ ami' \in [Regions -> Image \cup {Nil}]
      /\ ami'[r] = i
      /\ \A q \in Regions : q # r => ami'[q] = ami[q]
  BY <1>2, <1>3 DEF PublishInv, TypeOK
<1> HIDE DEF i
<1>5. TypeOK' /\ Turns' /\ Aiming'
  BY <1>1, <1>4 DEF PublishInv, TypeOK, Turns, Active, Aiming
<1>6. Makers'
  BY <1>1, <1>3, <1>4 DEF PublishInv, Makers
<1>7. ASSUME NEW b \in Attempts, NEW q \in Regions
      PROVE  /\ Own(b, q) => Own(b, q)'
             /\ Ready(b, q) => Ready(b, q)'
             /\ Public(b, q) => Public(b, q)'
  BY <1>1, <1>3, <1>4 DEF Own, Ready, Public
<1>8. Working'
  BY <1>1, <1>7, PublishAssumption DEF PublishInv, Working
<1>9. Recorded'
  BY <1>1, <1>7 DEF PublishInv, TypeOK, Recorded
<1> QED
  BY <1>5, <1>6, <1>8, <1>9 DEF PublishInv

LEMMA StepKeepsPublishInv ==
    ASSUME PublishInv, MaxActive = 1, [Next]_vars
    PROVE  PublishInv'
<1>1. CASE UNCHANGED vars
  <2>1. TypeOK' /\ Turns' /\ Makers' /\ Aiming'
    BY <1>1 DEF vars, PublishInv, TypeOK, Turns, Makers, Aiming, Active
  <2>2. Working' /\ Recorded'
    BY <1>1 DEF vars, PublishInv, Working, Recorded, Own, Ready, Public
  <2> QED
    BY <2>1, <2>2 DEF PublishInv
<1>2. ASSUME NEW a \in Attempts, Start(a) \/ Publish(a) \/ Cleanup(a) \/ Fault(a)
      PROVE  PublishInv'
  <2>1. CASE Start(a)
    BY <2>1, StartKeeps
  <2>2. CASE Publish(a)
    <3>1. CASE \/ Import(a) \/ CreateTags(a) \/ EnumerateRegions(a)
               \/ CopiesMade(a) \/ ImagesReady(a)
               \/ \E r \in Regions : WaitForImage(a, r)
      BY <3>1, LookingKeeps
    <3>2. CASE Register(a)
      BY <3>2, RegisterKeeps
    <3>3. CASE Persist(a)
      BY <3>3, PersistKeeps
    <3>4. CASE \E r \in Regions : CopyImage(a, r) \/ SetPublic(a, r)
      BY <3>4, CopyImageKeeps, SetPublicKeeps
    <3> QED
      BY <2>2, <3>1, <3>2, <3>3, <3>4 DEF Publish
  <2>3. CASE Cleanup(a)
    <3>1. CASE EndCleanup(a)
      BY <3>1, LookingKeeps
    <3>2. CASE \E r \in Regions : FindImage(a, r)
      BY <3>2, FindImageKeeps
    <3>3. CASE \E c \in Calls, r \in Regions : ConnectThread(a, c, r) \/ Deregister(a, c, r)
      BY <3>3, ThreadKeeps
    <3> QED
      BY <2>3, <3>1, <3>2, <3>3 DEF Cleanup
  <2>4. CASE Fault(a)
    <3>1. CASE RequestFails(a) \/ FindImageFails(a) \/ PodLost(a)
      BY <3>1, LookingKeeps
    <3>2. CASE \E c \in Calls, r \in Regions : DeregisterFails(a, c, r)
      BY <3>2, ThreadKeeps
    <3> QED
      BY <2>4, <3>1, <3>2 DEF Fault
  <2> QED
    BY <1>2, <2>1, <2>2, <2>3, <2>4
<1>3. ASSUME NEW r \in Regions, AwsDecides(r)
      PROVE  PublishInv'
  BY <1>3, AwsDecidesKeeps
<1> QED
  BY <1>1, <1>2, <1>3 DEF Next

-----------------------------------------------------------------------------
(* Types, however many attempts overlap: a thread that is submitted has loop *)
(* variables to read.                                                        *)

TypeInv ==
    /\ TypeOK
    /\ \A a \in Attempts, c \in Calls, r \in Regions : thread[a][c][r] \in Thread =>
          loopVar[a][c] \in [region : Regions, by : Attempts]

\* A step of an attempt that leaves the threads alone, or ends them.
LEMMA StepKeepsTypes ==
    ASSUME TypeInv, NEW a \in Attempts, Moves(a),
           ami' \in [Regions -> Image \cup {Nil}], recorded' \in Attempts \cup {Nil},
           UNCHANGED loopVar, thread' = thread \/ thread' = [thread EXCEPT ![a] = NoThread],
           faults' \in 0 .. MaxFaults
    PROVE  TypeInv'
<1>1. /\ NoThread \in [Calls -> [Regions -> Thread \cup {Nil}]]
      /\ \A c \in Calls, r \in Regions : NoThread[c][r] = Nil
  BY DEF NoThread
<1>2. CASE thread' = thread
  BY <1>2 DEF TypeInv, TypeOK, Moves
<1>3. CASE thread' = [thread EXCEPT ![a] = NoThread]
  BY <1>1, <1>3, NoThreadIsNil DEF TypeInv, TypeOK, Moves
<1> QED
  BY <1>2, <1>3

LEMMA PublishKeepsTypes ==
    ASSUME TypeInv, NEW a \in Attempts, Start(a) \/ Publish(a)
    PROVE  TypeInv'
<1> USE DEF TypeInv
<1>1. /\ UNCHANGED <<loopVar, thread, faults>> /\ faults \in 0 .. MaxFaults
      /\ recorded' \in Attempts \cup {Nil}
  BY DEF Start, Publish, Import, Register, CreateTags, EnumerateRegions, CopiesMade, ImagesReady,
         Persist, CopyImage, WaitForImage, SetPublic, TypeOK
<1>2. Moves(a)
  <2> USE Cleanups
  <2>1. CASE Start(a) \/ Import(a)
    BY <2>1, GoMoves DEF Start, Import
  <2>2. CASE Persist(a)
    BY <2>2, GoMoves DEF Persist, Ended
  <2>3. CASE Register(a) \/ CreateTags(a)
    <3>1. PICK step \in {"tag", "regions"} \cup {CleanupAfter("register"), CleanupAfter("tag")},
               regions \in SUBSET Regions : Goal(a, step, regions)
      BY <2>3 DEF Register, CreateTags
    <3> QED
      BY <3>1, GoalMoves
  <2>4. CASE EnumerateRegions(a) \/ CopiesMade(a) \/ ImagesReady(a)
    BY <2>4, GoalMoves DEF EnumerateRegions, CopiesMade, ImagesReady
  <2>5. ASSUME NEW r \in Regions, CopyImage(a, r) \/ WaitForImage(a, r) \/ SetPublic(a, r)
        PROVE  Moves(a)
    <3>1. \/ Visited(a, r) /\ UNCHANGED pc
          \/ \E step \in {"copy", "wait", "public"} : Goal(a, CleanupAfter(step), Regions)
      BY <2>5 DEF CopyImage, WaitForImage, SetPublic
    <3> QED
      BY <3>1, GoalMoves, VisitedMoves
  <2> QED
    BY <2>1, <2>2, <2>3, <2>4, <2>5 DEF Publish
<1>3. ami' \in [Regions -> Image \cup {Nil}]
  <2>1. CASE UNCHANGED ami
    BY <2>1 DEF TypeOK
  <2>2. ASSUME NEW r \in Regions, ami' = [ami EXCEPT ![r] = New(a)]
        PROVE  ami' \in [Regions -> Image \cup {Nil}]
    BY <2>2, NewImage
  <2>3. ASSUME NEW r \in Regions, ami[r] # Nil, ami' = [ami EXCEPT ![r].public = TRUE]
        PROVE  ami' \in [Regions -> Image \cup {Nil}]
    <3>1. ami[r] \in Image
      BY <2>3 DEF TypeOK
    <3>2. [ami[r] EXCEPT !.public = TRUE] \in Image
      BY <3>1 DEF Image
    <3> QED
      BY <2>3, <3>2 DEF TypeOK
  <2> QED
    BY <2>1, <2>2, <2>3, PublishAssumption
       DEF Start, Publish, Import, Register, CreateTags, EnumerateRegions, CopiesMade,
           ImagesReady, Persist, CopyImage, WaitForImage, SetPublic
<1> QED
  BY <1>1, <1>2, <1>3, StepKeepsTypes

LEMMA CleanupKeepsTypes ==
    ASSUME TypeInv, NEW a \in Attempts, Cleanup(a) \/ Fault(a)
    PROVE  TypeInv'
<1> USE DEF TypeInv
<1>1. CASE EndCleanup(a) \/ RequestFails(a) \/ FindImageFails(a) \/ PodLost(a)
  <2>1. PICK step \in Step, regions \in SUBSET Regions : Goal(a, step, regions)
    <3>1. CASE RequestFails(a)
      BY <3>1, Cleanups DEF RequestFails
    <3>2. CASE ~RequestFails(a)
      BY <1>1, <3>2, Cleanups DEF EndCleanup, FindImageFails, PodLost, Ended
    <3> QED
      BY <3>1, <3>2
  <2>2. Moves(a)
    BY <2>1, GoalMoves
  <2>3. /\ UNCHANGED <<ami, recorded, loopVar>> /\ faults' \in 0 .. MaxFaults
        /\ thread' = thread \/ thread' = [thread EXCEPT ![a] = NoThread]
    BY <1>1, PublishAssumption DEF EndCleanup, RequestFails, FindImageFails, PodLost, TypeOK
  <2> QED
    BY <2>2, <2>3, StepKeepsTypes DEF TypeOK
<1>2. ASSUME NEW r \in Regions, FindImage(a, r)
      PROVE  TypeInv'
  <2>1. /\ Moves(a) /\ Call(a) \in Calls /\ UNCHANGED <<ami, recorded, faults>>
    BY <1>2, VisitedMoves DEF FindImage, Call, Calls
  <2>2. CASE ami[r] = Nil
    BY <1>2, <2>1, <2>2, StepKeepsTypes DEF FindImage, TypeOK
  <2>3. CASE ami[r] # Nil
    <3> DEFINE v == [region |-> r, by |-> ami[r].by]
    <3>1. v \in [region : Regions, by : Attempts] /\ "submitted" \in Thread
      BY <2>3 DEF TypeOK, Image, Thread
    <3>2. /\ loopVar' = [loopVar EXCEPT ![a][Call(a)] = v]
          /\ thread' = [thread EXCEPT ![a][Call(a)][r] = "submitted"]
      BY <1>2, <2>3 DEF FindImage
    <3> HIDE DEF v
    <3> QED
      BY <2>1, <3>1, <3>2 DEF TypeOK, Moves
  <2> QED
    BY <2>2, <2>3
<1>3. ASSUME NEW c \in Calls, NEW r \in Regions,
             ConnectThread(a, c, r) \/ Deregister(a, c, r) \/ DeregisterFails(a, c, r)
      PROVE  TypeInv'
  <2>1. thread[a][c][r] \in Thread /\ UNCHANGED <<recorded, pc, todo, loopVar>>
    BY <1>3 DEF ConnectThread, Deregister, DeregisterFails, Thread
  <2>2. PICK v \in Thread \cup {Nil} : thread' = [thread EXCEPT ![a][c][r] = v]
    BY <1>3, <2>1 DEF ConnectThread, Deregister, DeregisterFails, Thread
  <2>3. ami' \in [Regions -> Image \cup {Nil}] /\ faults' \in 0 .. MaxFaults
    <3>1. ami' = ami \/ \E q \in Regions : ami' = [ami EXCEPT ![q] = Nil]
      BY <1>3 DEF ConnectThread, Deregister, DeregisterFails
    <3>2. faults' \in 0 .. MaxFaults
      BY <1>3, PublishAssumption DEF ConnectThread, Deregister, DeregisterFails, TypeOK
    <3> QED
      BY <3>1, <3>2 DEF TypeOK
  <2> QED
    BY <2>1, <2>2, <2>3 DEF TypeOK
<1> QED
  BY <1>1, <1>2, <1>3 DEF Cleanup, Fault

\* Every variable keeps its type, for any number of attempts and regions and however many
\* attempts are under way at the same time.
THEOREM AwsTypeCorrect == Spec => []TypeOK
<1>1. Init => TypeInv
  BY NoThreadIsNil, PublishAssumption DEF Init, NoThread, TypeInv, TypeOK, Step, Ended
<1>2. TypeInv /\ [Next]_vars => TypeInv'
  <2> SUFFICES ASSUME TypeInv, [Next]_vars
               PROVE  TypeInv'
    OBVIOUS
  <2>1. ASSUME NEW a \in Attempts, Start(a) \/ Publish(a) \/ Cleanup(a) \/ Fault(a)
        PROVE  TypeInv'
    BY <2>1, PublishKeepsTypes, CleanupKeepsTypes
  <2>2. ASSUME NEW r \in Regions, AwsDecides(r)
        PROVE  TypeInv'
    <3>1. /\ ami[r] # Nil /\ UNCHANGED <<recorded, pc, todo, loopVar, thread>>
          /\ faults' \in 0 .. MaxFaults
      BY <2>2, PublishAssumption DEF AwsDecides, TypeInv, TypeOK
    <3>2. PICK s \in {"available", "failed"} : ami' = [ami EXCEPT ![r].state = s]
      BY <2>2 DEF AwsDecides
    <3>3. ami[r] \in Image
      BY <3>1 DEF TypeInv, TypeOK
    <3>4. [ami[r] EXCEPT !.state = s] \in Image
      BY <3>3 DEF Image
    <3>5. ami' \in [Regions -> Image \cup {Nil}]
      BY <3>2, <3>4 DEF TypeInv, TypeOK
    <3> QED
      BY <3>1, <3>5 DEF TypeInv, TypeOK
  <2>3. CASE UNCHANGED vars
    BY <2>3 DEF vars, TypeInv, TypeOK
  <2> QED
    BY <2>1, <2>2, <2>3 DEF Next
<1>3. TypeInv => TypeOK
  BY DEF TypeInv
<1> QED
  BY <1>1, <1>2, <1>3, PTL DEF Spec

-----------------------------------------------------------------------------
(* What follows.                                                            *)

\* When attempts take turns, the threads of a removal, whenever they run and whatever loop
\* variables they read, hit images of attempts only that record nothing: the inductive
\* invariant of aws.py.
THEOREM PublishInvariant == ASSUME MaxActive = 1 PROVE Spec => []PublishInv
<1>1. Init => PublishInv
  BY InitiallyPublishInv
<1>2. PublishInv /\ [Next]_vars => PublishInv'
  BY StepKeepsPublishInv
<1> QED
  BY <1>1, <1>2, PTL DEF Spec

\* The images that promote_single_step writes into a manifest are there, in every region,
\* ready and public, and stay so, whatever failed before and whatever still runs.
THEOREM PublishedIsUsable == ASSUME MaxActive = 1 PROVE Spec => []RecordedImagesAreUsable
<1>1. PublishInv => RecordedImagesAreUsable
  BY DEF PublishInv, Recorded, RecordedImagesAreUsable, Public, Ready, Own, Image
<1> QED
  BY <1>1, PublishInvariant, PTL
=============================================================================

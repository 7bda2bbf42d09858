------------------------ MODULE TriggerAndWaitProofs ------------------------
(***************************************************************************)
(* Proofs about TriggerAndWait, for any number of jobs, whatever they are  *)
(* started with, and any purge, repetition of names and time of waiting.   *)
(*                                                                         *)
(* A name is fixed when it is rendered, and a run that ever succeeded is   *)
(* remembered; so what a job has waited for stays true while runs are      *)
(* purged and made again under the name (Waited).  What a run reported is  *)
(* what it ends with (Reported).                                           *)
(***************************************************************************)
EXTENDS TriggerAndWait, FiniteSetTheorems, TLAPS

\* The stages of a job whose runs have their names.
Named == {"apply_image", "wait_image", "apply_package", "wait_package", "done", "failed"}

PastWait(p) == IF p = "image" THEN {"apply_package", "wait_package", "done"} ELSE {"done"}

Asked == \A j \in Jobs : pc[j] = "idle" <=> request[j] = Nil

NamesAreGiven == \A r \in Run : phase[r] # "none" \/ r \in won => pc[r[2]] \in Named

SucceededAreWon == \A r \in Run : phase[r] = "Succeeded" => r \in won

Served(r) == \E q \in won : NameOf(q) = NameOf(r)

Waited ==
    \A j \in Jobs, p \in Pipeline :
        pc[j] \in PastWait(p) /\ request[j].wait /\ p \in request[j].pipelines
            => Served(<<p, j>>)

Followed ==
    \A j \in Jobs :
        /\ phase[<<"package", j>>] # "none"
        /\ request[j].wait /\ "image" \in request[j].pipelines
        => Served(<<"image", j>>)

Reported ==
    \A r \in Run : phase[r] # "none" /\ status[CommitOf(r)].by = r =>
        LET state == status[CommitOf(r)].state IN
        /\ phase[r] = "reported" => state = IF taskFailed[r] THEN "failure" ELSE "success"
        /\ phase[r] = "Succeeded" => state = "success"
        /\ phase[r] = "Failed" => state = "failure"

TriggerInv ==
    /\ TypeOK /\ Asked /\ NamesAreGiven /\ SucceededAreWon
    /\ Waited /\ Followed /\ Reported

-----------------------------------------------------------------------------
(* Runs, stages and names.                                                  *)

LEMMA Runs ==
    /\ IsFiniteSet(Run)
    /\ \A r \in Run : r = <<r[1], r[2]>> /\ r[1] \in Pipeline /\ r[2] \in Jobs
    /\ \A p \in Pipeline, j \in Jobs :
          <<p, j>> \in Run /\ <<p, j>>[1] = p /\ <<p, j>>[2] = j
<1>1. IsFiniteSet(Pipeline)
  <2>1. Pipeline = {"image"} \cup {"package"}
    BY DEF Pipeline
  <2>2. IsFiniteSet({"image"}) /\ IsFiniteSet({"package"})
    BY FS_Singleton
  <2> QED
    BY <2>1, <2>2, FS_Union
<1>2. IsFiniteSet(Run)
  BY <1>1, FS_Product, TriggerAssumption DEF Run
<1> QED
  BY <1>2 DEF Run

LEMMA Stages ==
    \A p \in Pipeline :
        /\ Applying(p) \in Named /\ Waiting(p) \in Named /\ After(p) \in Named
        /\ Named \subseteq Stage
        /\ Applying(p) \notin PastWait(p) /\ Waiting(p) \notin PastWait(p)
BY DEF Pipeline, Applying, Waiting, After, Named, Stage, PastWait

\* The names that a job with a stage in Named has given do not change, nor those of
\* any other job while only one job moves.
LEMMA ServedStays ==
    ASSUME NEW r, Served(r), won \subseteq won',
           NameOf(r)' = NameOf(r), \A q \in won : NameOf(q)' = NameOf(q)
    PROVE  Served(r)'
BY DEF Served

LEMMA NamesOfOthersStay ==
    ASSUME TypeOK, NEW r \in Run, NEW j \in Jobs, r[2] # j,
           \/ \E q \in Request : request' = [request EXCEPT ![j] = q]
           \/ request' = request,
           \/ \E p \in Pipeline, t \in Nat : stamp' = [stamp EXCEPT ![<<p, j>>] = t]
           \/ stamp' = stamp
    PROVE  NameOf(r)' = NameOf(r)
<1>1. r[2] \in Jobs /\ \A p \in Pipeline : r # <<p, j>>
  BY Runs
<1>2. request'[r[2]] = request[r[2]]
  BY <1>1 DEF TypeOK
<1>3. stamp'[r] = stamp[r]
  BY <1>1 DEF TypeOK
<1> QED
  BY <1>2, <1>3 DEF NameOf

LEMMA InitiallyTriggerInv == Init => TriggerInv
<1> SUFFICES ASSUME Init PROVE TriggerInv
  OBVIOUS
<1>1. TypeOK
  BY TriggerAssumption DEF Init, TypeOK, Stage, Phase
<1>2. Asked /\ NamesAreGiven /\ SucceededAreWon /\ Reported
  BY Runs DEF Init, Asked, NamesAreGiven, SucceededAreWon, Reported
<1>3. Waited /\ Followed
  BY Runs DEF Init, Waited, Followed, PastWait, Pipeline
<1> QED
  BY <1>1, <1>2, <1>3 DEF TriggerInv

-----------------------------------------------------------------------------
(* The steps of a job.                                                      *)

LEMMA StartKeeps ==
    ASSUME TriggerInv, NEW j \in Jobs, Start(j)
    PROVE  TriggerInv'
<1> USE DEF TriggerInv
<1>1. PICK ask \in Request : request' = [request EXCEPT ![j] = ask]
  BY TriggerAssumption DEF Start
<1>2. TypeOK'
  BY <1>1, Runs DEF Start, Go, TypeOK, Stage, Phase
<1>3. Nil \notin Request
  BY TriggerAssumption
<1>4. pc' = [pc EXCEPT ![j] = "render_package"] /\ pc[j] = "idle"
  BY DEF Start, Go
<1>5. Asked'
  BY <1>1, <1>3, <1>4 DEF Asked, TypeOK
<1>6. \A r \in Run :
         /\ r[2] = j => phase[r] = "none" /\ r \notin won
         /\ phase'[r] \in {phase[r], "deleted"}
         /\ phase'[r] # phase[r] => phase[r] # "none"
         /\ r[2] # j => NameOf(r)' = NameOf(r)
  <2> TAKE r \in Run
  <2>1. r[2] = j => phase[r] = "none" /\ r \notin won
    BY <1>4 DEF NamesAreGiven, Named
  <2>2. /\ phase'[r] \in {phase[r], "deleted"}
        /\ phase'[r] # phase[r] => phase[r] # "none"
    BY DEF Start, Purged, Present
  <2>3. r[2] # j => NameOf(r)' = NameOf(r)
    BY <1>1, NamesOfOthersStay DEF Start
  <2> QED
    BY <2>1, <2>2, <2>3
<1>7. won' = won /\ status' = status
  BY DEF Start
<1>8. NamesAreGiven' /\ SucceededAreWon'
  <2>1. ASSUME NEW r \in Run, phase'[r] # "none" \/ r \in won
        PROVE  pc'[r[2]] \in Named
    <3>1. r[2] \in Jobs /\ pc[r[2]] \in Named
      BY <1>6, <2>1, Runs DEF NamesAreGiven
    <3>2. r[2] # j
      BY <1>4, <3>1 DEF Named
    <3> QED
      BY <1>4, <3>1, <3>2 DEF TypeOK
  <2>2. \A r \in Run : phase'[r] = "Succeeded" => r \in won
    BY <1>6 DEF SucceededAreWon
  <2> QED
    BY <1>7, <2>1, <2>2 DEF NamesAreGiven, SucceededAreWon
<1>9. \A r \in Run : r[2] # j /\ Served(r) => Served(r)'
  <2> SUFFICES ASSUME NEW r \in Run, r[2] # j, Served(r) PROVE Served(r)'
    OBVIOUS
  <2>1. \A q \in won : NameOf(q)' = NameOf(q)
    BY <1>6 DEF TypeOK
  <2>2. NameOf(r)' = NameOf(r)
    BY <1>6
  <2> QED
    BY <1>7, <2>1, <2>2, ServedStays
<1>10. Waited'
  <2> SUFFICES ASSUME NEW i \in Jobs, NEW p \in Pipeline,
                      pc'[i] \in PastWait(p), request'[i].wait, p \in request'[i].pipelines
               PROVE  Served(<<p, i>>)'
    BY DEF Waited
  <2>1. i # j
    BY <1>4 DEF TypeOK, PastWait
  <2>2. Served(<<p, i>>)
    BY <1>1, <1>4, <2>1 DEF Waited, TypeOK
  <2> QED
    BY <1>9, <2>1, <2>2, Runs
<1>11. Followed'
  <2> SUFFICES ASSUME NEW i \in Jobs, phase'[<<"package", i>>] # "none",
                      request'[i].wait, "image" \in request'[i].pipelines
               PROVE  Served(<<"image", i>>)'
    BY DEF Followed
  <2>1. /\ <<"package", i>> \in Run /\ <<"package", i>>[2] = i
        /\ <<"image", i>> \in Run /\ <<"image", i>>[2] = i
    BY Runs DEF Pipeline
  <2> DEFINE q == <<"package", i>>
  <2>4. q \in Run /\ q[2] = i /\ phase'[q] # "none"
    BY <2>1
  <2> HIDE DEF q
  <2>5. phase[q] # "none" /\ q[2] # j
    BY <1>6, <2>4
  <2>2. phase[<<"package", i>>] # "none" /\ i # j
    BY <2>4, <2>5 DEF q
  <2>3. Served(<<"image", i>>)
    BY <1>1, <2>2 DEF Followed, TypeOK
  <2> QED
    BY <1>9, <2>1, <2>2, <2>3
<1>12. Reported'
  <2> SUFFICES ASSUME NEW r \in Run, phase'[r] # "none", phase'[r] # "deleted",
                      status[CommitOf(r)'].by = r
               PROVE  LET state == status[CommitOf(r)'].state IN
                      /\ phase'[r] = "reported" =>
                            state = IF taskFailed'[r] THEN "failure" ELSE "success"
                      /\ phase'[r] = "Succeeded" => state = "success"
                      /\ phase'[r] = "Failed" => state = "failure"
    BY <1>7 DEF Reported
  <2>1. phase'[r] = phase[r] /\ r[2] # j
    BY <1>6
  <2>4. r \notin Purged
    BY DEF Start
  <2>2. CommitOf(r)' = CommitOf(r)
    BY <1>1, <2>1, Runs DEF CommitOf, TypeOK
  <2>3. taskFailed'[r] = taskFailed[r]
    BY <2>4 DEF Start, TypeOK
  <2> QED
    BY <2>1, <2>2, <2>3 DEF Reported
<1> QED
  BY <1>2, <1>5, <1>8, <1>10, <1>11, <1>12

LEMMA RenderKeeps ==
    ASSUME TriggerInv, NEW j \in Jobs, NEW p \in Pipeline,
           NEW where \in {"render_package", "render_image"},
           NEW next \in {"render_image", "apply_image"}, Render(j, p, where, next)
    PROVE  TriggerInv'
<1> USE DEF TriggerInv
<1>1. /\ UNCHANGED <<clock, request, polls, phase, made, taskFailed, status, won>>
      /\ pc[j] = where
      /\ pc' = [pc EXCEPT ![j] = next] \/ pc' = [pc EXCEPT ![j] = "failed"]
      /\ stamp' = [stamp EXCEPT ![<<p, j>>] = clock] \/ stamp' = stamp
  BY DEF Render, Go, run
<1>2. TypeOK'
  <2>1. pc' \in [Jobs -> Stage]
    BY <1>1 DEF TypeOK, Stage
  <2>2. stamp' \in [Run -> 0 .. MaxTime]
    BY <1>1 DEF TypeOK
  <2> QED
    BY <1>1, <2>1, <2>2 DEF TypeOK
<1>3. /\ pc[j] \notin Named /\ pc[j] # "idle" /\ pc'[j] # "idle"
      /\ \A q \in Pipeline : pc'[j] \notin PastWait(q)
      /\ \A i \in Jobs : i # j => pc'[i] = pc[i]
  BY <1>1 DEF TypeOK, Named, PastWait
<1>4. Asked'
  BY <1>1, <1>3 DEF Asked
<1>5. \A r \in Run : /\ phase[r] # "none" \/ r \in won => r[2] # j
                     /\ r[2] # j => NameOf(r)' = NameOf(r)
  <2> TAKE r \in Run
  <2>1. phase[r] # "none" \/ r \in won => r[2] # j
    BY <1>3 DEF NamesAreGiven
  <2>2. clock \in Nat
    BY TriggerAssumption DEF TypeOK
  <2>3. r[2] # j => NameOf(r)' = NameOf(r)
    BY <1>1, <2>2, NamesOfOthersStay
  <2> QED
    BY <2>1, <2>3
<1>6. NamesAreGiven'
  <2> SUFFICES ASSUME NEW r \in Run, phase[r] # "none" \/ r \in won
               PROVE  pc'[r[2]] \in Named
    BY <1>1 DEF NamesAreGiven
  <2>1. r[2] # j /\ r[2] \in Jobs /\ pc[r[2]] \in Named
    BY <1>5, Runs DEF NamesAreGiven
  <2> QED
    BY <1>3, <2>1
<1>7. SucceededAreWon'
  BY <1>1 DEF SucceededAreWon
<1>8. \A r \in Run : r[2] # j /\ Served(r) => Served(r)'
  <2> SUFFICES ASSUME NEW r \in Run, r[2] # j, Served(r) PROVE Served(r)'
    OBVIOUS
  <2>1. \A q \in won : NameOf(q)' = NameOf(q)
    BY <1>5 DEF TypeOK
  <2>2. NameOf(r)' = NameOf(r)
    BY <1>5
  <2> QED
    BY <1>1, <2>1, <2>2, ServedStays
<1>9. Waited'
  <2> SUFFICES ASSUME NEW i \in Jobs, NEW q \in Pipeline,
                      pc'[i] \in PastWait(q), request[i].wait, q \in request[i].pipelines
               PROVE  Served(<<q, i>>)'
    BY <1>1 DEF Waited
  <2>1. i # j /\ pc[i] \in PastWait(q)
    BY <1>3
  <2>2. Served(<<q, i>>)
    BY <2>1 DEF Waited
  <2> QED
    BY <1>8, <2>1, <2>2, Runs
<1>10. Followed'
  <2> SUFFICES ASSUME NEW i \in Jobs, phase[<<"package", i>>] # "none",
                      request[i].wait, "image" \in request[i].pipelines
               PROVE  Served(<<"image", i>>)'
    BY <1>1 DEF Followed
  <2>1. /\ <<"package", i>> \in Run /\ <<"package", i>>[2] = i
        /\ <<"image", i>> \in Run /\ <<"image", i>>[2] = i
    BY Runs DEF Pipeline
  <2>2. Served(<<"image", i>>)
    BY DEF Followed
  <2>3. i # j
    BY <1>5, <2>1
  <2> QED
    BY <1>8, <2>1, <2>2, <2>3
<1>11. Reported'
  BY <1>1 DEF Reported, CommitOf
<1> QED
  BY <1>2, <1>4, <1>6, <1>7, <1>9, <1>10, <1>11

\* Steps of a job that gives no name.
LEMMA NamesStay ==
    ASSUME request' = request, stamp' = stamp, won \subseteq won', NEW r, Served(r)
    PROVE  Served(r)'
BY DEF Served, NameOf

LEMMA ApplyKeeps ==
    ASSUME TriggerInv, NEW j \in Jobs, NEW p \in Pipeline, Apply(j, p)
    PROVE  TriggerInv'
<1> USE DEF TriggerInv
<1> DEFINE r0 == <<p, j>>
<1>1. /\ UNCHANGED <<clock, request, stamp, taskFailed, status, won>>
      /\ pc[j] = Applying(p)
      /\ \/ /\ p \in request[j].pipelines /\ request[j].wait
            /\ pc' = [pc EXCEPT ![j] = Waiting(p)]
         \/ /\ p \notin request[j].pipelines \/ ~request[j].wait
            /\ pc' = [pc EXCEPT ![j] = After(p)]
      /\ phase' = phase \/ phase' = [phase EXCEPT ![r0] = "created"]
      /\ polls' = polls \/ polls' = [polls EXCEPT ![j] = 0]
      /\ \/ made' = made
         \/ made' = [made EXCEPT ![r0] = 1 + Cardinality({r \in Run : made[r] > 0})]
  BY DEF Apply, Go
<1>2. r0 \in Run /\ r0[2] = j
  BY Runs
<1>3. pc[j] \in Named /\ pc'[j] \in Named /\ \A i \in Jobs : i # j => pc'[i] = pc[i]
  BY <1>1, Stages DEF TypeOK, Named
<1>4. Cardinality({r \in Run : made[r] > 0}) \in Nat
  BY Runs, FS_Subset, FS_CardinalityType
<1> HIDE DEF r0
<1>5. TypeOK'
  <2>1. pc' \in [Jobs -> Stage]
    BY <1>1, Stages DEF TypeOK, Stage
  <2>2. phase' \in [Run -> Phase] /\ made' \in [Run -> Nat]
    BY <1>1, <1>4 DEF TypeOK, Phase
  <2>3. polls' \in [Jobs -> 0 .. MaxPolls + 1]
    BY <1>1, TriggerAssumption DEF TypeOK
  <2> QED
    BY <1>1, <2>1, <2>2, <2>3 DEF TypeOK
<1>6. Asked'
  BY <1>1, <1>3 DEF Asked, Named
<1>7. \A r \in Run : r # r0 => phase'[r] = phase[r]
  BY <1>1 DEF TypeOK
<1>8. NamesAreGiven'
  <2> SUFFICES ASSUME NEW r \in Run, phase'[r] # "none" \/ r \in won
               PROVE  pc'[r[2]] \in Named
    BY <1>1 DEF NamesAreGiven
  <2>1. CASE r = r0
    BY <1>2, <1>3, <2>1
  <2>2. CASE r # r0
    <3>1. r[2] \in Jobs /\ pc[r[2]] \in Named
      BY <1>7, <2>2, Runs DEF NamesAreGiven
    <3> QED
      BY <1>3, <3>1
  <2> QED
    BY <2>1, <2>2
<1>9. phase'[r0] \in {phase[r0], "created"}
  BY <1>1, <1>2 DEF TypeOK
<1>10. SucceededAreWon'
  BY <1>1, <1>7, <1>9 DEF SucceededAreWon
<1>11. \A r : Served(r) => Served(r)'
  BY <1>1, NamesStay
<1>12. ASSUME NEW q \in Pipeline, pc'[j] \in PastWait(q),
              request[j].wait, q \in request[j].pipelines
       PROVE  pc[j] \in PastWait(q)
  <2>1. CASE pc'[j] = Waiting(p)
    BY <1>1, <1>12, <2>1 DEF PastWait, Waiting, Applying, Pipeline
  <2>2. CASE pc'[j] = After(p) /\ p \notin request[j].pipelines
    BY <1>1, <1>12, <2>2 DEF PastWait, After, Applying, Pipeline
  <2> QED
    BY <1>1, <1>12, <2>1, <2>2 DEF TypeOK
<1>13. Waited'
  <2> SUFFICES ASSUME NEW i \in Jobs, NEW q \in Pipeline,
                      pc'[i] \in PastWait(q), request[i].wait, q \in request[i].pipelines
               PROVE  Served(<<q, i>>)'
    BY <1>1 DEF Waited
  <2>1. pc[i] \in PastWait(q)
    BY <1>3, <1>12
  <2> QED
    BY <1>11, <2>1 DEF Waited
<1>14. Followed'
  <2> SUFFICES ASSUME NEW i \in Jobs, phase'[<<"package", i>>] # "none",
                      request[i].wait, "image" \in request[i].pipelines
               PROVE  Served(<<"image", i>>)'
    BY <1>1 DEF Followed
  <2>1. CASE phase[<<"package", i>>] # "none"
    BY <1>11, <2>1 DEF Followed
  <2>2. CASE phase[<<"package", i>>] = "none"
    <3>1. <<"package", i>> = r0
      BY <1>7, <2>2, Runs DEF Pipeline
    <3>2. i = j /\ p = "package"
      BY <3>1 DEF r0
    <3>3. pc[i] \in PastWait("image") /\ "image" \in Pipeline
      BY <1>1, <3>2 DEF Applying, PastWait, Pipeline
    <3>4. Served(<<"image", i>>)
      BY <3>3 DEF Waited
    <3> QED
      BY <1>11, <3>4
  <2> QED
    BY <2>1, <2>2
<1>15. Reported'
  <2> SUFFICES ASSUME NEW r \in Run, phase'[r] # "none", phase'[r] # "created",
                      status[CommitOf(r)].by = r
               PROVE  LET state == status[CommitOf(r)].state IN
                      /\ phase'[r] = "reported" =>
                            state = IF taskFailed[r] THEN "failure" ELSE "success"
                      /\ phase'[r] = "Succeeded" => state = "success"
                      /\ phase'[r] = "Failed" => state = "failure"
    BY <1>1 DEF Reported, CommitOf
  <2>1. phase'[r] = phase[r]
    BY <1>7, <1>9
  <2> QED
    BY <2>1 DEF Reported
<1> QED
  BY <1>5, <1>6, <1>8, <1>10, <1>13, <1>14, <1>15

LEMMA PollKeeps ==
    ASSUME TriggerInv, NEW j \in Jobs, NEW p \in Pipeline, Poll(j, p)
    PROVE  TriggerInv'
<1> USE DEF TriggerInv
<1>1. /\ UNCHANGED <<clock, request, stamp, phase, made, taskFailed, status, won>>
      /\ pc[j] = Waiting(p)
  BY DEF Poll, run
<1>2. \/ pc' = [pc EXCEPT ![j] = "failed"] /\ polls' = polls
      \/ pc' = [pc EXCEPT ![j] = After(p)] /\ polls' = polls /\ Served(<<p, j>>)
      \/ pc' = pc /\ polls' = [polls EXCEPT ![j] = polls[j] + 1] /\ ~GivesUp(j)
  <2>2. ASSUME NEW r \in Known(<<p, j>>), NEW reason \in Reasons(r), Reached(reason),
               Go(j, After(p)), UNCHANGED polls
        PROVE  pc' = [pc EXCEPT ![j] = After(p)] /\ polls' = polls /\ Served(<<p, j>>)
    <3>1. r \in Run /\ phase[r] \notin {"none", "deleted"} /\ NameOf(r) = NameOf(<<p, j>>)
      BY DEF Known, Present
    <3>2. phase[r] = "Succeeded"
      BY <2>2, <3>1 DEF Reasons, Reached, TypeOK, Phase, Ended
    <3> QED
      BY <2>2, <3>1, <3>2 DEF SucceededAreWon, Served, Go
  <2>3. ASSUME NEW r \in Known(<<p, j>>), NEW reason \in Reasons(r),
               IF GivesUp(j) THEN Go(j, "failed") /\ UNCHANGED polls
               ELSE polls' = [polls EXCEPT ![j] = Slept(j)] /\ UNCHANGED pc
        PROVE  \/ pc' = [pc EXCEPT ![j] = "failed"] /\ polls' = polls
               \/ pc' = pc /\ polls' = [polls EXCEPT ![j] = polls[j] + 1] /\ ~GivesUp(j)
    BY <2>3 DEF Go, Slept
  <2>4. ASSUME Go(j, "failed"), UNCHANGED polls
        PROVE  pc' = [pc EXCEPT ![j] = "failed"] /\ polls' = polls
    BY <2>4 DEF Go
  <2> QED
    BY <2>2, <2>3, <2>4 DEF Poll
<1>3. pc[j] \in Named /\ pc'[j] \in Named /\ \A i \in Jobs : i # j => pc'[i] = pc[i]
  BY <1>1, <1>2, Stages DEF TypeOK, Named
<1>4. TypeOK'
  <2>1. pc' \in [Jobs -> Stage]
    BY <1>2, Stages DEF TypeOK, Stage
  <2>2. polls' \in [Jobs -> 0 .. MaxPolls + 1]
    BY <1>2, TriggerAssumption DEF TypeOK, GivesUp
  <2> QED
    BY <1>1, <2>1, <2>2 DEF TypeOK
<1>5. Asked'
  BY <1>1, <1>3 DEF Asked, Named
<1>6. NamesAreGiven' /\ SucceededAreWon'
  <2>1. ASSUME NEW r \in Run, phase[r] # "none" \/ r \in won
        PROVE  pc'[r[2]] \in Named
    BY <1>3, <2>1, Runs DEF NamesAreGiven
  <2> QED
    BY <1>1, <2>1 DEF NamesAreGiven, SucceededAreWon
<1>7. \A r : Served(r) => Served(r)'
  BY <1>1, NamesStay
<1>8. ASSUME NEW q \in Pipeline, pc'[j] \in PastWait(q)
      PROVE  pc[j] \in PastWait(q) \/ Served(<<q, j>>)
  <2>1. CASE pc'[j] = "failed"
    BY <1>8, <2>1 DEF PastWait
  <2>2. CASE pc'[j] = pc[j]
    BY <1>8, <2>2
  <2>3. CASE pc'[j] = After(p) /\ Served(<<p, j>>)
    <3>1. q = p \/ pc[j] \in PastWait(q)
      BY <1>1, <1>8, <2>3 DEF PastWait, After, Applying, Waiting, Pipeline
    <3> QED
      BY <2>3, <3>1
  <2> QED
    BY <1>2, <2>1, <2>2, <2>3 DEF TypeOK
<1>9. Waited'
  <2> SUFFICES ASSUME NEW i \in Jobs, NEW q \in Pipeline,
                      pc'[i] \in PastWait(q), request[i].wait, q \in request[i].pipelines
               PROVE  Served(<<q, i>>)'
    BY <1>1 DEF Waited
  <2>1. pc[i] \in PastWait(q) \/ Served(<<q, i>>)
    BY <1>3, <1>8
  <2> QED
    BY <1>7, <2>1 DEF Waited
<1>10. Followed'
  BY <1>1, <1>7 DEF Followed
<1>11. Reported'
  BY <1>1 DEF Reported, CommitOf
<1> QED
  BY <1>4, <1>5, <1>6, <1>9, <1>10, <1>11

LEMMA BreakOffKeeps ==
    ASSUME TriggerInv, NEW j \in Jobs, BreakOff(j)
    PROVE  TriggerInv'
<1> USE DEF TriggerInv
<1>1. /\ UNCHANGED <<clock, request, stamp, polls, phase, made, taskFailed, status, won>>
      /\ pc' = [pc EXCEPT ![j] = "failed"] /\ pc[j] # "idle"
  BY DEF BreakOff, Go, run
<1>2. TypeOK' /\ Asked'
  BY <1>1 DEF TypeOK, Stage, Asked
<1>3. NamesAreGiven' /\ SucceededAreWon' /\ Reported'
  BY <1>1, Runs DEF TypeOK, NamesAreGiven, Named, SucceededAreWon, Reported, CommitOf
<1>4. Waited' /\ Followed'
  BY <1>1, NamesStay DEF TypeOK, Waited, PastWait, Followed
<1> QED
  BY <1>2, <1>3, <1>4

-----------------------------------------------------------------------------
(* The steps of a run.                                                      *)

\* A run that there is moves on; those that succeed are remembered.
RunMoves(r) ==
    /\ UNCHANGED <<clock, request, pc, stamp, polls, made>>
    /\ phase[r] # "none"
    /\ \E where \in Phase \ {"none"} : phase' = [phase EXCEPT ![r] = where]
    /\ won \subseteq won' /\ won' \subseteq won \cup {r}
    /\ phase'[r] = "Succeeded" => r \in won'
    /\ taskFailed' \in [Run -> BOOLEAN]
    /\ \A q \in Run : q # r => taskFailed'[q] = taskFailed[q]

LEMMA RunMovesKeep ==
    ASSUME TriggerInv, NEW r \in Run, RunMoves(r)
    PROVE  Asked' /\ NamesAreGiven' /\ SucceededAreWon' /\ Waited' /\ Followed'
<1> USE DEF TriggerInv
<1>1. /\ UNCHANGED <<clock, request, pc, stamp, polls, made>> /\ phase[r] # "none"
      /\ won \subseteq won' /\ won' \subseteq won \cup {r}
      /\ phase'[r] = "Succeeded" => r \in won'
      /\ \A q \in Run : q # r => phase'[q] = phase[q]
  BY DEF RunMoves, TypeOK
<1>2. Asked'
  BY <1>1 DEF Asked
<1>3. NamesAreGiven'
  BY <1>1 DEF NamesAreGiven
<1>4. SucceededAreWon'
  BY <1>1 DEF SucceededAreWon
<1>5. \A q : Served(q) => Served(q)'
  BY <1>1, NamesStay
<1>6. Waited'
  BY <1>1, <1>5 DEF Waited
<1>7. Followed'
  <2> SUFFICES ASSUME NEW i \in Jobs, phase'[<<"package", i>>] # "none",
                      request[i].wait, "image" \in request[i].pipelines
               PROVE  Served(<<"image", i>>)'
    BY <1>1 DEF Followed
  <2>1. <<"package", i>> \in Run
    BY Runs DEF Pipeline
  <2>2. phase[<<"package", i>>] # "none"
    BY <1>1, <2>1
  <2> QED
    BY <1>5, <2>2 DEF Followed
<1> QED
  BY <1>2, <1>3, <1>4, <1>6, <1>7

\* The parts that each step of a run takes care of itself.
LEMMA RunKeeps ==
    ASSUME TriggerInv, NEW r \in Run, RunMoves(r), status' \in [Commits ->
               [state : {"none", "pending", "success", "failure"}, by : Run \cup {Nil}]],
           Reported'
    PROVE  TriggerInv'
<1>1. TypeOK'
  <2>1. phase' \in [Run -> Phase] /\ won' \subseteq Run /\ taskFailed' \in [Run -> BOOLEAN]
    BY DEF RunMoves, TriggerInv, TypeOK
  <2> QED
    BY <2>1 DEF RunMoves, TriggerInv, TypeOK
<1> QED
  BY <1>1, RunMovesKeep DEF TriggerInv

LEMMA CommitsOfRuns ==
    ASSUME TriggerInv, NEW r \in Run, phase[r] # "none"
    PROVE  CommitOf(r) \in Commits
<1>1. r[2] \in Jobs /\ pc[r[2]] # "idle"
  BY Runs DEF TriggerInv, NamesAreGiven, Named
<1>2. request[r[2]] \in Request
  BY <1>1 DEF TriggerInv, Asked, TypeOK
<1> QED
  BY <1>2 DEF CommitOf, Request

\* What another run says of a commit cannot become what r has said.
LEMMA PostKeeps ==
    ASSUME TriggerInv, NEW r \in Run, phase[r] # "none", request' = request,
           NEW state \in {"pending", "success", "failure"}, Post(r, state)
    PROVE  /\ status' \in [Commits -> [state : {"none", "pending", "success", "failure"},
                                       by : Run \cup {Nil}]]
           /\ status'[CommitOf(r)] = [state |-> state, by |-> r]
           /\ \A q \in Run : phase[q] # "none" /\ q # r /\ status'[CommitOf(q)].by = q
                 => status'[CommitOf(q)] = status[CommitOf(q)]
<1>1. CommitOf(r) \in Commits
  BY CommitsOfRuns
<1>2. status' = [status EXCEPT ![CommitOf(r)] = [state |-> state, by |-> r]]
  BY DEF Post
<1>3. \A q \in Run : phase[q] # "none" => CommitOf(q) \in Commits
  BY CommitsOfRuns
<1> QED
  BY <1>1, <1>2, <1>3 DEF TriggerInv, TypeOK

LEMMA UpdateStatusKeeps ==
    ASSUME TriggerInv, NEW r \in Run, UpdateStatus(r)
    PROVE  TriggerInv'
<1>1. /\ RunMoves(r) /\ phase[r] # "none" /\ Post(r, "pending")
      /\ phase' = [phase EXCEPT ![r] = "building"]
      /\ taskFailed' = taskFailed /\ request' = request
  BY DEF UpdateStatus, RunMoves, Enter, job, TriggerInv, TypeOK, Phase
<1>2. Reported'
  <2> SUFFICES ASSUME NEW q \in Run, phase'[q] # "none", status'[CommitOf(q)].by = q,
                      phase'[q] \in {"reported", "Succeeded", "Failed"}
               PROVE  /\ phase'[q] = "reported" => status'[CommitOf(q)].state =
                             IF taskFailed[q] THEN "failure" ELSE "success"
                      /\ phase'[q] = "Succeeded" => status'[CommitOf(q)].state = "success"
                      /\ phase'[q] = "Failed" => status'[CommitOf(q)].state = "failure"
    BY <1>1 DEF Reported, CommitOf
  <2>1. q # r /\ phase'[q] = phase[q]
    BY <1>1 DEF TriggerInv, TypeOK
  <2>2. status'[CommitOf(q)] = status[CommitOf(q)]
    BY <1>1, <2>1, PostKeeps
  <2> QED
    BY <2>1, <2>2 DEF TriggerInv, Reported
<1> QED
  BY <1>1, <1>2, PostKeeps, RunKeeps

LEMMA EndTasksKeeps ==
    ASSUME TriggerInv, NEW r \in Run, EndTasks(r)
    PROVE  TriggerInv'
<1>1. /\ RunMoves(r) /\ phase' = [phase EXCEPT ![r] = "notify"]
      /\ status' = status /\ request' = request
      /\ \A q \in Run : q # r => taskFailed'[q] = taskFailed[q]
  BY DEF EndTasks, RunMoves, Enter, job, TriggerInv, TypeOK, Phase
<1>2. Reported'
  BY <1>1 DEF TriggerInv, Reported, CommitOf, TypeOK
<1> QED
  BY <1>1, <1>2, RunKeeps DEF TriggerInv, TypeOK

LEMMA ReportStatusKeeps ==
    ASSUME TriggerInv, NEW r \in Run, ReportStatus(r)
    PROVE  TriggerInv'
<1>1. /\ RunMoves(r) /\ phase[r] # "none"
      /\ taskFailed' = taskFailed /\ request' = request
      /\ \/ /\ Post(r, Verdict(r))
            /\ phase' = [phase EXCEPT ![r] = "reported"]
         \/ /\ status' = status
            /\ phase' = [phase EXCEPT ![r] = "crashed"]
  BY DEF ReportStatus, PostVerdict, RunMoves, Enter, job, TriggerInv, TypeOK, Phase, Ended
<1>2. CASE status' = status /\ phase' = [phase EXCEPT ![r] = "crashed"]
  <2>1. Reported'
    BY <1>1, <1>2 DEF TriggerInv, Reported, CommitOf, TypeOK
  <2> QED
    BY <1>1, <1>2, <2>1, RunKeeps DEF TriggerInv, TypeOK
<1>3. CASE Post(r, Verdict(r)) /\ phase' = [phase EXCEPT ![r] = "reported"]
  <2>1. Verdict(r) \in {"pending", "success", "failure"}
    BY DEF Verdict
  <2>2. Reported'
    <3> SUFFICES ASSUME NEW q \in Run, phase'[q] # "none", status'[CommitOf(q)].by = q
                 PROVE  /\ phase'[q] = "reported" => status'[CommitOf(q)].state =
                               IF taskFailed[q] THEN "failure" ELSE "success"
                        /\ phase'[q] = "Succeeded" => status'[CommitOf(q)].state = "success"
                        /\ phase'[q] = "Failed" => status'[CommitOf(q)].state = "failure"
      BY <1>1 DEF Reported, CommitOf
    <3>1. CASE q = r
      <4>1. phase'[q] = "reported"
        BY <1>3, <3>1 DEF TriggerInv, TypeOK
      <4>2. status'[CommitOf(r)] = [state |-> Verdict(r), by |-> r]
        BY <1>1, <1>3, <2>1, PostKeeps
      <4> QED
        BY <3>1, <4>1, <4>2 DEF Verdict
    <3>2. CASE q # r
      <4>1. phase'[q] = phase[q]
        BY <1>3, <3>2 DEF TriggerInv, TypeOK
      <4>2. status'[CommitOf(q)] = status[CommitOf(q)]
        BY <1>1, <1>3, <2>1, <3>2, <4>1, PostKeeps
      <4> QED
        BY <4>1, <4>2 DEF TriggerInv, Reported
    <3> QED
      BY <3>1, <3>2
  <2> QED
    BY <1>1, <1>3, <2>1, <2>2, PostKeeps, RunKeeps
<1> QED
  BY <1>1, <1>2, <1>3

LEMMA FinishKeeps ==
    ASSUME TriggerInv, NEW r \in Run, Finish(r)
    PROVE  TriggerInv'
<1>1. /\ RunMoves(r) /\ phase[r] = "reported"
      /\ status' = status /\ taskFailed' = taskFailed /\ request' = request
      /\ phase' = [phase EXCEPT ![r] = IF taskFailed[r] THEN "Failed" ELSE "Succeeded"]
  BY DEF Finish, RunMoves, Enter, job, TriggerInv, TypeOK, Phase, Ended
<1>2. Reported'
  BY <1>1 DEF TriggerInv, Reported, CommitOf, TypeOK
<1> QED
  BY <1>1, <1>2, RunKeeps DEF TriggerInv, TypeOK

LEMMA AbortKeeps ==
    ASSUME TriggerInv, NEW r \in Run, Abort(r)
    PROVE  TriggerInv'
<1>1. /\ RunMoves(r) /\ phase' = [phase EXCEPT ![r] = "aborted"]
      /\ status' = status /\ taskFailed' = taskFailed /\ request' = request
  BY DEF Abort, RunMoves, Enter, job, TriggerInv, TypeOK, Phase, Ended
<1>2. Reported'
  BY <1>1 DEF TriggerInv, Reported, CommitOf, TypeOK
<1> QED
  BY <1>1, <1>2, RunKeeps DEF TriggerInv, TypeOK

-----------------------------------------------------------------------------
(* The invariant and what follows from it.                                  *)

LEMMA StillKeeps ==
    ASSUME TriggerInv, UNCHANGED <<job, run, status, won>>, clock' \in 0 .. MaxTime
    PROVE  TriggerInv'
<1>1. UNCHANGED <<request, pc, stamp, polls, phase, made, taskFailed, status, won>>
  BY DEF job, run
<1>2. TypeOK'
  BY <1>1 DEF TriggerInv, TypeOK
<1>3. Asked' /\ NamesAreGiven' /\ SucceededAreWon' /\ Reported'
  BY <1>1 DEF TriggerInv, Asked, NamesAreGiven, SucceededAreWon, Reported, CommitOf
<1>4. Waited' /\ Followed'
  BY <1>1, NamesStay DEF TriggerInv, Waited, Followed
<1> QED
  BY <1>2, <1>3, <1>4 DEF TriggerInv

LEMMA StepKeepsTriggerInv == TriggerInv /\ [Next]_vars => TriggerInv'
<1> SUFFICES ASSUME TriggerInv, [Next]_vars PROVE TriggerInv'
  OBVIOUS
<1>1. ASSUME NEW j \in Jobs, Start(j) PROVE TriggerInv'
  BY <1>1, StartKeeps
<1>2. ASSUME NEW j \in Jobs, JobStep(j) PROVE TriggerInv'
  <2>1. CASE RenderPackage(j)
    BY <2>1, RenderKeeps DEF RenderPackage, Pipeline
  <2>2. CASE RenderImage(j)
    <3>1. Render(j, "image", "render_image", "apply_image")
      BY <2>2 DEF RenderImage, Applying
    <3> QED
      BY <3>1, RenderKeeps DEF Pipeline
  <2>3. ASSUME NEW p \in Pipeline, Apply(j, p) \/ Poll(j, p) PROVE TriggerInv'
    BY <2>3, ApplyKeeps, PollKeeps
  <2> QED
    BY <1>2, <2>1, <2>2, <2>3 DEF JobStep
<1>3. ASSUME NEW j \in Jobs, BreakOff(j) PROVE TriggerInv'
  BY <1>3, BreakOffKeeps
<1>4. ASSUME NEW r \in Run, RunStep(r) \/ Abort(r) PROVE TriggerInv'
  BY <1>4, UpdateStatusKeeps, EndTasksKeeps, ReportStatusKeeps, FinishKeeps, AbortKeeps
     DEF RunStep
<1>5. CASE Tick
  <2>1. clock' \in 0 .. MaxTime
    BY <1>5, TriggerAssumption DEF Tick, TriggerInv, TypeOK
  <2> QED
    BY <1>5, <2>1, StillKeeps DEF Tick
<1>6. CASE UNCHANGED vars
  BY <1>6, StillKeeps DEF vars, TriggerInv, TypeOK
<1> QED
  BY <1>1, <1>2, <1>3, <1>4, <1>5, <1>6 DEF Next

\* The inductive invariant: names are fixed once given, what was waited for has
\* succeeded under its name, and what was reported is what the run ends with.
THEOREM TriggerInvariant == Spec => []TriggerInv
<1>1. Init => TriggerInv
  BY InitiallyTriggerInv
<1>2. TriggerInv /\ [Next]_vars => TriggerInv'
  BY StepKeepsTriggerInv
<1> QED
  BY <1>1, <1>2, PTL DEF Spec

\* A run that succeeded under the name of another is that run or a namesake of it.
LEMMA ServedByOwnOrNamesake ==
    ASSUME TriggerInv, NEW r \in Run, Served(r)
    PROVE  \/ r \in won
           \/ \E q \in won \cap Namesakes(r) :
                 CommitOf(q) = CommitOf(r) /\ stamp[q] % Wrap = stamp[r] % Wrap
<1>1. PICK q \in won : NameOf(q) = NameOf(r)
  BY DEF Served
<1>2. q \in Run /\ q[2] \in Jobs /\ pc[q[2]] # "idle"
  BY Runs DEF TriggerInv, TypeOK, NamesAreGiven, Named
<1>3. request[q[2]] # Nil
  BY <1>2 DEF TriggerInv, Asked
<1>4. CommitOf(q) = CommitOf(r) /\ stamp[q] % Wrap = stamp[r] % Wrap
  BY <1>1 DEF NameOf, CommitOf
<1> QED
  BY <1>1, <1>2, <1>3, <1>4 DEF Namesakes

\* Every variable keeps its type (TriggerAndWait, the whole job and its runs).
THEOREM TriggerTypeCorrect == Spec => []TypeOK
<1>1. TriggerInv => TypeOK
  BY DEF TriggerInv
<1> QED
  BY <1>1, TriggerInvariant, PTL

\* A job that ends well after waiting has seen a run of its own name succeed
\* (wait_for_pipelinerun_status and kubectl apply know runs by name only).
THEOREM SuccessIsKnownByName == Spec => []SuccessIsOfOwnBuild
<1>1. TriggerInv => SuccessIsOfOwnBuild
  <2> SUFFICES ASSUME TriggerInv, NEW j \in Jobs, NEW p \in Pipeline,
                      pc[j] = "done", request[j].wait, p \in request[j].pipelines
               PROVE  \/ <<p, j>> \in won
                      \/ \E q \in won \cap Namesakes(<<p, j>>) :
                            /\ CommitOf(q) = CommitOf(<<p, j>>)
                            /\ stamp[q] % Wrap = stamp[<<p, j>>] % Wrap
    BY DEF SuccessIsOfOwnBuild
  <2>1. Served(<<p, j>>)
    BY DEF TriggerInv, Waited, PastWait
  <2> QED
    BY <2>1, Runs, ServedByOwnOrNamesake
<1> QED
  BY <1>1, TriggerInvariant, PTL

\* A job that waits makes its package run only after its images have succeeded
\* (render_pipelines_and_trigger_job, under set -e).
THEOREM PackagesComeAfterImages == Spec => []PackagesFollowImages
<1>1. TriggerInv => PackagesFollowImages
  <2> SUFFICES ASSUME TriggerInv, NEW j \in Jobs, phase[<<"package", j>>] # "none",
                      request[j].wait, "image" \in request[j].pipelines
               PROVE  \/ <<"image", j>> \in won
                      \/ won \cap Namesakes(<<"image", j>>) # {}
    BY DEF PackagesFollowImages
  <2>1. Served(<<"image", j>>)
    BY DEF TriggerInv, Followed
  <2>2. <<"image", j>> \in Run
    BY Runs DEF Pipeline
  <2> QED
    BY <2>1, <2>2, ServedByOwnOrNamesake
<1> QED
  BY <1>1, TriggerInvariant, PTL

\* The status a run gave its commit agrees with how it ended, however many runs
\* write the status of that commit (send_notification).
THEOREM StatusIsTrue == Spec => []StatusAgreesWithRun
<1>1. TriggerInv => StatusAgreesWithRun
  BY DEF TriggerInv, Reported, StatusAgreesWithRun
<1> QED
  BY <1>1, TriggerInvariant, PTL
=============================================================================

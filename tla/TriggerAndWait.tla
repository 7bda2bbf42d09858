--------------------------- MODULE TriggerAndWait ---------------------------
(***************************************************************************)
(* The job render_pipelines_and_trigger_job and the pipeline runs it makes *)
(* in a Tekton namespace it shares with other jobs.  A job purges old      *)
(* runs, renders two pipeline runs, applies those it is asked for, and may *)
(* wait for each of them; a run reports its state on the commit it builds. *)
(*                                                                         *)
(* What the tasks of a run do is in ReleasePipeline; here they succeed or  *)
(* not.  Every exit code but 0 ends a job (set -e).                        *)
(***************************************************************************)
EXTENDS Integers, FiniteSets

CONSTANTS Jobs,
          Commits,
          Targets,   \* sets of build targets, as their shorthand in a name
          Requests,  \* what each job may be started with
          Wrap,      \* seconds after which the digits of a name repeat (10000)
          Keep,      \* runs a purge leaves (20)
          MaxPolls,  \* polls in the time a wait may take (45 minutes, 15 seconds each)
          MaxTime,   \* bound on the clock (seconds)
          Nil

\* In the order in which a job applies them.
Pipeline == {"image", "package"}

\* sound: the VERSION can be parsed, and the targets bring those they require.
\* quiet: notifications are disabled, it is a pull request, or nobody is to be told.
Request == [commit : Commits, targets : Targets, sound : BOOLEAN,
            pipelines : SUBSET Pipeline, wait : BOOLEAN, quiet : BOOLEAN]

ASSUME TriggerAssumption ==
    /\ Requests \in [Jobs -> SUBSET Request]
    /\ Wrap \in Nat \ {0}
    /\ Keep \in Nat
    /\ MaxPolls \in Nat
    /\ MaxTime \in Nat
    /\ IsFiniteSet(Jobs)
    /\ Nil \notin Request \cup Commits

\* A run is known by the job that made it; its name is what Tekton knows it by.
Run == Pipeline \X Jobs

Ended == {"Succeeded", "Failed", "crashed", "aborted"}
Phase == {"none", "created", "building", "notify", "reported", "deleted"} \cup Ended

VARIABLES
    clock,
    request,   \* what a job was started with
    pc,        \* the stage of a job
    stamp,     \* the time a job put into a name
    polls,     \* how often a job has slept in its present wait
    phase,     \* of a run
    made,      \* its place in the order of creation
    taskFailed,\* whether one of its tasks failed
    status,    \* of a commit on GitHub, with the run that gave it
    won        \* the runs that ever succeeded

job == <<request, pc, stamp, polls>>
run == <<phase, made, taskFailed>>
vars == <<clock, job, run, status, won>>

\* What a job does about a pipeline.
Applying(p) == IF p = "image" THEN "apply_image" ELSE "apply_package"
Waiting(p)  == IF p = "image" THEN "wait_image" ELSE "wait_package"

Stage == {"idle", "render_package", "render_image", "apply_image", "wait_image",
          "apply_package", "wait_package", "done", "failed"}

TypeOK ==
    /\ clock \in 0 .. MaxTime
    /\ request \in [Jobs -> Request \cup {Nil}]
    /\ pc \in [Jobs -> Stage]
    /\ stamp \in [Run -> 0 .. MaxTime]
    /\ polls \in [Jobs -> 0 .. MaxPolls + 1]
    /\ phase \in [Run -> Phase]
    /\ made \in [Run -> Nat]
    /\ taskFailed \in [Run -> BOOLEAN]
    /\ status \in [Commits -> [state : {"none", "pending", "success", "failure"},
                               by : Run \cup {Nil}]]
    /\ won \subseteq Run

Init ==
    /\ clock = 0
    /\ request = [j \in Jobs |-> Nil]
    /\ pc = [j \in Jobs |-> "idle"]
    /\ stamp = [r \in Run |-> 0]
    /\ polls = [j \in Jobs |-> 0]
    /\ phase = [r \in Run |-> "none"]
    /\ made = [r \in Run |-> 0]
    /\ taskFailed = [r \in Run |-> FALSE]
    /\ status = [c \in Commits |-> [state |-> "none", by |-> Nil]]
    /\ won = {}

-----------------------------------------------------------------------------
(* The names of runs.                                                       *)

\* (mutant) the digits of the time are the first thing a cut takes off
NameOf_Cut(r) ==
    [pipeline |-> r[1], targets |-> request[r[2]].targets,
     commit |-> request[r[2]].commit, digits |-> 0]

\* mk_pipeline_name, for versions short enough for the 60 characters.
NameOf(r) ==
    [pipeline |-> r[1], targets |-> request[r[2]].targets,
     commit |-> request[r[2]].commit, digits |-> stamp[r] % Wrap]

Present == {r \in Run : phase[r] \notin {"none", "deleted"}}

Known(r) == {q \in Present : NameOf(q) = NameOf(r)}

-----------------------------------------------------------------------------
(* The job.                                                                 *)

Go(j, where) == pc' = [pc EXCEPT ![j] = where]

Newer(r) == {q \in Present : made[q] > made[r]}

Purged == {r \in Present : Cardinality(Newer(r)) >= Keep}

\* The purge takes running runs too, and nothing of these runs any more.
Start(j) ==
    /\ pc[j] = "idle"
    /\ \E q \in Requests[j] : request' = [request EXCEPT ![j] = q]
    /\ phase' = [r \in Run |-> IF r \in Purged THEN "deleted" ELSE phase[r]]
    /\ taskFailed' = [r \in Run |-> taskFailed[r] /\ r \notin Purged]
    /\ Go(j, "render_package")
    /\ UNCHANGED <<clock, stamp, polls, made, status, won>>

\* Both runs are rendered whatever is asked for, each with a time of its own; that of
\* a run that is not applied later is of no interest.
Render(j, p, where, next) ==
    /\ pc[j] = where
    /\ IF request[j].sound
       THEN /\ stamp' = IF p \in request[j].pipelines
                         THEN [stamp EXCEPT ![<<p, j>>] = clock] ELSE stamp
            /\ Go(j, next)
       ELSE Go(j, "failed") /\ UNCHANGED stamp
    /\ UNCHANGED <<clock, request, polls, run, status, won>>

RenderPackage(j) == Render(j, "package", "render_package", "render_image")
RenderImage(j)   == Render(j, "image", "render_image", Applying("image"))

After(p) == IF p = "image" THEN Applying("package") ELSE "done"

\* kubectl apply: a run of that name is left as it is.
Apply(j, p) ==
    /\ pc[j] = Applying(p)
    /\ \/ /\ p \in request[j].pipelines
          /\ IF Known(<<p, j>>) = {}
             THEN /\ phase' = [phase EXCEPT ![<<p, j>>] = "created"]
                  /\ made' = [made EXCEPT ![<<p, j>>] =
                                 1 + Cardinality({r \in Run : made[r] > 0})]
             ELSE UNCHANGED <<phase, made>>
          /\ Go(j, IF request[j].wait THEN Waiting(p) ELSE After(p))
          /\ polls' = [polls EXCEPT ![j] = 0]
       \/ /\ p \notin request[j].pipelines
          /\ Go(j, After(p))
          /\ UNCHANGED <<phase, made, polls>>
    /\ UNCHANGED <<clock, request, stamp, taskFailed, status, won>>

\* What the last condition of a run may say; "" stands for no status yet.
Reasons(r) ==
    CASE phase[r] = "created" -> {"", "Started", "Running"}
      [] phase[r] \in {"building", "notify", "reported"} ->
            {"Running", "PipelineRunStopping"}
      [] phase[r] \in {"Failed", "crashed"} -> {"Failed"}
      [] phase[r] = "aborted" -> {"PipelineRunCancelled", "PipelineRunTimeout"}
      [] phase[r] = "Succeeded" -> {"Succeeded"}

\* (mutant) a run that is stopping counts as one that has come to its end
Reached_Stopping(reason) == reason \in {"Succeeded", "PipelineRunStopping"}

Reached(reason) == reason = "Succeeded"

GivesUp(j) == polls[j] > MaxPolls

\* (mutant) the start of the wait is noted in every iteration
Slept_Restart(j) == 0

Slept(j) == polls[j] + 1

\* One iteration of wait_for_pipelinerun_status.  A run that is gone, and every
\* reason that is none of StatusReason, is an exception.
Poll(j, p) ==
    /\ pc[j] = Waiting(p)
    /\ \/ /\ Known(<<p, j>>) = {}
          /\ Go(j, "failed")
          /\ UNCHANGED polls
       \/ \E r \in Known(<<p, j>>) : \E reason \in Reasons(r) :
            \/ /\ Reached(reason)
               /\ Go(j, After(p))
               /\ UNCHANGED polls
            \/ /\ ~Reached(reason)
               /\ reason \in {"", "Running", "PipelineRunStopping"}
               /\ IF GivesUp(j)
                  THEN Go(j, "failed") /\ UNCHANGED polls
                  ELSE polls' = [polls EXCEPT ![j] = Slept(j)] /\ UNCHANGED pc
            \/ /\ ~Reached(reason)
               /\ reason \notin {"", "Running", "PipelineRunStopping"}
               /\ Go(j, "failed")
               /\ UNCHANGED polls
    /\ UNCHANGED <<clock, request, stamp, run, status, won>>

JobStep(j) ==
    \/ RenderPackage(j)
    \/ RenderImage(j)
    \/ \E p \in Pipeline : Apply(j, p) \/ Poll(j, p)

\* A command fails (set -e), or the job is killed; what it has applied stays.
BreakOff(j) ==
    /\ pc[j] \notin {"idle", "done", "failed"}
    /\ Go(j, "failed")
    /\ UNCHANGED <<clock, request, stamp, polls, run, status, won>>

-----------------------------------------------------------------------------
(* The run.                                                                 *)

Enter(r, where) == phase' = [phase EXCEPT ![r] = where]

CommitOf(r) == request[r[2]].commit

Post(r, state) ==
    status' = [status EXCEPT ![CommitOf(r)] = [state |-> state, by |-> r]]

\* update_status, the second step of the first task.
UpdateStatus(r) ==
    /\ phase[r] = "created"
    /\ Enter(r, "building")
    /\ Post(r, "pending")
    /\ UNCHANGED <<clock, job, made, taskFailed, won>>

\* The first task may fail before it has given the status.
EndTasks(r) ==
    /\ \/ phase[r] = "building" /\ taskFailed' \in {taskFailed, [taskFailed EXCEPT ![r] = TRUE]}
       \/ phase[r] = "created" /\ taskFailed' = [taskFailed EXCEPT ![r] = TRUE]
    /\ Enter(r, "notify")
    /\ UNCHANGED <<clock, job, made, status, won>>

\* (mutant) a failed task is not told from a successful one
Verdict_Success(r) == "success"

Verdict(r) == IF taskFailed[r] THEN "failure" ELSE "success"

\* (mutant) notifications that are disabled are looked at before the status
PostVerdict_Quiet(r) ==
    IF request[r[2]].quiet THEN UNCHANGED status ELSE Post(r, Verdict(r))

\* send_notification posts the status whatever else it is told.
PostVerdict(r) == Post(r, Verdict(r))

\* The notify task up to the status: what the log steps before it do not catch ends
\* it, what they catch is written to status.txt, which changes nothing below.
ReportStatus(r) ==
    /\ phase[r] = "notify"
    /\ \/ /\ PostVerdict(r)
          /\ Enter(r, "reported")
       \/ Enter(r, "crashed") /\ UNCHANGED status
    /\ UNCHANGED <<clock, job, made, taskFailed, won>>

\* The rest of send_notification: nothing is sent, and nothing can go wrong, unless
\* a task failed; then the run has failed, whether the mail goes out or not.
Finish(r) ==
    /\ phase[r] = "reported"
    /\ IF taskFailed[r]
       THEN Enter(r, "Failed") /\ UNCHANGED won
       ELSE Enter(r, "Succeeded") /\ won' = won \cup {r}
    /\ UNCHANGED <<clock, job, made, taskFailed, status>>

\* Tekton ends a run for its timeout, a person cancels it: no task runs any more.
Abort(r) ==
    /\ phase[r] \in {"created", "building", "notify", "reported"}
    /\ Enter(r, "aborted")
    /\ UNCHANGED <<clock, job, made, taskFailed, status, won>>

RunStep(r) ==
    \/ UpdateStatus(r) \/ EndTasks(r) \/ ReportStatus(r) \/ Finish(r)

\* The clock is read by those who render.
Tick ==
    /\ clock < MaxTime
    /\ \E j \in Jobs : pc[j] \in {"idle", "render_package", "render_image"}
    /\ clock' = clock + 1
    /\ UNCHANGED <<job, run, status, won>>

Next ==
    \/ \E j \in Jobs : Start(j) \/ JobStep(j) \/ BreakOff(j)
    \/ \E r \in Run : RunStep(r) \/ Abort(r)
    \/ Tick

Spec == Init /\ [][Next]_vars

\* The tasks of a run may take any time.
Fairness ==
    /\ \A j \in Jobs : WF_vars(JobStep(j))
    /\ \A r \in Run : WF_vars(ReportStatus(r) \/ Finish(r))

FairSpec == Spec /\ Fairness

-----------------------------------------------------------------------------
(* Properties.                                                              *)

\* Jobs whose runs have the name of those of j although they are other runs.
Namesakes(r) == {q \in Run \ {r} : request[q[2]] # Nil /\ NameOf(q) = NameOf(r)}

\* A job that has waited for a run and says so with exit code 0 has seen a run of
\* that name succeed, all of its tasks included.  It is the one the job itself made,
\* unless another job gave the same name: to a run of the same commit and the same
\* targets, in the same second or a multiple of 10000 seconds away (mk_pipeline_name,
\* kubectl apply, wait_for_pipelinerun).
SuccessIsOfOwnBuild ==
    \A j \in Jobs, p \in Pipeline :
        pc[j] = "done" /\ request[j].wait /\ p \in request[j].pipelines =>
            \/ <<p, j>> \in won
            \/ \E q \in won \cap Namesakes(<<p, j>>) :
                  /\ CommitOf(q) = CommitOf(<<p, j>>)
                  /\ stamp[q] % Wrap = stamp[<<p, j>>] % Wrap

\* A job that waits builds packages only after its images: a package run of its own
\* is there only when a run under the name of its image run has succeeded, whatever
\* was purged, cancelled or renamed in between (render_pipelines_and_trigger_job).
PackagesFollowImages ==
    \A j \in Jobs :
        /\ phase[<<"package", j>>] # "none"
        /\ request[j].wait
        /\ "image" \in request[j].pipelines
        => <<"image", j>> \in won \/ won \cap Namesakes(<<"image", j>>) # {}

\* The status of a commit and the state of the run that gave it never disagree once
\* that run has come to its own end, although two pipelines and any number of jobs
\* give the status of one commit (send_notification, update_status).
StatusAgreesWithRun ==
    \A r \in Run :
        phase[r] \in {"Succeeded", "Failed"} /\ status[CommitOf(r)].by = r =>
            status[CommitOf(r)].state =
                IF phase[r] = "Succeeded" THEN "success" ELSE "failure"

LeftPending(c) ==
    /\ status[c].state = "pending"
    /\ phase[status[c].by] \in {"notify", "reported", "Succeeded", "Failed"}

\* A commit does not stay pending when the tasks of the run that said so have ended,
\* unless that run was taken away or broken off before it could take it back (the
\* notify task is under finally).
StatusSettles == \A c \in Commits : LeftPending(c) ~> ~LeftPending(c)

\* A job that was started ends, also when the run it waits for never does
\* (wait_for_pipelinerun_status gives up).
JobsEnd ==
    \A j \in Jobs : pc[j] # "idle" ~> pc[j] \in {"done", "failed"}
=============================================================================

--------------------------- MODULE BucketCleaning ---------------------------
(***************************************************************************)
(* The job clean-build-result-repository (ci/clean.py), beside the         *)
(* pipeline runs that fill the same bucket.  It purges the outdated        *)
(* documents, marks what the remaining ones refer to, and sweeps the       *)
(* objects that are not marked.  Every S3 request is an action.            *)
(***************************************************************************)
EXTENDS ReleasePipeline

CONSTANTS MaxAge,            \* --snapshot-max-age-days, in ticks of the clock
          RunTimeout,        \* the timeout of a pipeline run, in the same ticks
          PageSize,          \* how many keys one response of list_objects_v2 holds
          CleanWhileRunning, \* whether the job and pipeline runs may overlap
          MaxAborts          \* bound on the jobs that end with an exception

ASSUME CleaningAssumption ==
    /\ MaxAge \in Nat
    /\ RunTimeout \in 0..(MaxAge - 1)
    /\ PageSize \in Nat \ {0}
    /\ CleanWhileRunning \in BOOLEAN
    /\ MaxAborts \in Nat

VARIABLES
    begun,   \* when a run in flight was started
    job,     \* idle, singles, sets, mark_sets, mark_singles or sweep
    cutoff,  \* oldest_allowed_date
    listed,  \* documents the job has listed and not read yet
    doomed,  \* outdated documents, read and not deleted yet
    marked,  \* all_object_keys
    seen,    \* the object keys of the pages listed so far
    loose,   \* loose_object_keys of the last page
    aborts   \* jobs that ended with an exception so far

jobVars   == <<job, cutoff, listed, doomed, marked, seen, loose, aborts>>
allVars   == <<vars, begun, jobVars>>
runState  == <<clock, outside, phase, given, buildPc, test, held, promotePc, todo, notifyPc>>

Single(f) == <<"single", f>>
Set(k)    == <<"set", k>>

StoredSingles    == {Single(f) : f \in {g \in Flavours : singles[g] # Nil}}
StoredSets(kinds) == {Set(k) : k \in {q \in SetKeys : q[1] \in kinds /\ sets[q] # Nil}}

Idling == job = "idle" /\ doomed = {}

-----------------------------------------------------------------------------
(* clean_single_release_manifests, then clean_release_manifest_sets.  The   *)
(* keys are listed first; a pool of threads reads the documents, and another *)
(* deletes those found outdated while the first is still reading.           *)

StartJob ==
    /\ Idling
    /\ CleanWhileRunning \/ InFlight = {}
    /\ job' = "singles"
    /\ cutoff' = clock - MaxAge
    /\ listed' = StoredSingles
    /\ UNCHANGED <<vars, begun, doomed, marked, seen, loose, aborts>>

ReadSingle(f) ==
    /\ job = "singles"
    /\ Single(f) \in listed
    /\ singles[f] # Nil
    /\ listed' = listed \ {Single(f)}
    /\ doomed' = IF singles[f].ts < cutoff THEN doomed \cup {Single(f)} ELSE doomed
    /\ UNCHANGED <<vars, begun, job, cutoff, marked, seen, loose, aborts>>

DeleteSingle(f) ==
    /\ Single(f) \in doomed
    /\ singles' = [singles EXCEPT ![f] = Nil]
    /\ doomed' = doomed \ {Single(f)}
    /\ UNCHANGED <<objects, sets, runState, begun, job, cutoff, listed, marked, seen, loose, aborts>>

\* (mutant) sets of all kinds are purged
TurnToSets_AllKinds ==
    /\ job = "singles" /\ listed = {} /\ doomed = {}
    /\ job' = "sets"
    /\ cutoff' = clock - MaxAge
    /\ listed' = StoredSets(Kind)
    /\ UNCHANGED <<vars, begun, doomed, marked, seen, loose, aborts>>

\* Only the sets under meta/sets/snapshot are purged.
TurnToSets ==
    /\ job = "singles" /\ listed = {} /\ doomed = {}
    /\ job' = "sets"
    /\ cutoff' = clock - MaxAge
    /\ listed' = StoredSets({"snapshot"})
    /\ UNCHANGED <<vars, begun, doomed, marked, seen, loose, aborts>>

\* The first manifest of a set tells its age; they are stored in no particular order.
ReadSet(k) ==
    /\ job = "sets"
    /\ Set(k) \in listed
    /\ sets[k] # Nil
    /\ listed' = listed \ {Set(k)}
    /\ \E first \in Flavours :
          doomed' = IF sets[k].manifests[first].ts > cutoff THEN doomed
                                                            ELSE doomed \cup {Set(k)}
    /\ UNCHANGED <<vars, begun, job, cutoff, marked, seen, loose, aborts>>

DeleteSet(k) ==
    /\ Set(k) \in doomed
    /\ sets' = [sets EXCEPT ![k] = Nil]
    /\ doomed' = doomed \ {Set(k)}
    /\ UNCHANGED <<objects, singles, runState, begun, job, cutoff, listed, marked, seen, loose, aborts>>

-----------------------------------------------------------------------------
(* clean_orphaned_objects.                                                  *)

TurnToMarking ==
    /\ job = "sets" /\ listed = {} /\ doomed = {}
    /\ job' = "mark_sets"
    /\ listed' = StoredSets(Kind)
    /\ UNCHANGED <<vars, begun, cutoff, doomed, marked, seen, loose, aborts>>

PathsOf(f, m) == {ImageObject(f, m.content)}

\* (mutant) the logs of a set are not marked
MarkedBySet_PathsOnly(set) == UNION {PathsOf(f, set.manifests[f]) : f \in Flavours}

\* The paths of the manifests of a set, and its logs, but not those of its manifests.
MarkedBySet(set) == set.logs \cup UNION {PathsOf(f, set.manifests[f]) : f \in Flavours}

MarkSet(k) ==
    /\ job = "mark_sets"
    /\ Set(k) \in listed
    /\ sets[k] # Nil
    /\ marked' = marked \cup MarkedBySet(sets[k])
    /\ listed' = listed \ {Set(k)}
    /\ UNCHANGED <<vars, begun, job, cutoff, doomed, seen, loose, aborts>>

\* (mutant) the single manifests are not looked at
TurnToSingles_Skipped ==
    /\ job = "mark_sets" /\ listed = {}
    /\ job' = "mark_singles"
    /\ UNCHANGED <<vars, begun, listed, cutoff, doomed, marked, seen, loose, aborts>>

TurnToSingles ==
    /\ job = "mark_sets" /\ listed = {}
    /\ job' = "mark_singles"
    /\ listed' = StoredSingles
    /\ UNCHANGED <<vars, begun, cutoff, doomed, marked, seen, loose, aborts>>

\* The log archive of a single manifest is not marked.
MarkSingle(f) ==
    /\ job = "mark_singles"
    /\ Single(f) \in listed
    /\ singles[f] # Nil
    /\ marked' = marked \cup PathsOf(f, singles[f])
    /\ listed' = listed \ {Single(f)}
    /\ UNCHANGED <<vars, begun, job, cutoff, doomed, seen, loose, aborts>>

TurnToSweep ==
    /\ job = "mark_singles" /\ listed = {}
    /\ job' = "sweep"
    /\ UNCHANGED <<vars, begun, cutoff, listed, doomed, marked, seen, loose, aborts>>

\* The keys that one response of list_objects_v2 may hold.
Pages == {page \in SUBSET (objects \ seen) :
             /\ page # {}
             /\ page = objects \ seen \/ Cardinality(page) = PageSize
             /\ Cardinality(page) <= PageSize}

ListPage ==
    /\ job = "sweep" /\ loose = {}
    /\ \E page \in Pages : /\ seen' = seen \cup page
                           /\ loose' = page \ marked
    /\ UNCHANGED <<vars, begun, job, cutoff, listed, doomed, marked, aborts>>

\* (mutant) nothing is deleted, as with --dry-run
DeleteLoose_DryRun ==
    /\ loose # {}
    /\ loose' = {}
    /\ UNCHANGED <<vars, begun, job, cutoff, listed, doomed, marked, seen, aborts>>

DeleteLoose ==
    /\ loose # {}
    /\ objects' = objects \ loose
    /\ loose' = {}
    /\ seen' = seen \ loose
    /\ UNCHANGED <<singles, sets, runState, begun, job, cutoff, listed, doomed, marked, aborts>>

EndJob ==
    /\ job = "sweep" /\ loose = {} /\ objects \subseteq seen
    /\ job' = "idle"
    /\ marked' = {} /\ seen' = {} /\ cutoff' = 0
    /\ UNCHANGED <<vars, begun, listed, doomed, loose, aborts>>

\* An exception, from a request or from a document that is gone when it is read.  What
\* was handed to the pool of threads is still deleted, unless that is what failed.
JobAborts ==
    /\ job # "idle"
    /\ aborts < MaxAborts
    /\ aborts' = aborts + 1
    /\ job' = "idle"
    /\ doomed' \in SUBSET doomed
    /\ listed' = {} /\ marked' = {} /\ seen' = {} /\ loose' = {} /\ cutoff' = 0
    /\ UNCHANGED <<vars, begun>>

Purge ==
    \/ \E f \in Flavours : ReadSingle(f) \/ DeleteSingle(f)
    \/ TurnToSets
    \/ \E k \in SetKeys : ReadSet(k) \/ DeleteSet(k)

MarkAndSweep ==
    \/ TurnToMarking \/ TurnToSingles \/ TurnToSweep
    \/ \E k \in SetKeys : MarkSet(k)
    \/ \E f \in Flavours : MarkSingle(f)
    \/ ListPage \/ DeleteLoose \/ EndJob

JobStep == StartJob \/ Purge \/ MarkAndSweep

-----------------------------------------------------------------------------

\* A run that reaches its timeout is ended before the clock goes on.
InTime == \A r \in InFlight : clock < begun[r] + RunTimeout

\* A step of the pipelines; a run is not started beside the job unless they may overlap.
PipelineStep ==
    /\ \/ InTime /\ Tick
       \/ (CleanWhileRunning \/ Idling) /\ \E r \in Runs : StartRun(r)
       \/ \E r \in Runs : RunStep(r)
    /\ begun' = [r \in Runs |-> IF r \in InFlight' \ InFlight THEN clock
                                ELSE IF r \in InFlight' THEN begun[r] ELSE 0]
    /\ UNCHANGED jobVars

CleaningInit ==
    /\ Init
    /\ begun = [r \in Runs |-> 0]
    /\ job = "idle" /\ cutoff = 0
    /\ listed = {} /\ doomed = {} /\ marked = {} /\ seen = {} /\ loose = {}
    /\ aborts = 0

CleaningNext == PipelineStep \/ JobStep \/ JobAborts

CleaningSpec == CleaningInit /\ [][CleaningNext]_allVars

\* The job is run again and again, and neither it nor a started run stands still.
FairCleaningSpec ==
    CleaningSpec /\ WF_allVars(JobStep)
                 /\ \A r \in Runs : WF_allVars(RunStep(r) /\ PipelineStep)
-----------------------------------------------------------------------------
(* Properties.                                                              *)

JobPhase == {"idle", "singles", "sets", "mark_sets", "mark_singles", "sweep"}
Documents == {Single(f) : f \in Flavours} \cup {Set(k) : k \in SetKeys}

\* The type invariant.
CleaningTypeOK ==
    /\ TypeOK
    /\ begun \in [Runs -> Time]
    /\ job \in JobPhase
    /\ cutoff \in -MaxAge..MaxTime
    /\ listed \subseteq Documents /\ doomed \subseteq Documents
    /\ marked \subseteq ImageObjects \cup LogObjects
    /\ seen \subseteq ImageObjects \cup LogObjects
    /\ loose \subseteq ImageObjects \cup LogObjects
    /\ aborts \in 0..MaxAborts

\* As long as the job has the bucket to itself, no image that a manifest or a manifest
\* set names is swept, whatever was purged before and wherever the job breaks off.
ImagesAreKept ==
    /\ \A f \in Flavours : singles[f] # Nil => PathsOf(f, singles[f]) \subseteq objects
    /\ \A k \in SetKeys, f \in Flavours :
          sets[k] # Nil => PathsOf(f, sets[k].manifests[f]) \subseteq objects

\* ... and no log archive that a manifest set names and the bucket still holds.
SetLogsAreSpared ==
    [][\A k \in SetKeys : sets[k] # Nil /\ sets'[k] = sets[k] =>
          sets[k].logs \cap objects \subseteq objects']_allVars

\* A daily or release set and its images outlive the single manifests they came from.
ReleasesStayDownloadable ==
    [][\A k \in SetKeys : k[1] # "snapshot" /\ sets[k] # Nil =>
          /\ sets'[k] # Nil
          /\ \A f \in Flavours : PathsOf(f, sets'[k].manifests[f]) \subseteq objects']_allVars

\* What clean_orphaned_objects takes for referenced.
Referenced ==
    UNION {MarkedBySet(sets[k]) : k \in {q \in SetKeys : sets[q] # Nil}}
    \cup UNION {PathsOf(f, singles[f]) : f \in {g \in Flavours : singles[g] # Nil}}

\* What failed runs and purged documents leave behind does not stay for ever.
OrphansAreSwept ==
    \A o \in ImageObjects \cup LogObjects : []<>(o \in objects => o \in Referenced)
=============================================================================

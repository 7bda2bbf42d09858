------------------------- MODULE MCReleasePipeline -------------------------
(* Instances of ReleasePipeline for model checking. *)
EXTENDS ReleasePipeline, TLC

Plain   == {"build", "manifest", "component-descriptor"}
Publish == Plain \cup {"publish"}
Release == Publish \cup {"build-baseimage", "tests", "freeze-version", "github-release"}

\* A run of a branch's head, and one that publishes what such a run has built.
TwoTargetSets == {Plain \cup {"tests"}, Publish \cup {"tests"}}

\* One that publishes.
OneTargetSet == {Publish \cup {"tests"}}

\* Every combination of targets that matters to the steps, also those that
\* set_from_str rejects.
AllTargetSets == SUBSET {"build", "manifest", "component-descriptor", "tests", "publish"}
                 \cup {Release}

RunSymmetry == Permutations(Runs)
=============================================================================

---------------------------- MODULE FeatureGraph ----------------------------
(***************************************************************************)
(* The features of the repository: each has a type, a list of features it  *)
(* includes and a set it excludes.  The closure is the yardstick for both  *)
(* programs that compute it, bin/garden-feat.go and ci/glci/model.py; it   *)
(* is given without recursion, so that the proofs can use it.              *)
(***************************************************************************)
EXTENDS Integers, Sequences, FiniteSets

CONSTANTS Feature,  \* names of features, in the order in which names sort
          Known,    \* those that have an info.yaml
          Nil

ASSUME FeatureAssumption ==
    /\ Known \subseteq Feature
    /\ Feature \subseteq Int
    /\ Nil \notin Feature

FeatureType == {"platform", "element", "flag"}

Elements(s) == {s[i] : i \in DOMAIN s}

\* Where a feature that is ignored is not followed.
ClosedSets(include, ignored) ==
    {C \in SUBSET Feature : \A f \in C \ ignored : Elements(include[f]) \subseteq C}

Reachable(include, ignored, S) ==
    {f \in Feature : \A C \in ClosedSets(include, ignored) : S \subseteq C => f \in C}

Closure(include, ignored, S) == Reachable(include, ignored, S) \ ignored

\* What f includes, directly or not, without f itself (unless in a loop).
Included(include, ignored, f) == Reachable(include, ignored, Elements(include[f]))

Acyclic(include) == \A f \in Feature : f \notin Included(include, {}, f)

\* No list names a feature after one that includes it.
Tidy(include) ==
    \A f \in Feature : \A i, j \in DOMAIN include[f] :
        i < j => include[f][j] \notin Included(include, {}, include[f][i])
=============================================================================

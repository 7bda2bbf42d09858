---------------------------- MODULE MCAwsPublish ----------------------------
(* Instances of AwsPublish for model checking. *)
EXTENDS AwsPublish, TLC

Symmetry == Permutations(Attempts) \cup Permutations(Regions \ {Home})
=============================================================================

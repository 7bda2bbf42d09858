--------------------------- MODULE MCBucketCleaning ---------------------------
(* Instances of BucketCleaning for model checking. *)
EXTENDS BucketCleaning, TLC

Plain   == {"build", "manifest", "component-descriptor"}

OneTargetSet == {Plain}
RunSymmetry == Permutations(Runs)
=============================================================================

---------------------------- MODULE MCAzureOffer ----------------------------
(* Instances of AzureOffer for model checking. *)
EXTENDS AzureOffer, TLC

CONSTANTS r1, r2, r3, v1, v2

\* Two commits of one version and one of the next.
ThreeReleases == (r1 :> v1) @@ (r2 :> v1) @@ (r3 :> v2)
=============================================================================

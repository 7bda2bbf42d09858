-------------------------- MODULE MCAlicloudPublish --------------------------
(* Instances of AlicloudPublish for model checking. *)
EXTENDS AlicloudPublish, TLC

CONSTANTS a1, a2, a3, rel1, rel2

\* Two attempts for one release and one for another.
ThreeAttempts == (a1 :> rel1) @@ (a2 :> rel1) @@ (a3 :> rel2)
=============================================================================

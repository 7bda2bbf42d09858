-------------------------- MODULE MCTriggerAndWait --------------------------
(***************************************************************************)
(* TriggerAndWait for two jobs of one commit: the first waits for both     *)
(* pipelines, the second triggers the images and goes, or cannot render    *)
(* what it is asked for.                                                   *)
(***************************************************************************)
EXTENDS TriggerAndWait, TLC

CONSTANTS j1, j2, c1, bm

Asked(ps, wait, sound) ==
    [commit |-> c1, targets |-> bm, sound |-> sound, quiet |-> wait,
     pipelines |-> ps, wait |-> wait]

MCRequests ==
    j1 :> {Asked({"image", "package"}, TRUE, TRUE)} @@
    j2 :> {Asked({"image"}, FALSE, sound) : sound \in BOOLEAN}
=============================================================================

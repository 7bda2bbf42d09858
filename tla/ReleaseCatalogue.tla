-------------------------- MODULE ReleaseCatalogue --------------------------
(***************************************************************************)
(* What the bucket promises to those who use it, without tasks, requests   *)
(* or copies: a flavour of the release is built once; facts about it       *)
(* (images were published, tests passed, logs were kept) are only ever     *)
(* added, one at a time; a release is promoted only when every flavour of  *)
(* it is built, and a promoted set claims nothing of a flavour that the    *)
(* flavour's own entry does not.                                           *)
(***************************************************************************)
CONSTANTS Flavours,  \* the flavours of the release
          SetKeys,   \* the names under which it may be promoted
          Absent     \* stands for a name nothing was promoted under

Facts == {"built", "published", "tested", "logged"}

VARIABLES entry,     \* what is known of each flavour
          promoted   \* what each promoted set says of each flavour

vars == <<entry, promoted>>

Init ==
    /\ entry = [f \in Flavours |-> {}]
    /\ promoted = [k \in SetKeys |-> Absent]

\* A build may publish what it makes.
Build(f) ==
    /\ entry[f] = {}
    /\ \E facts \in {{"built"}, {"built", "published"}} :
          entry' = [entry EXCEPT ![f] = facts]
    /\ UNCHANGED promoted

Learn(f, fact) ==
    /\ "built" \in entry[f]
    /\ entry' = [entry EXCEPT ![f] = @ \cup {fact}]
    /\ UNCHANGED promoted

Promote(k) ==
    /\ \A f \in Flavours : "built" \in entry[f]
    /\ \E claim \in [Flavours -> SUBSET Facts] :
          /\ \A f \in Flavours : "built" \in claim[f] /\ claim[f] \subseteq entry[f]
          /\ promoted' = [promoted EXCEPT ![k] = claim]
    /\ UNCHANGED entry

Next ==
    \/ \E f \in Flavours : Build(f) \/ \E fact \in Facts : Learn(f, fact)
    \/ \E k \in SetKeys : Promote(k)

Spec == Init /\ [][Next]_vars
=============================================================================

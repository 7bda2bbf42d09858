----------------------------- MODULE AzureOffer -----------------------------
(***************************************************************************)
(* Publishing to the Azure Marketplace (ci/glci/az.py).  A publication     *)
(* adds the version of a release to the one offer all releases share and   *)
(* asks for its transport to staging; check_offer_transport_state, called  *)
(* again and again, follows the transport, asks for the one to production  *)
(* and notes the progress in the release manifest.                         *)
(***************************************************************************)
EXTENDS Naturals, Sequences, FiniteSets

CONSTANTS Releases,   \* release manifests of platform azure
          Versions,   \* their versions
          VersionOf,  \* the version of each
          Overlap,    \* may publications overlap?
          MaxOps,     \* bound on the operations the marketplace is asked for
          Nil

ASSUME AzureAssumption ==
    /\ VersionOf \in [Releases -> Versions]
    /\ Overlap \in BOOLEAN
    /\ MaxOps \in Nat
    /\ Nil \notin Nat

VARIABLES
    offer,      \* the versions in the plan of the offer, as last uploaded
    staged,     \* the versions in the staging slot
    live,       \* the versions in the production slot
    operations, \* the transport operations, by id
    metadata,   \* published_image_metadata of each release
    pc,         \* of the publication of a release: the step it is at
    spec,       \* the offer spec a publication has fetched and modified
    check       \* of check_offer_transport_state for a release: the step it is at

market == <<offer, staged, live, operations>>
vars   == <<market, metadata, pc, spec, check>>

Ids == 1..MaxOps

Slot == {"staging", "production"}
Transported    == {"completed", "succeeded"}
OperationState == {"notStarted", "running", "failed"} \cup Transported
Operation == [slot : Slot, state : OperationState, versions : SUBSET Versions]

Published == [state : {"publishing", "going_live", "released", "failed"},
              publish : Ids, golive : Ids \cup {Nil}]
Provisional == [state |-> "provisional", publish |-> Nil, golive |-> Nil]
Metadata == {Provisional} \cup Published

ASSUME NoMetadataIsNil == Nil \notin Metadata

-----------------------------------------------------------------------------
(* The marketplace: one operation at a time in each slot.                   *)

Pending(i) == operations[i].state \in {"notStarted", "running"}

Busy(slot) == \E i \in DOMAIN operations : operations[i].slot = slot /\ Pending(i)

Accept(slot, versions) ==
    /\ ~Busy(slot)
    /\ Len(operations) < MaxOps
    /\ operations' = Append(operations, [slot |-> slot, state |-> "notStarted",
                                         versions |-> versions])

StartOperation(i) ==
    /\ operations[i].state = "notStarted"
    /\ operations' = [operations EXCEPT ![i].state = "running"]
    /\ UNCHANGED <<offer, staged, live, metadata, pc, spec, check>>

\* A transport that is completed or succeeds replaces what was in its slot.
EndOperation(i) ==
    /\ operations[i].state = "running"
    /\ \E s \in Transported \cup {"failed"} :
          /\ operations' = [operations EXCEPT ![i].state = s]
          /\ staged' = IF s \in Transported /\ operations[i].slot = "staging"
                       THEN operations[i].versions ELSE staged
          /\ live' = IF s \in Transported /\ operations[i].slot = "production"
                     THEN operations[i].versions ELSE live
    /\ UNCHANGED <<offer, metadata, pc, spec, check>>

\* (mutant) the slot of an operation is not looked at
Ongoing_AnySlot(slot) == {i \in DOMAIN operations : operations[i].state = "running"}

\* fetch_ongoing_operation_id takes the first of these in an order of the marketplace's.
Ongoing(slot) == {i \in DOMAIN operations : /\ operations[i].slot = slot
                                            /\ operations[i].state = "running"}

-----------------------------------------------------------------------------
(* upload_and_publish_image, called by promote_single_step.                 *)

Go(r, step) == pc' = [pc EXCEPT ![r] = step]

\* (mutant) the images of the plan are set, not added to
AddImageVersion_Fresh(versions, v) == {v}

AddImageVersion(versions, v) == versions \cup {v}

\* The image was copied to the storage account, the offer is fetched.
FetchOffer(r) ==
    /\ pc[r] = "idle"
    /\ metadata[r] = Nil
    /\ Overlap \/ \A q \in Releases : pc[q] \in {"idle", "done"}
    /\ spec' = [spec EXCEPT ![r] = AddImageVersion(offer, VersionOf[r])]
    /\ Go(r, "update_offer")
    /\ UNCHANGED <<market, metadata, check>>

\* If-Match is *: whatever the offer is by now, it is replaced.
UpdateOffer(r) ==
    /\ pc[r] = "update_offer"
    /\ offer' = spec[r]
    /\ spec' = [spec EXCEPT ![r] = Nil]
    /\ Go(r, "publish_offer")
    /\ UNCHANGED <<staged, live, operations, metadata, check>>

PublishOffer(r) ==
    /\ pc[r] = "publish_offer"
    /\ Accept("staging", offer)
    /\ Go(r, "fetch_operation")
    /\ UNCHANGED <<offer, staged, live, metadata, spec, check>>

FetchPublishOperation(r) ==
    /\ pc[r] = "fetch_operation"
    /\ \E i \in Ongoing("staging") :
          metadata' = [metadata EXCEPT ![r] = [state |-> "publishing", publish |-> i,
                                               golive |-> Nil]]
    /\ Go(r, "done")
    /\ UNCHANGED <<market, spec, check>>

\* A request is refused or finds no operation under way: the provisional metadata are
\* kept, and with them nobody publishes the release again.
PublicationFails(r) ==
    /\ pc[r] \notin {"idle", "done"}
    /\ metadata' = [metadata EXCEPT ![r] = Provisional]
    /\ spec' = [spec EXCEPT ![r] = Nil]
    /\ Go(r, "done")
    /\ UNCHANGED <<market, check>>

\* The pod is lost: the manifest is not written, a later run publishes again.
PublicationLost(r) ==
    /\ pc[r] \notin {"idle", "done"}
    /\ spec' = [spec EXCEPT ![r] = Nil]
    /\ Go(r, "idle")
    /\ UNCHANGED <<market, metadata, check>>

Publication(r) ==
    \/ FetchOffer(r) \/ UpdateOffer(r) \/ PublishOffer(r) \/ FetchPublishOperation(r)
    \/ PublicationFails(r) \/ PublicationLost(r)

-----------------------------------------------------------------------------
(* check_offer_transport_state; whoever calls it keeps the manifest it returns. *)

GoCheck(r, step) == check' = [check EXCEPT ![r] = step]

\* (mutant) the record is made anew without the operations
Note_Bare(r, state) ==
    metadata' = [metadata EXCEPT ![r] = [state |-> state, publish |-> Nil, golive |-> Nil]]

Note(r, state) == metadata' = [metadata EXCEPT ![r].state = state]

StatusOf(r) == operations[metadata[r].publish].state

\* (mutant) the state of the release is not looked at
GoLiveIsDue_Unchecked(r) == StatusOf(r) = "succeeded"

GoLiveIsDue(r) == metadata[r].state = "publishing" /\ StatusOf(r) = "succeeded"

\* It is the publish operation that is polled, also when the release is going live.
IsReleased(r) == metadata[r].state = "going_live" /\ StatusOf(r) = "succeeded"

\* The status is fetched.  Only succeeded and failed are acted upon: a publish operation that
\* is completed is waited for as one that is running.  With provisional metadata there is no
\* operation to ask for.
CheckTransport(r) ==
    /\ check[r] = "idle"
    /\ metadata[r] \in Published
    /\ metadata[r].state # "released"
    /\ \/ /\ StatusOf(r) = "failed"
          /\ Note(r, "failed")
          /\ UNCHANGED check
       \/ /\ GoLiveIsDue(r)
          /\ GoCheck(r, "go_live")
          /\ UNCHANGED metadata
       \/ /\ IsReleased(r)
          /\ Note(r, "released")
          /\ UNCHANGED check
    /\ UNCHANGED <<market, pc, spec>>

\* What is in staging goes to production.
GoLive(r) ==
    /\ check[r] = "go_live"
    /\ Accept("production", staged)
    /\ GoCheck(r, "fetch_operation")
    /\ UNCHANGED <<offer, staged, live, metadata, pc, spec>>

FetchGoLiveOperation(r) ==
    /\ check[r] = "fetch_operation"
    /\ \E i \in Ongoing("production") :
          metadata' = [metadata EXCEPT ![r] = [@ EXCEPT !.state = "going_live", !.golive = i]]
    /\ GoCheck(r, "idle")
    /\ UNCHANGED <<market, pc, spec>>

\* A request fails: the manifest stays as it is, the next check begins anew.
CheckFails(r) ==
    /\ check[r] # "idle"
    /\ GoCheck(r, "idle")
    /\ UNCHANGED <<market, metadata, pc, spec>>

Check(r) == CheckTransport(r) \/ GoLive(r) \/ FetchGoLiveOperation(r) \/ CheckFails(r)

-----------------------------------------------------------------------------

Init ==
    /\ offer = {} /\ staged = {} /\ live = {}
    /\ operations = <<>>
    /\ metadata = [r \in Releases |-> Nil]
    /\ pc = [r \in Releases |-> "idle"]
    /\ spec = [r \in Releases |-> Nil]
    /\ check = [r \in Releases |-> "idle"]

Transport == \E i \in DOMAIN operations : StartOperation(i) \/ EndOperation(i)

Next == Transport \/ \E r \in Releases : Publication(r) \/ Check(r)

Spec == Init /\ [][Next]_vars

-----------------------------------------------------------------------------
(* Properties.                                                              *)

\* The type invariant.
TypeOK ==
    /\ offer \subseteq Versions /\ staged \subseteq Versions /\ live \subseteq Versions
    /\ operations \in Seq(Operation) /\ Len(operations) <= MaxOps
    /\ metadata \in [Releases -> Metadata \cup {Nil}]
    /\ pc \in [Releases -> {"idle", "update_offer", "publish_offer", "fetch_operation", "done"}]
    /\ spec \in [Releases -> (SUBSET Versions) \cup {Nil}]
    /\ check \in [Releases -> {"idle", "go_live", "fetch_operation"}]

Carries(i, slot, r) ==
    /\ i \in DOMAIN operations
    /\ operations[i].slot = slot
    /\ VersionOf[r] \in operations[i].versions

\* The operations a manifest names transport its version, each to the slot it stands for,
\* although they are found by looking for one that is under way.
RecordedOperationsCarryTheVersion ==
    \A r \in Releases : metadata[r] \in Published =>
        /\ Carries(metadata[r].publish, "staging", r)
        /\ metadata[r].golive # Nil => Carries(metadata[r].golive, "production", r)

\* Every publication puts back the whole offer: none takes from the customers a version
\* that was transported to production before.
LiveVersionsStayLive == [][live \subseteq live']_vars

Rank == [publishing |-> 1, going_live |-> 2, released |-> 3, failed |-> 3]

\* A release only advances, and the operations it names are not exchanged for others,
\* however often and wherever the check is interrupted.
ReleasesAdvance ==
    [][\A r \in Releases : metadata[r] \in Published =>
          /\ metadata'[r] \in Published
          /\ Rank[metadata[r].state] <= Rank[metadata'[r].state]
          /\ metadata'[r].publish = metadata[r].publish
          /\ metadata[r].golive # Nil => metadata'[r].golive = metadata[r].golive]_vars

\* az.py, module docstring: "After that it will check for the progress of the go live
\* operation and if this also has been completed it will return the urn of the image."
ReleasedIsLive ==
    \A r \in Releases : metadata[r] \in Published /\ metadata[r].state = "released" =>
        operations[metadata[r].golive].state \in Transported
=============================================================================

-------------------------- MODULE AzureOfferProofs --------------------------
(***************************************************************************)
(* Proofs about AzureOffer, for any number of releases, versions and       *)
(* operations, when publications take turns.                               *)
(*                                                                         *)
(* The versions of what lies in the offer, in the staging slot and in the  *)
(* production slot form a chain, and every operation that has not ended    *)
(* carries at least what its slot holds (Chain); what a publication and a  *)
(* check have to find is what any operation they may find carries          *)
(* (Publishing, Recording).                                                *)
(***************************************************************************)
EXTENDS AzureOffer, SequenceTheorems, TLAPS

UnderWay(r) == pc[r] \notin {"idle", "done"}

Chain ==
    /\ staged \subseteq offer /\ live \subseteq staged
    /\ \A i, j \in DOMAIN operations :
          Pending(i) /\ Pending(j) /\ operations[i].slot = operations[j].slot => i = j
    /\ \A i \in DOMAIN operations : operations[i].slot = "staging" =>
          /\ operations[i].versions \subseteq offer
          /\ Pending(i) => staged \subseteq operations[i].versions
          /\ operations[i].state = "succeeded" => operations[i].versions \subseteq staged
    /\ \A i \in DOMAIN operations : operations[i].slot = "production" =>
          /\ operations[i].versions \subseteq staged
          /\ Pending(i) => live \subseteq operations[i].versions

\* Whatever operation under way in the slot is found, it carries the version of r.
AnyCarries(slot, r) ==
    \A i \in DOMAIN operations :
        operations[i].slot = slot /\ Pending(i) => VersionOf[r] \in operations[i].versions

Publishing ==
    /\ \A q, r \in Releases : UnderWay(q) /\ UnderWay(r) => q = r
    /\ \A r \in Releases :
          /\ pc[r] = "update_offer" => offer \subseteq spec[r] /\ VersionOf[r] \in spec[r]
                                       /\ spec[r] \subseteq Versions
          /\ pc[r] \in {"publish_offer", "fetch_operation"} => VersionOf[r] \in offer
          /\ pc[r] = "fetch_operation" => AnyCarries("staging", r)

Recording ==
    \A r \in Releases :
        /\ metadata[r] # Nil => pc[r] = "done"
        /\ metadata[r] \in Published =>
              /\ Carries(metadata[r].publish, "staging", r)
              /\ metadata[r].golive # Nil => Carries(metadata[r].golive, "production", r)
              /\ metadata[r].state = "publishing" => metadata[r].golive = Nil
        /\ check[r] # "idle" => /\ metadata[r] \in Published
                                /\ metadata[r].state = "publishing"
                                /\ StatusOf(r) = "succeeded"
        /\ check[r] = "fetch_operation" => AnyCarries("production", r)

OfferInv == TypeOK /\ Chain /\ Publishing /\ Recording

-----------------------------------------------------------------------------
(* Operations.                                                              *)

LEMMA Appended ==
    ASSUME TypeOK, NEW slot \in Slot, NEW versions \in SUBSET Versions, Accept(slot, versions)
    PROVE  /\ operations' \in Seq(Operation) /\ Len(operations') <= MaxOps
           /\ DOMAIN operations \subseteq DOMAIN operations'
           /\ \A i \in DOMAIN operations : operations'[i] = operations[i]
           /\ \A i \in DOMAIN operations' : i \notin DOMAIN operations =>
                 operations'[i] = [slot |-> slot, state |-> "notStarted", versions |-> versions]
           /\ \A i, j \in DOMAIN operations' \ DOMAIN operations : i = j
<1> DEFINE op == [slot |-> slot, state |-> "notStarted", versions |-> versions]
<1>1. op \in Operation
  BY DEF Operation, OperationState
<1>2. operations \in Seq(Operation) /\ Len(operations) \in Nat /\ MaxOps \in Nat
  BY AzureAssumption, LenProperties DEF TypeOK
<1>3. operations' = Append(operations, op) /\ Len(operations) < MaxOps
  BY DEF Accept
<1> HIDE DEF op
<1>4. /\ operations' \in Seq(Operation) /\ Len(operations') = Len(operations) + 1
      /\ \A i \in 1..Len(operations) : operations'[i] = operations[i]
      /\ operations'[Len(operations) + 1] = op
  BY <1>1, <1>2, <1>3, AppendProperties
<1>5. DOMAIN operations = 1..Len(operations) /\ DOMAIN operations' = 1..Len(operations')
  BY <1>2, <1>4, LenProperties
<1> QED
  BY <1>2, <1>3, <1>4, <1>5 DEF op

\* A step of an operation changes its state only.
OperationMoves(i, s) ==
    /\ operations' \in Seq(Operation) /\ Len(operations') = Len(operations)
    /\ DOMAIN operations' = DOMAIN operations
    /\ \A j \in DOMAIN operations : /\ operations'[j].slot = operations[j].slot
                                    /\ operations'[j].versions = operations[j].versions
                                    /\ j # i => operations'[j].state = operations[j].state
    /\ operations'[i].state = s

LEMMA Updated ==
    ASSUME TypeOK, NEW i \in DOMAIN operations, NEW s \in OperationState,
           operations' = [operations EXCEPT ![i].state = s]
    PROVE  OperationMoves(i, s)
<1>1. operations \in Seq(Operation)
  BY DEF TypeOK
<1>2. DOMAIN operations = 1..Len(operations) /\ \A j \in DOMAIN operations : operations[j] \in Operation
  BY <1>1, LenProperties, ElementOfSeq
<1> DEFINE op == [operations[i] EXCEPT !.state = s]
<1>3. /\ op \in Operation /\ op.state = s /\ op.slot = operations[i].slot
      /\ op.versions = operations[i].versions
  BY <1>2 DEF Operation
<1>4. operations' = [operations EXCEPT ![i] = op]
  OBVIOUS
<1> HIDE DEF op
<1>5. /\ operations' \in Seq(Operation) /\ Len(operations') = Len(operations)
      /\ \A j \in 1..Len(operations) : operations'[j] = IF j = i THEN op ELSE operations[j]
  BY <1>1, <1>2, <1>3, <1>4, ExceptSeq
<1>6. DOMAIN operations' = 1..Len(operations')
  BY <1>5, LenProperties
<1> QED
  BY <1>2, <1>3, <1>5, <1>6 DEF OperationMoves

LEMMA OperationFacts ==
    ASSUME TypeOK
    PROVE  /\ \A i \in DOMAIN operations : operations[i] \in Operation
           /\ DOMAIN operations \subseteq Ids
BY LenProperties, ElementOfSeq, AzureAssumption DEF TypeOK, Ids

-----------------------------------------------------------------------------
(* The marketplace.                                                         *)

\* An operation that is under way goes on or ends: what any operation carries stays,
\* and none becomes pending.
LEMMA MovesKeepRecords ==
    ASSUME OfferInv, NEW i \in DOMAIN operations, NEW s \in OperationState \ {"notStarted"},
           Pending(i), OperationMoves(i, s), UNCHANGED <<offer, metadata, pc, spec, check>>
    PROVE  Publishing' /\ Recording'
<1>1. \A j \in DOMAIN operations : Pending(j)' => Pending(j)
  BY DEF OperationMoves, Pending
<1>2. \A slot, r : AnyCarries(slot, r) => AnyCarries(slot, r)'
  BY <1>1 DEF AnyCarries, OperationMoves
<1>3. \A j, slot, r : Carries(j, slot, r) => Carries(j, slot, r)'
  BY DEF Carries, OperationMoves
<1>4. Publishing'
  BY <1>2 DEF OfferInv, Publishing, UnderWay
<1>5. ASSUME NEW r \in Releases, check[r] # "idle"
      PROVE  StatusOf(r)' = "succeeded"
  <2>1. metadata[r].publish \in DOMAIN operations /\ operations[metadata[r].publish].state = "succeeded"
    BY <1>5 DEF OfferInv, Recording, StatusOf, Carries
  <2>2. metadata[r].publish # i
    BY <2>1 DEF Pending
  <2> QED
    BY <2>1, <2>2 DEF StatusOf, OperationMoves
<1> QED
  BY <1>2, <1>3, <1>4, <1>5 DEF OfferInv, Recording

LEMMA StartOperationKeeps ==
    ASSUME OfferInv, NEW i \in DOMAIN operations, StartOperation(i)
    PROVE  OfferInv'
<1>1. OperationMoves(i, "running") /\ Pending(i)
  BY Updated DEF OfferInv, StartOperation, OperationState, Pending
<1>2. Publishing' /\ Recording'
  BY <1>1, MovesKeepRecords DEF StartOperation, OperationState
<1>3. TypeOK'
  BY <1>1 DEF OfferInv, TypeOK, StartOperation, OperationMoves
<1>4. \A j \in DOMAIN operations :
         /\ Pending(j)' => Pending(j)
         /\ operations'[j].state = "succeeded" => operations[j].state = "succeeded"
  BY <1>1 DEF OperationMoves, Pending
<1>5. Chain'
  BY <1>1, <1>4 DEF OfferInv, Chain, StartOperation, OperationMoves
<1> QED
  BY <1>2, <1>3, <1>5 DEF OfferInv

\* The slot of an operation that succeeds gets all it had and more.
LEMMA SlotsGrow ==
    ASSUME OfferInv, NEW i \in DOMAIN operations, EndOperation(i)
    PROVE  /\ staged \subseteq staged' /\ live \subseteq live'
           /\ staged' \subseteq offer /\ live' \subseteq staged
           /\ staged' # staged => operations[i].slot = "staging" /\ staged' = operations[i].versions
           /\ live' # live => operations[i].slot = "production" /\ live' = operations[i].versions
<1>1. Pending(i)
  BY DEF EndOperation, Pending
<1> QED
  BY <1>1 DEF OfferInv, Chain, EndOperation, Slot

LEMMA EndOperationKeeps ==
    ASSUME OfferInv, NEW i \in DOMAIN operations, EndOperation(i)
    PROVE  OfferInv'
<1>1. PICK s \in Transported \cup {"failed"} :
         /\ operations' = [operations EXCEPT ![i].state = s]
         /\ staged' = IF s \in Transported /\ operations[i].slot = "staging"
                      THEN operations[i].versions ELSE staged
         /\ live' = IF s \in Transported /\ operations[i].slot = "production"
                    THEN operations[i].versions ELSE live
  BY DEF EndOperation
<1>2. OperationMoves(i, s) /\ Pending(i)
  BY <1>1, Updated DEF OfferInv, EndOperation, OperationState, Pending
<1>3. Publishing' /\ Recording'
  BY <1>2, MovesKeepRecords DEF EndOperation, OperationState, Transported
<1>4. operations[i].versions \subseteq Versions
  BY OperationFacts DEF OfferInv, Operation
<1>5. TypeOK'
  BY <1>1, <1>2, <1>4 DEF OfferInv, TypeOK, EndOperation, OperationMoves
<1>6. \A j \in DOMAIN operations :
         /\ Pending(j)' => Pending(j) /\ j # i
         /\ j # i /\ operations'[j].state = "succeeded" => operations[j].state = "succeeded"
  BY <1>2 DEF OperationMoves, Pending, Transported
<1>7. staged' \subseteq offer' /\ live' \subseteq staged'
  BY SlotsGrow DEF EndOperation
<1>8. \A j, k \in DOMAIN operations' :
         Pending(j)' /\ Pending(k)' /\ operations'[j].slot = operations'[k].slot => j = k
  BY <1>2, <1>6 DEF OfferInv, Chain, OperationMoves
<1>9. ASSUME NEW j \in DOMAIN operations, operations[j].slot = "staging"
      PROVE  /\ operations[j].versions \subseteq offer'
             /\ Pending(j)' => staged' \subseteq operations[j].versions
             /\ operations'[j].state = "succeeded" => operations[j].versions \subseteq staged'
  <2>1. operations[j].versions \subseteq offer'
    BY <1>9 DEF OfferInv, Chain, EndOperation
  <2>2. ASSUME Pending(j)'
        PROVE  staged' \subseteq operations[j].versions
    <3>1. Pending(j) /\ j # i
      BY <1>6, <2>2
    <3>2. operations[i].slot # "staging"
      BY <1>2, <1>9, <3>1 DEF OfferInv, Chain
    <3> QED
      BY <1>9, <3>1, <3>2, SlotsGrow DEF OfferInv, Chain
  <2>3. ASSUME operations'[j].state = "succeeded"
        PROVE  operations[j].versions \subseteq staged'
    <3>1. CASE j = i
      BY <1>1, <1>2, <1>9, <2>3, <3>1 DEF OperationMoves
    <3>2. CASE j # i
      BY <1>6, <1>9, <2>3, <3>2, SlotsGrow DEF OfferInv, Chain
    <3> QED
      BY <3>1, <3>2
  <2> QED
    BY <2>1, <2>2, <2>3
<1>10. ASSUME NEW j \in DOMAIN operations, operations[j].slot = "production"
       PROVE  /\ operations[j].versions \subseteq staged'
              /\ Pending(j)' => live' \subseteq operations[j].versions
  <2>1. operations[j].versions \subseteq staged'
    BY <1>10, SlotsGrow DEF OfferInv, Chain
  <2>2. ASSUME Pending(j)'
        PROVE  live' \subseteq operations[j].versions
    <3>1. Pending(j) /\ j # i
      BY <1>6, <2>2
    <3>2. operations[i].slot # "production"
      BY <1>2, <1>10, <3>1 DEF OfferInv, Chain
    <3> QED
      BY <1>10, <3>1, <3>2, SlotsGrow DEF OfferInv, Chain
  <2> QED
    BY <2>1, <2>2
<1>11. Chain'
  BY <1>2, <1>7, <1>8, <1>9, <1>10 DEF Chain, OperationMoves
<1> QED
  BY <1>3, <1>5, <1>11 DEF OfferInv

\* An accepted operation is the only one of its slot that is pending.
LEMMA AcceptKeeps ==
    ASSUME OfferInv, NEW slot \in Slot, NEW versions \in SUBSET Versions,
           Accept(slot, versions), UNCHANGED <<offer, staged, live>>,
           slot = "staging" => versions = offer,
           slot = "production" => versions = staged
    PROVE  /\ Chain'
           /\ operations' \in Seq(Operation) /\ Len(operations') <= MaxOps
           /\ DOMAIN operations \subseteq DOMAIN operations'
           /\ \A i \in DOMAIN operations : operations'[i] = operations[i]
           /\ \A i \in DOMAIN operations' : Pending(i)' /\ operations'[i].slot = slot =>
                 operations'[i].versions = versions
           /\ \A i \in DOMAIN operations' : Pending(i)' /\ operations'[i].slot # slot =>
                 i \in DOMAIN operations /\ Pending(i)
<1> DEFINE op == [slot |-> slot, state |-> "notStarted", versions |-> versions]
<1>1. /\ operations' \in Seq(Operation) /\ Len(operations') <= MaxOps
      /\ DOMAIN operations \subseteq DOMAIN operations'
      /\ \A i \in DOMAIN operations : operations'[i] = operations[i]
      /\ \A i \in DOMAIN operations' : i \notin DOMAIN operations => operations'[i] = op
      /\ \A i, j \in DOMAIN operations' \ DOMAIN operations : i = j
  BY Appended DEF OfferInv
<1>2. op.slot = slot /\ op.state = "notStarted" /\ op.versions = versions
  OBVIOUS
<1> HIDE DEF op
<1>3. \A i \in DOMAIN operations : Pending(i) => operations[i].slot # slot
  BY DEF Accept, Busy
<1>4. \A i \in DOMAIN operations : Pending(i)' = Pending(i)
  BY <1>1 DEF Pending
<1>5. \A i, j \in DOMAIN operations' :
         Pending(i)' /\ Pending(j)' /\ operations'[i].slot = operations'[j].slot => i = j
  BY <1>1, <1>2, <1>3, <1>4 DEF OfferInv, Chain
<1>6. ASSUME NEW i \in DOMAIN operations', operations'[i].slot = "staging"
      PROVE  /\ operations'[i].versions \subseteq offer'
             /\ Pending(i)' => staged' \subseteq operations'[i].versions
             /\ operations'[i].state = "succeeded" => operations'[i].versions \subseteq staged'
  <2>1. CASE i \in DOMAIN operations
    BY <1>1, <1>4, <1>6, <2>1 DEF OfferInv, Chain
  <2>2. CASE i \notin DOMAIN operations
    BY <1>1, <1>2, <1>6, <2>2 DEF OfferInv, Chain
  <2> QED
    BY <2>1, <2>2
<1>7. ASSUME NEW i \in DOMAIN operations', operations'[i].slot = "production"
      PROVE  /\ operations'[i].versions \subseteq staged'
             /\ Pending(i)' => live' \subseteq operations'[i].versions
  <2>1. CASE i \in DOMAIN operations
    BY <1>1, <1>4, <1>7, <2>1 DEF OfferInv, Chain
  <2>2. CASE i \notin DOMAIN operations
    BY <1>1, <1>2, <1>7, <2>2 DEF OfferInv, Chain
  <2> QED
    BY <2>1, <2>2
<1>8. Chain'
  BY <1>5, <1>6, <1>7 DEF OfferInv, Chain
<1>9. \A i \in DOMAIN operations' : Pending(i)' /\ operations'[i].slot = slot =>
         operations'[i].versions = versions
  BY <1>1, <1>2, <1>3, <1>4
<1>10. \A i \in DOMAIN operations' : Pending(i)' /\ operations'[i].slot # slot =>
         i \in DOMAIN operations /\ Pending(i)
  BY <1>1, <1>2, <1>4
<1> QED
  BY <1>1, <1>8, <1>9, <1>10

-----------------------------------------------------------------------------
(* The publication of a release.                                            *)

LEMMA FetchOfferKeeps ==
    ASSUME OfferInv, ~Overlap, NEW r \in Releases, FetchOffer(r)
    PROVE  OfferInv'
<1> USE DEF market
<1>1. /\ pc' = [pc EXCEPT ![r] = "update_offer"]
      /\ spec' = [spec EXCEPT ![r] = offer \cup {VersionOf[r]}]
  BY DEF FetchOffer, Go, AddImageVersion
<1>2. VersionOf[r] \in Versions
  BY AzureAssumption
<1>3. TypeOK'
  BY <1>1, <1>2 DEF OfferInv, TypeOK, FetchOffer
<1>4. pc \in [Releases -> {"idle", "update_offer", "publish_offer", "fetch_operation", "done"}]
      /\ spec \in [Releases -> (SUBSET Versions) \cup {Nil}] /\ offer \subseteq Versions
  BY DEF OfferInv, TypeOK
<1>5. \A q \in Releases \ {r} : ~UnderWay(q) /\ ~UnderWay(q)'
  BY <1>1, <1>4 DEF FetchOffer, UnderWay
<1>6. Publishing'
  BY <1>1, <1>2, <1>4, <1>5 DEF FetchOffer, Publishing, UnderWay
<1>7. Recording'
  BY <1>1, <1>4 DEF OfferInv, Recording, FetchOffer, Carries, AnyCarries, StatusOf, Pending
<1>8. Chain'
  BY DEF OfferInv, Chain, FetchOffer, Pending
<1> QED
  BY <1>3, <1>6, <1>7, <1>8 DEF OfferInv

LEMMA UpdateOfferKeeps ==
    ASSUME OfferInv, NEW r \in Releases, UpdateOffer(r)
    PROVE  OfferInv'
<1>1. /\ pc[r] = "update_offer" /\ pc' = [pc EXCEPT ![r] = "publish_offer"]
      /\ spec' = [spec EXCEPT ![r] = Nil] /\ offer' = spec[r]
      /\ UNCHANGED <<staged, live, operations, metadata, check>>
  BY DEF UpdateOffer, Go
<1>2. offer \subseteq spec[r] /\ VersionOf[r] \in spec[r] /\ spec[r] \subseteq Versions
  BY <1>1 DEF OfferInv, Publishing
<1>3. TypeOK'
  BY <1>1, <1>2 DEF OfferInv, TypeOK
<1>4. pc \in [Releases -> {"idle", "update_offer", "publish_offer", "fetch_operation", "done"}]
  BY DEF OfferInv, TypeOK
<1>5. \A q \in Releases \ {r} : ~UnderWay(q) /\ ~UnderWay(q)'
  BY <1>1, <1>4 DEF OfferInv, Publishing, UnderWay
<1>6. Publishing'
  BY <1>1, <1>2, <1>4, <1>5 DEF Publishing, UnderWay
<1>7. Recording'
  BY <1>1, <1>4 DEF OfferInv, Recording, Carries, AnyCarries, StatusOf, Pending
<1>8. Chain'
  BY <1>1, <1>2 DEF OfferInv, Chain, Pending
<1> QED
  BY <1>3, <1>6, <1>7, <1>8 DEF OfferInv

LEMMA PublishOfferKeeps ==
    ASSUME OfferInv, NEW r \in Releases, PublishOffer(r)
    PROVE  OfferInv'
<1>1. /\ pc[r] = "publish_offer" /\ pc' = [pc EXCEPT ![r] = "fetch_operation"]
      /\ Accept("staging", offer) /\ UNCHANGED <<offer, staged, live, metadata, spec, check>>
  BY DEF PublishOffer, Go
<1>2. offer \in SUBSET Versions /\ "staging" \in Slot
  BY DEF OfferInv, TypeOK, Slot
<1>3. /\ Chain'
      /\ operations' \in Seq(Operation) /\ Len(operations') <= MaxOps
      /\ DOMAIN operations \subseteq DOMAIN operations'
      /\ \A i \in DOMAIN operations : operations'[i] = operations[i]
      /\ \A i \in DOMAIN operations' : Pending(i)' /\ operations'[i].slot = "staging" =>
            operations'[i].versions = offer
      /\ \A i \in DOMAIN operations' : Pending(i)' /\ operations'[i].slot # "staging" =>
            i \in DOMAIN operations /\ Pending(i)
  BY <1>1, <1>2, AcceptKeeps
<1>4. TypeOK'
  BY <1>1, <1>3 DEF OfferInv, TypeOK
<1>5. pc \in [Releases -> {"idle", "update_offer", "publish_offer", "fetch_operation", "done"}]
  BY DEF OfferInv, TypeOK
<1>6. \A q \in Releases \ {r} : ~UnderWay(q) /\ ~UnderWay(q)'
  BY <1>1, <1>5 DEF OfferInv, Publishing, UnderWay
<1>7. VersionOf[r] \in offer
  BY <1>1 DEF OfferInv, Publishing
<1>8. Publishing'
  BY <1>1, <1>3, <1>5, <1>6, <1>7 DEF Publishing, UnderWay, AnyCarries
<1>9. \A q \in Releases : AnyCarries("production", q) => AnyCarries("production", q)'
  BY <1>3 DEF AnyCarries
<1>10. \A i, slot, q : Carries(i, slot, q) => Carries(i, slot, q)'
  BY <1>3 DEF Carries
<1>11. \A q \in Releases : check[q] # "idle" => StatusOf(q)' = "succeeded"
  BY <1>1, <1>3 DEF OfferInv, Recording, StatusOf, Carries
<1>12. Recording'
  BY <1>1, <1>5, <1>9, <1>10, <1>11 DEF OfferInv, Recording
<1> QED
  BY <1>3, <1>4, <1>8, <1>12 DEF OfferInv

LEMMA FetchPublishOperationKeeps ==
    ASSUME OfferInv, NEW r \in Releases, FetchPublishOperation(r)
    PROVE  OfferInv'
<1>1. PICK i \in Ongoing("staging") :
         metadata' = [metadata EXCEPT ![r] = [state |-> "publishing", publish |-> i,
                                              golive |-> Nil]]
  BY DEF FetchPublishOperation
<1>2. /\ pc[r] = "fetch_operation" /\ pc' = [pc EXCEPT ![r] = "done"]
      /\ UNCHANGED <<offer, staged, live, operations, spec, check>>
  BY DEF FetchPublishOperation, Go, market
<1>3. i \in DOMAIN operations /\ operations[i].slot = "staging" /\ Pending(i)
  BY DEF Ongoing, Pending
<1>4. Carries(i, "staging", r)
  BY <1>2, <1>3 DEF OfferInv, Publishing, AnyCarries, Carries
<1> DEFINE m == [state |-> "publishing", publish |-> i, golive |-> Nil]
<1>5. m \in Published /\ m.state = "publishing" /\ m.publish = i /\ m.golive = Nil
  BY <1>3, OperationFacts DEF OfferInv, Published
<1> HIDE DEF m
<1>6. metadata' = [metadata EXCEPT ![r] = m]
  BY <1>1 DEF m
<1>7. /\ pc \in [Releases -> {"idle", "update_offer", "publish_offer", "fetch_operation", "done"}]
      /\ metadata \in [Releases -> Metadata \cup {Nil}]
  BY DEF OfferInv, TypeOK
<1>8. TypeOK'
  BY <1>2, <1>5, <1>6, <1>7 DEF OfferInv, TypeOK, Metadata
<1>9. Chain'
  BY <1>2 DEF OfferInv, Chain, Pending
<1>10. Publishing'
  BY <1>2, <1>7 DEF OfferInv, Publishing, UnderWay, AnyCarries, Pending
<1>11. check[r] = "idle"
  BY <1>2, NoMetadataIsNil DEF OfferInv, Recording, Metadata
<1>12. Recording'
  BY <1>2, <1>4, <1>5, <1>6, <1>7, <1>11
     DEF OfferInv, Recording, Carries, AnyCarries, StatusOf, Pending
<1> QED
  BY <1>8, <1>9, <1>10, <1>12 DEF OfferInv

LEMMA PublicationFailsKeeps ==
    ASSUME OfferInv, NEW r \in Releases, PublicationFails(r)
    PROVE  OfferInv'
<1>1. /\ pc[r] \notin {"idle", "done"} /\ pc' = [pc EXCEPT ![r] = "done"]
      /\ metadata' = [metadata EXCEPT ![r] = Provisional]
      /\ spec' = [spec EXCEPT ![r] = Nil]
      /\ UNCHANGED <<offer, staged, live, operations, check>>
  BY DEF PublicationFails, Go, market
<1>2. Provisional \in Metadata /\ Provisional \notin Published
  BY DEF Metadata, Provisional, Published
<1>3. /\ pc \in [Releases -> {"idle", "update_offer", "publish_offer", "fetch_operation", "done"}]
      /\ metadata \in [Releases -> Metadata \cup {Nil}]
      /\ spec \in [Releases -> (SUBSET Versions) \cup {Nil}]
  BY DEF OfferInv, TypeOK
<1>4. TypeOK'
  BY <1>1, <1>2, <1>3 DEF OfferInv, TypeOK
<1>5. Chain'
  BY <1>1 DEF OfferInv, Chain, Pending
<1>6. Publishing'
  BY <1>1, <1>3 DEF OfferInv, Publishing, UnderWay, AnyCarries, Pending
<1>7. check[r] = "idle"
  BY <1>1, NoMetadataIsNil DEF OfferInv, Recording, Metadata
<1>8. Recording'
  BY <1>1, <1>2, <1>3, <1>7 DEF OfferInv, Recording, Carries, AnyCarries, StatusOf, Pending
<1> QED
  BY <1>4, <1>5, <1>6, <1>8 DEF OfferInv

LEMMA PublicationLostKeeps ==
    ASSUME OfferInv, NEW r \in Releases, PublicationLost(r)
    PROVE  OfferInv'
<1>1. /\ pc[r] \notin {"idle", "done"} /\ pc' = [pc EXCEPT ![r] = "idle"]
      /\ spec' = [spec EXCEPT ![r] = Nil]
      /\ UNCHANGED <<offer, staged, live, operations, metadata, check>>
  BY DEF PublicationLost, Go, market
<1>2. /\ pc \in [Releases -> {"idle", "update_offer", "publish_offer", "fetch_operation", "done"}]
      /\ spec \in [Releases -> (SUBSET Versions) \cup {Nil}]
  BY DEF OfferInv, TypeOK
<1>3. TypeOK'
  BY <1>1, <1>2 DEF OfferInv, TypeOK
<1>4. Chain'
  BY <1>1 DEF OfferInv, Chain, Pending
<1>5. Publishing'
  BY <1>1, <1>2 DEF OfferInv, Publishing, UnderWay, AnyCarries, Pending
<1>6. Recording'
  BY <1>1, <1>2 DEF OfferInv, Recording, Carries, AnyCarries, StatusOf, Pending
<1> QED
  BY <1>3, <1>4, <1>5, <1>6 DEF OfferInv

-----------------------------------------------------------------------------
(* The check of a release.                                                  *)

LEMMA CheckTransportKeeps ==
    ASSUME OfferInv, NEW r \in Releases, CheckTransport(r)
    PROVE  OfferInv'
<1>1. /\ check[r] = "idle" /\ metadata[r] \in Published
      /\ UNCHANGED <<offer, staged, live, operations, pc, spec>>
  BY DEF CheckTransport, market
<1>2. /\ metadata \in [Releases -> Metadata \cup {Nil}]
      /\ check \in [Releases -> {"idle", "go_live", "fetch_operation"}]
  BY DEF OfferInv, TypeOK
<1>3. Chain'
  BY <1>1 DEF OfferInv, Chain, Pending
<1>4. Publishing'
  BY <1>1 DEF OfferInv, Publishing, UnderWay, AnyCarries, Pending
<1>5. CASE \E s \in {"released", "failed"} : Note(r, s) /\ UNCHANGED check
  <2>1. PICK s \in {"released", "failed"} :
           metadata' = [metadata EXCEPT ![r] = [metadata[r] EXCEPT !.state = s]] /\ UNCHANGED check
    BY <1>5 DEF Note
  <2> DEFINE m == [metadata[r] EXCEPT !.state = s]
  <2>2. /\ m \in Published /\ m.state = s
        /\ m.publish = metadata[r].publish /\ m.golive = metadata[r].golive
    BY <1>1 DEF Published
  <2> HIDE DEF m
  <2>3. metadata' = [metadata EXCEPT ![r] = m] /\ UNCHANGED check
    BY <2>1 DEF m
  <2>4. TypeOK'
    BY <1>1, <1>2, <2>2, <2>3 DEF OfferInv, TypeOK, Metadata
  <2>5. m # Nil
    BY <2>2, NoMetadataIsNil DEF Metadata
  <2>6. metadata[r] # Nil
    BY <1>1, NoMetadataIsNil DEF Metadata
  <2>7. Recording'
    BY <1>1, <1>2, <2>2, <2>3, <2>5, <2>6
       DEF OfferInv, Recording, Carries, AnyCarries, StatusOf, Pending
  <2> QED
    BY <1>3, <1>4, <2>4, <2>7 DEF OfferInv
<1>6. CASE GoLiveIsDue(r) /\ GoCheck(r, "go_live") /\ UNCHANGED metadata
  <2>1. check' = [check EXCEPT ![r] = "go_live"] /\ UNCHANGED metadata
    BY <1>6 DEF GoCheck
  <2>2. metadata[r].state = "publishing" /\ StatusOf(r) = "succeeded"
    BY <1>6 DEF GoLiveIsDue
  <2>3. TypeOK'
    BY <1>1, <1>2, <2>1 DEF OfferInv, TypeOK
  <2>4. Recording'
    BY <1>1, <1>2, <2>1, <2>2 DEF OfferInv, Recording, Carries, AnyCarries, StatusOf, Pending
  <2> QED
    BY <1>3, <1>4, <2>3, <2>4 DEF OfferInv
<1> QED
  BY <1>5, <1>6 DEF CheckTransport

LEMMA GoLiveKeeps ==
    ASSUME OfferInv, NEW r \in Releases, GoLive(r)
    PROVE  OfferInv'
<1>1. /\ check[r] = "go_live" /\ check' = [check EXCEPT ![r] = "fetch_operation"]
      /\ Accept("production", staged) /\ UNCHANGED <<offer, staged, live, metadata, pc, spec>>
  BY DEF GoLive, GoCheck
<1>2. staged \in SUBSET Versions /\ "production" \in Slot
  BY DEF OfferInv, TypeOK, Slot
<1>3. /\ Chain'
      /\ operations' \in Seq(Operation) /\ Len(operations') <= MaxOps
      /\ DOMAIN operations \subseteq DOMAIN operations'
      /\ \A i \in DOMAIN operations : operations'[i] = operations[i]
      /\ \A i \in DOMAIN operations' : Pending(i)' /\ operations'[i].slot = "production" =>
            operations'[i].versions = staged
      /\ \A i \in DOMAIN operations' : Pending(i)' /\ operations'[i].slot # "production" =>
            i \in DOMAIN operations /\ Pending(i)
  BY <1>1, <1>2, AcceptKeeps
<1>4. check \in [Releases -> {"idle", "go_live", "fetch_operation"}]
  BY DEF OfferInv, TypeOK
<1>5. TypeOK'
  BY <1>1, <1>3, <1>4 DEF OfferInv, TypeOK
<1>6. \A q \in Releases : AnyCarries("staging", q) => AnyCarries("staging", q)'
  BY <1>3 DEF AnyCarries
<1>7. Publishing'
  BY <1>1, <1>6 DEF OfferInv, Publishing, UnderWay
<1>8. \A i, slot, q : Carries(i, slot, q) => Carries(i, slot, q)'
  BY <1>3 DEF Carries
<1>9. \A q \in Releases : check[q] # "idle" => StatusOf(q)' = "succeeded"
  BY <1>1, <1>3 DEF OfferInv, Recording, StatusOf, Carries
<1>10. \A q \in Releases : check[q] # "idle" => VersionOf[q] \in staged
  BY DEF OfferInv, Recording, StatusOf, Carries, Chain
<1>11. \A q \in Releases : check[q] # "idle" => AnyCarries("production", q)'
  BY <1>1, <1>3, <1>10 DEF AnyCarries
<1>12. ASSUME NEW q \in Releases
       PROVE  /\ check'[q] # "idle" => check[q] # "idle"
  BY <1>1, <1>4
<1>13. Recording'
  BY <1>1, <1>8, <1>9, <1>11, <1>12 DEF OfferInv, Recording
<1> QED
  BY <1>3, <1>5, <1>7, <1>13 DEF OfferInv

LEMMA FetchGoLiveOperationKeeps ==
    ASSUME OfferInv, NEW r \in Releases, FetchGoLiveOperation(r)
    PROVE  OfferInv'
<1>1. PICK i \in Ongoing("production") :
         metadata' = [metadata EXCEPT ![r] = [metadata[r] EXCEPT !.state = "going_live", !.golive = i]]
  BY DEF FetchGoLiveOperation
<1>2. /\ check[r] = "fetch_operation" /\ check' = [check EXCEPT ![r] = "idle"]
      /\ UNCHANGED <<offer, staged, live, operations, pc, spec>>
  BY DEF FetchGoLiveOperation, GoCheck, market
<1>3. i \in DOMAIN operations /\ operations[i].slot = "production" /\ Pending(i) /\ i \in Ids
  BY OperationFacts DEF OfferInv, Ongoing, Pending
<1>4. Carries(i, "production", r) /\ metadata[r] \in Published
  BY <1>2, <1>3 DEF OfferInv, Recording, AnyCarries, Carries
<1>5. /\ metadata \in [Releases -> Metadata \cup {Nil}]
      /\ check \in [Releases -> {"idle", "go_live", "fetch_operation"}]
  BY DEF OfferInv, TypeOK
<1> DEFINE m == [metadata[r] EXCEPT !.state = "going_live", !.golive = i]
<1>6. m \in Published /\ m.state = "going_live" /\ m.publish = metadata[r].publish /\ m.golive = i
  BY <1>3, <1>4 DEF Published
<1>7. metadata' = [metadata EXCEPT ![r] = m]
  BY <1>1
<1> HIDE DEF m
<1>8. TypeOK'
  BY <1>2, <1>5, <1>6, <1>7 DEF OfferInv, TypeOK, Metadata
<1>9. Chain'
  BY <1>2 DEF OfferInv, Chain, Pending
<1>10. Publishing'
  BY <1>2 DEF OfferInv, Publishing, UnderWay, AnyCarries, Pending
<1>11. metadata[r] # Nil
  BY <1>4, NoMetadataIsNil DEF Metadata
<1>12. Recording'
  BY <1>2, <1>4, <1>5, <1>6, <1>7, <1>11
     DEF OfferInv, Recording, Carries, AnyCarries, StatusOf, Pending
<1> QED
  BY <1>8, <1>9, <1>10, <1>12 DEF OfferInv

LEMMA CheckFailsKeeps ==
    ASSUME OfferInv, NEW r \in Releases, CheckFails(r)
    PROVE  OfferInv'
<1>1. /\ check' = [check EXCEPT ![r] = "idle"]
      /\ UNCHANGED <<offer, staged, live, operations, metadata, pc, spec>>
  BY DEF CheckFails, GoCheck, market
<1>2. check \in [Releases -> {"idle", "go_live", "fetch_operation"}]
  BY DEF OfferInv, TypeOK
<1>3. TypeOK'
  BY <1>1, <1>2 DEF OfferInv, TypeOK
<1>4. Chain' /\ Publishing'
  BY <1>1 DEF OfferInv, Chain, Publishing, UnderWay, AnyCarries, Pending
<1>5. Recording'
  BY <1>1, <1>2 DEF OfferInv, Recording, Carries, AnyCarries, StatusOf, Pending
<1> QED
  BY <1>3, <1>4, <1>5 DEF OfferInv

-----------------------------------------------------------------------------
(* The specification.                                                       *)

LEMMA InitiallyOfferInv == Init => OfferInv
<1> SUFFICES ASSUME Init PROVE OfferInv
  OBVIOUS
<1>1. operations = <<>> /\ operations \in Seq(Operation) /\ Len(operations) = 0 /\ DOMAIN operations = {}
  BY EmptySeq DEF Init
<1>2. TypeOK
  BY <1>1, AzureAssumption DEF Init, TypeOK
<1>3. Chain
  BY <1>1 DEF Init, Chain
<1>4. Publishing
  BY DEF Init, Publishing, UnderWay
<1>5. Nil \notin Published
  BY NoMetadataIsNil DEF Metadata
<1>6. Recording
  BY <1>5 DEF Init, Recording
<1> QED
  BY <1>2, <1>3, <1>4, <1>6 DEF OfferInv

LEMMA StepKeepsOfferInv ==
    ASSUME ~Overlap, OfferInv, [Next]_vars
    PROVE  OfferInv'
<1>1. ASSUME NEW i \in DOMAIN operations, StartOperation(i) \/ EndOperation(i)
      PROVE  OfferInv'
  BY <1>1, StartOperationKeeps, EndOperationKeeps
<1>2. ASSUME NEW r \in Releases, Publication(r)
      PROVE  OfferInv'
  BY <1>2, FetchOfferKeeps, UpdateOfferKeeps, PublishOfferKeeps, FetchPublishOperationKeeps,
     PublicationFailsKeeps, PublicationLostKeeps DEF Publication
<1>3. ASSUME NEW r \in Releases, Check(r)
      PROVE  OfferInv'
  BY <1>3, CheckTransportKeeps, GoLiveKeeps, FetchGoLiveOperationKeeps, CheckFailsKeeps DEF Check
<1>4. CASE UNCHANGED vars
  BY <1>4 DEF vars, market, OfferInv, TypeOK, Chain, Publishing, Recording, UnderWay, AnyCarries,
              Carries, StatusOf, Pending
<1> QED
  BY <1>1, <1>2, <1>3, <1>4 DEF Next, Transport

\* When publications take turns, the offer, the slots and the operations under way form a
\* chain, and what upload_and_publish_image and check_offer_transport_state note is found
\* in it: the inductive invariant of az.py and of the marketplace.
THEOREM OfferInvariant == ASSUME ~Overlap PROVE Spec => []OfferInv
<1>1. Init => OfferInv
  BY InitiallyOfferInv
<1>2. OfferInv /\ [Next]_vars => OfferInv'
  BY StepKeepsOfferInv
<1> QED
  BY <1>1, <1>2, PTL DEF Spec

\* The offer, the slots, the operations and the manifests keep their types.
THEOREM OfferTypeCorrect == ASSUME ~Overlap PROVE Spec => []TypeOK
<1>1. OfferInv => TypeOK
  BY DEF OfferInv
<1> QED
  BY <1>1, OfferInvariant, PTL

\* The operations fetch_ongoing_operation_id finds, and az.py keeps in the manifest, carry
\* the version of the release, whichever of the operations under way is found.
THEOREM RecordsAreRight == ASSUME ~Overlap PROVE Spec => []RecordedOperationsCarryTheVersion
<1>1. OfferInv => RecordedOperationsCarryTheVersion
  BY DEF OfferInv, Recording, RecordedOperationsCarryTheVersion
<1> QED
  BY <1>1, OfferInvariant, PTL

\* No go_live_operation takes a version out of production that was there before.
THEOREM LiveVersionsAreKept == ASSUME ~Overlap PROVE Spec => LiveVersionsStayLive
<1>1. ASSUME OfferInv, [Next]_vars
      PROVE  live \subseteq live'
  <2>1. ASSUME NEW i \in DOMAIN operations, StartOperation(i) \/ EndOperation(i)
        PROVE  live \subseteq live'
    BY <1>1, <2>1, SlotsGrow DEF StartOperation
  <2>2. ASSUME NEW r \in Releases, Publication(r) \/ Check(r)
        PROVE  UNCHANGED live
    BY <2>2 DEF Publication, FetchOffer, UpdateOffer, PublishOffer, FetchPublishOperation,
                PublicationFails, PublicationLost, Check, CheckTransport, GoLive,
                FetchGoLiveOperation, CheckFails, market
  <2> QED
    BY <1>1, <2>1, <2>2 DEF Next, Transport, vars, market
<1>2. OfferInv /\ [Next]_vars => [live \subseteq live']_vars
  BY <1>1
<1> QED
  BY <1>2, OfferInvariant, PTL DEF Spec, LiveVersionsStayLive

\* What one release notes goes forward: the part of ReleasesAdvance about the release r.
Advances(r) ==
    metadata[r] \in Published =>
        /\ metadata'[r] \in Published
        /\ Rank[metadata[r].state] <= Rank[metadata'[r].state]
        /\ metadata'[r].publish = metadata[r].publish
        /\ metadata[r].golive # Nil => metadata'[r].golive = metadata[r].golive

LEMMA SameMetadataAdvances ==
    ASSUME NEW r, metadata'[r] = metadata[r]
    PROVE  Advances(r)
BY DEF Advances, Published, Rank

\* However the publications and the checks interleave and fail, a manifest of
\* check_offer_transport_state only advances and keeps the operations it names.
THEOREM ReleasesOnlyAdvance == ASSUME ~Overlap PROVE Spec => ReleasesAdvance
<1>1. ASSUME OfferInv, [Next]_vars
      PROVE  \A q \in Releases : Advances(q)
  <2>1. /\ metadata \in [Releases -> Metadata \cup {Nil}]
        /\ Nil \notin Published
    BY <1>1, NoMetadataIsNil DEF OfferInv, TypeOK, Metadata
  <2>2. CASE UNCHANGED metadata
    BY <2>2, SameMetadataAdvances
  <2>3. ASSUME NEW r \in Releases, FetchPublishOperation(r) \/ PublicationFails(r)
        PROVE  \A q \in Releases : Advances(q)
    <3>1. metadata[r] = Nil
      BY <1>1, <2>3 DEF OfferInv, Recording, FetchPublishOperation, PublicationFails
    <3>2. Advances(r)
      BY <2>1, <3>1 DEF Advances
    <3>3. \A q \in Releases \ {r} : metadata'[q] = metadata[q]
      BY <2>1, <2>3 DEF FetchPublishOperation, PublicationFails
    <3> QED
      BY <3>2, <3>3, SameMetadataAdvances
  <2>4. ASSUME NEW r \in Releases, NEW s \in {"released", "failed"},
               metadata[r] \in Published, metadata[r].state # "released", Note(r, s)
        PROVE  \A q \in Releases : Advances(q)
    <3>1. metadata' = [metadata EXCEPT ![r] = [metadata[r] EXCEPT !.state = s]]
      BY <2>4 DEF Note
    <3>2. metadata'[r] = [metadata[r] EXCEPT !.state = s]
      BY <2>1, <3>1
    <3>3. Rank[metadata[r].state] <= 3 /\ Rank[s] = 3
      BY <2>4 DEF Published, Rank
    <3>4. Advances(r)
      BY <2>4, <3>2, <3>3 DEF Advances, Published
    <3>5. \A q \in Releases \ {r} : metadata'[q] = metadata[q]
      BY <2>1, <3>1
    <3> QED
      BY <3>4, <3>5, SameMetadataAdvances
  <2>5. ASSUME NEW r \in Releases, FetchGoLiveOperation(r)
        PROVE  \A q \in Releases : Advances(q)
    <3>1. PICK i \in Ongoing("production") :
             metadata' = [metadata EXCEPT ![r] = [metadata[r] EXCEPT !.state = "going_live",
                                                                     !.golive = i]]
      BY <2>5 DEF FetchGoLiveOperation
    <3>2. i \in Ids
      BY <1>1, OperationFacts DEF OfferInv, Ongoing
    <3>3. metadata[r] \in Published /\ metadata[r].state = "publishing" /\ metadata[r].golive = Nil
      BY <1>1, <2>5 DEF OfferInv, Recording, FetchGoLiveOperation
    <3>4. metadata'[r] = [metadata[r] EXCEPT !.state = "going_live", !.golive = i]
      BY <2>1, <3>1
    <3>5. metadata'[r] \in Published
      BY <3>2, <3>3, <3>4 DEF Published
    <3>6. metadata'[r].state = "going_live" /\ metadata'[r].publish = metadata[r].publish
      BY <3>3, <3>4 DEF Published
    <3>7. Rank["publishing"] <= Rank["going_live"]
      BY DEF Rank
    <3>8. Advances(r)
      BY <3>3, <3>5, <3>6, <3>7 DEF Advances
    <3>9. \A q \in Releases \ {r} : metadata'[q] = metadata[q]
      BY <2>1, <3>1
    <3> QED
      BY <3>8, <3>9, SameMetadataAdvances
  <2>6. ASSUME NEW i \in DOMAIN operations, StartOperation(i) \/ EndOperation(i)
        PROVE  UNCHANGED metadata
    BY <2>6 DEF StartOperation, EndOperation
  <2>7. ASSUME NEW r \in Releases, Publication(r)
        PROVE  \A q \in Releases : Advances(q)
    BY <2>2, <2>3, <2>7 DEF Publication, FetchOffer, UpdateOffer, PublishOffer, PublicationLost
  <2>8. ASSUME NEW r \in Releases, Check(r)
        PROVE  \A q \in Releases : Advances(q)
    BY <2>2, <2>4, <2>5, <2>8 DEF Check, CheckTransport, GoLive, CheckFails
  <2> QED
    BY <1>1, <2>2, <2>6, <2>7, <2>8 DEF Next, Transport, vars
<1>2. OfferInv /\ [Next]_vars =>
        [\A r \in Releases : metadata[r] \in Published =>
            /\ metadata'[r] \in Published
            /\ Rank[metadata[r].state] <= Rank[metadata'[r].state]
            /\ metadata'[r].publish = metadata[r].publish
            /\ metadata[r].golive # Nil => metadata'[r].golive = metadata[r].golive]_vars
  BY <1>1 DEF Advances
<1> QED
  BY <1>2, OfferInvariant, PTL DEF Spec, ReleasesAdvance

=============================================================================

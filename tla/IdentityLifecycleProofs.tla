----------------------- MODULE IdentityLifecycleProofs -----------------------
(* Theorems about IdentityLifecycle, for every set of identities, entities *)
(* and decisions.                                                          *)
EXTENDS IdentityLifecycle, TLAPS

-----------------------------------------------------------------------------
(* Helpers                                                                 *)

\* Writing decision events touches one decision and counts the set A.
LEMMA LogDecisionCounts ==
  ASSUME decisionEvents \in [Decision -> [DecisionAction -> Nat]],
         NEW d \in Decision, NEW A \in SUBSET DecisionAction,
         LogDecision(d, A)
  PROVE  /\ decisionEvents' \in [Decision -> [DecisionAction -> Nat]]
         /\ \A e \in Decision : e # d => decisionEvents'[e] = decisionEvents[e]
         /\ \A a \in DecisionAction :
              decisionEvents'[d][a] =
                IF a \in A THEN decisionEvents[d][a] + 1 ELSE decisionEvents[d][a]
  BY DEF LogDecision

\* A status that was computed from a status is a status.
LEMMA StatusAfterType ==
  ASSUME NEW st \in Status, NEW S
  PROVE  StatusAfter(st, S) \in Status
  BY DEF StatusAfter, Promotes, Status

\* Identity events are well formed.
LEMMA EventType ==
  ASSUME NEW a \in {"created", "promoted", "disputed", "merged", "split"},
         NEW i \in Identity,
         NEW s \in Identity \union {None}, NEW t \in Identity \union {None}
  PROVE  Event(a, i, s, t) \in IdentityEvent
  BY DEF Event, IdentityEvent

LEMMA CreatedEventType ==
  ASSUME NEW i \in Identity, NEW S \in SUBSET Basis
  PROVE  CreatedEvent(i, S) \in IdentityEvent
  BY DEF CreatedEvent, Event, IdentityEvent

LEMMA PromotionEventsType ==
  ASSUME NEW i \in Identity, NEW st, NEW S
  PROVE  PromotionEvents(i, st, S) \in Seq(IdentityEvent)
  <1>1. Event("promoted", i, None, None) \in IdentityEvent
    BY EventType
  <1>2. <<Event("promoted", i, None, None)>> \in Seq(IdentityEvent)
    BY <1>1
  <1>3. QED
    BY <1>2 DEF PromotionEvents

\* The identity log grows by well-formed events.
LEMMA LogIdentityType ==
  ASSUME identityEvents \in Seq(IdentityEvent),
         NEW newEvents \in Seq(IdentityEvent),
         LogIdentity(newEvents)
  PROVE  identityEvents' \in Seq(IdentityEvent)
  BY DEF LogIdentity

LEMMA LogTwoType ==
  ASSUME identityEvents \in Seq(IdentityEvent),
         NEW first \in Seq(IdentityEvent), NEW ev \in IdentityEvent,
         LogIdentity(first \o <<ev>>)
  PROVE  identityEvents' \in Seq(IdentityEvent)
  <1>1. first \o <<ev>> \in Seq(IdentityEvent)
    OBVIOUS
  <1>2. QED
    BY <1>1, LogIdentityType

\* Links a query sees are links.
LEMMA VisibleType ==
  ASSUME NEW W \in SUBSET Entity, NEW P \in SUBSET Entity
  PROVE  Visible(W, P) \in SUBSET Entity
  BY DEF Visible

\* What a confidence is computed from is a basis, and holds every link.
LEMMA EvidenceType ==
  ASSUME NEW S \in SUBSET Entity, NEW v
  PROVE  /\ Evidence(S, v) \in SUBSET Basis
         /\ S \X {None} \subseteq Evidence(S, v)
  BY DEF Evidence, Basis

\* The record of a merge is well formed.
LEMMA RecordType ==
  ASSUME TypeOK, NEW d \in Decision, NEW s \in Identity, NEW t \in Identity
  PROVE  Record(d, s, t) \in Seq(MergeRecord)
  BY DEF TypeOK, Record, MergeRecord

-----------------------------------------------------------------------------
(* Type correctness                                                        *)

LEMMA TypeInit == Init => TypeOK
  BY DEF Init, TypeOK, Status, Item, NoItem, DecisionAction

LEMMA TypeResolveExisting ==
  ASSUME TypeOK, NEW v, ResolveExisting(v)
  PROVE  TypeOK'
  <1>1. PICK i \in MatchedIn(v) :
          LET basis == Evidence(entities[i], v)
          IN /\ confidence' = [confidence EXCEPT ![i] = basis]
             /\ status' = [status EXCEPT ![i] = StatusAfter(@, basis)]
             /\ LogIdentity(PromotionEvents(i, status[i], basis))
             /\ UNCHANGED <<mergedInto, entities, records, items,
                            decisionEvents, observations>>
    BY DEF ResolveExisting
  <1> DEFINE basis == Evidence(entities[i], v)
  <1>2. i \in Identity
    BY DEF MatchedIn, Matching
  <1>3. basis \in SUBSET Basis
    BY <1>2, EvidenceType DEF TypeOK
  <1>4. StatusAfter(status[i], basis) \in Status
    BY <1>2, StatusAfterType DEF TypeOK
  <1>5. identityEvents' \in Seq(IdentityEvent)
    BY <1>1, <1>2, PromotionEventsType, LogIdentityType DEF TypeOK
  <1>6. /\ confidence' = [confidence EXCEPT ![i] = basis]
        /\ status' = [status EXCEPT ![i] = StatusAfter(@, basis)]
        /\ UNCHANGED <<mergedInto, entities, records, items,
                       decisionEvents, observations>>
    BY <1>1
  <1> HIDE DEF basis
  <1>7. QED
    BY <1>2, <1>3, <1>4, <1>5, <1>6 DEF TypeOK

LEMMA TypeResolveNew ==
  ASSUME TypeOK, NEW v, NEW S \in SUBSET Entity, ResolveNew(v, S)
  PROVE  TypeOK'
  <1> DEFINE basis == Evidence(Visible({}, S), v)
  <1>1. PICK i \in Identity :
          /\ entities' = [entities EXCEPT ![i] = S]
          /\ confidence' = [confidence EXCEPT ![i] = basis]
          /\ status' = [status EXCEPT ![i] = StatusAfter("tentative", basis)]
          /\ LogIdentity(PromotionEvents(i, "tentative", basis)
                           \o <<CreatedEvent(i, basis)>>)
          /\ UNCHANGED <<mergedInto, records, items, decisionEvents,
                         observations>>
    BY DEF ResolveNew
  <1>2. basis \in SUBSET Basis
    BY VisibleType, EvidenceType
  <1>3. StatusAfter("tentative", basis) \in Status
    BY StatusAfterType DEF Status
  <1> HIDE DEF basis
  <1>4. identityEvents' \in Seq(IdentityEvent)
    BY <1>1, <1>2, PromotionEventsType, CreatedEventType, LogTwoType DEF TypeOK
  <1>5. QED
    BY <1>1, <1>2, <1>3, <1>4 DEF TypeOK

LEMMA TypeResolve ==
  ASSUME TypeOK, Resolve
  PROVE  TypeOK'
  <1>1. \A v : CandidatesIn(v) \subseteq SUBSET Entity
    BY DEF CandidatesIn
  <1>2. QED
    BY <1>1, TypeResolveExisting, TypeResolveNew DEF Resolve

LEMMA TypeObserve ==
  ASSUME TypeOK, Observe
  PROVE  TypeOK'
  <1>1. PICK o \in Observable \ observations :
          observations' = observations \union {o}
    BY DEF Observe
  <1>2. QED
    BY <1>1 DEF Observe, TypeOK

LEMMA TypeDispute ==
  ASSUME TypeOK, NEW i \in Identity, Dispute(i)
  PROVE  TypeOK'
  <1>1. Event("disputed", i, None, None) \in IdentityEvent
    BY EventType
  <1>2. <<Event("disputed", i, None, None)>> \in Seq(IdentityEvent)
    BY <1>1
  <1>3. identityEvents' \in Seq(IdentityEvent)
    BY <1>2, LogIdentityType DEF Dispute, TypeOK
  <1>4. QED
    BY <1>3 DEF Dispute, TypeOK, Status

\* What executing a decision writes, whoever executes it.
ExecutedTypes ==
  /\ status' \in [Identity -> Status]
  /\ mergedInto' \in [Identity -> Identity \union {None}]
  /\ entities' \in [Identity -> SUBSET Entity]
  /\ confidence' \in [Identity -> SUBSET Basis]
  /\ records' \in Seq(MergeRecord)
  /\ identityEvents' \in Seq(IdentityEvent)
  /\ observations' \subseteq Observable

LEMMA TypeExecuteMerge ==
  ASSUME TypeOK, NEW d \in Decision, NEW s \in Identity, NEW t \in Identity,
         ExecuteMerge(d, s, t)
  PROVE  ExecutedTypes
  <1>1. PICK v \in ScopesOf(s) :
          LET basis == Evidence(Visible(entities[t], entities[s]), v)
          IN /\ Mergeable(s, t, v)
             /\ records' = Record(d, s, t)
             /\ entities' = LinksAfterMerge(s, t)
             /\ confidence' = [confidence EXCEPT ![t] = basis]
             /\ status' = [status EXCEPT ![s] = "merged",
                                         ![t] = StatusAfter(@, basis)]
             /\ mergedInto' = [mergedInto EXCEPT ![s] = t]
             /\ LogIdentity(PromotionEvents(t, status[t], basis)
                              \o <<Event("merged", t, s, None)>>)
             /\ UNCHANGED observations
    BY DEF ExecuteMerge
  <1> DEFINE basis == Evidence(Visible(entities[t], entities[s]), v)
  <1>2. basis \in SUBSET Basis
    BY VisibleType, EvidenceType DEF TypeOK
  <1>3. records' \in Seq(MergeRecord)
    BY <1>1, RecordType
  <1>4. entities' \in [Identity -> SUBSET Entity]
    BY <1>1 DEF LinksAfterMerge, TypeOK
  <1>5. status' \in [Identity -> Status]
    <2>1. s # t
      BY <1>1 DEF Mergeable
    <2>2. StatusAfter(status[t], basis) \in Status
      BY StatusAfterType DEF TypeOK
    <2>3. status' = [status EXCEPT ![s] = "merged", ![t] = StatusAfter(@, basis)]
      BY <1>1
    <2> HIDE DEF basis
    <2>4. QED
      BY <2>1, <2>2, <2>3 DEF TypeOK, Status
  <1>6. mergedInto' \in [Identity -> Identity \union {None}]
    BY <1>1 DEF TypeOK
  <1>7. confidence' \in [Identity -> SUBSET Basis]
    <2>1. confidence' = [confidence EXCEPT ![t] = basis]
      BY <1>1
    <2> HIDE DEF basis
    <2>2. QED
      BY <1>2, <2>1 DEF TypeOK
  <1>8. identityEvents' \in Seq(IdentityEvent)
    <2>1. Event("merged", t, s, None) \in IdentityEvent
      BY EventType
    <2>2. PromotionEvents(t, status[t], basis) \in Seq(IdentityEvent)
      BY PromotionEventsType
    <2>3. LogIdentity(PromotionEvents(t, status[t], basis)
                        \o <<Event("merged", t, s, None)>>)
      BY <1>1
    <2>4. QED
      BY <2>1, <2>2, <2>3, LogTwoType DEF TypeOK
  <1>9. QED
    BY <1>1, <1>3, <1>4, <1>5, <1>6, <1>7, <1>8 DEF ExecutedTypes, TypeOK

LEMMA TypeExecutePromotion ==
  ASSUME TypeOK, NEW i \in Identity, ExecutePromotion(i)
  PROVE  ExecutedTypes
  <1>1. Event("promoted", i, None, None) \in IdentityEvent
    BY EventType
  <1>2. <<Event("promoted", i, None, None)>> \in Seq(IdentityEvent)
    BY <1>1
  <1>3. identityEvents' \in Seq(IdentityEvent)
    BY <1>2, LogIdentityType DEF ExecutePromotion, TypeOK
  <1>4. status' \in [Identity -> Status]
    BY DEF ExecutePromotion, ManuallyPromoted, TypeOK, Status
  <1>5. QED
    BY <1>3, <1>4 DEF ExecutedTypes, ExecutePromotion, TypeOK

LEMMA TypeProcess ==
  ASSUME TypeOK, NEW d \in Decision, Process(d)
  PROVE  TypeOK'
  <1>1. ASSUME NEW s \in Identity, NEW t \in Identity, ProcessAutoMerge(d, s, t)
        PROVE  TypeOK'
    <2>1. ExecutedTypes
      BY <1>1, TypeExecuteMerge DEF ProcessAutoMerge
    <2>2. decisionEvents' \in [Decision -> [DecisionAction -> Nat]]
      BY <1>1, LogDecisionCounts DEF ProcessAutoMerge, TypeOK, DecisionAction
    <2>3. QED
      BY <1>1, <2>1, <2>2 DEF ProcessAutoMerge, TypeOK, ExecutedTypes
  <1>2. ASSUME NEW s \in Identity, NEW t \in Identity,
               ProcessAutoMergeFails(d, s, t)
        PROVE  TypeOK'
    <2>1. records' \in Seq(MergeRecord)
      BY <1>2, RecordType DEF ProcessAutoMergeFails, TypeOK
    <2>2. decisionEvents' \in [Decision -> [DecisionAction -> Nat]]
      BY <1>2, LogDecisionCounts DEF ProcessAutoMergeFails, TypeOK, DecisionAction
    <2>3. QED
      BY <1>2, <2>1, <2>2 DEF ProcessAutoMergeFails, TypeOK
  <1>3. ASSUME NEW i \in Identity, ProcessPromotion(d, i)
        PROVE  TypeOK'
    <2>1. ExecutedTypes
      BY <1>3, TypeExecutePromotion DEF ProcessPromotion
    <2>2. decisionEvents' \in [Decision -> [DecisionAction -> Nat]]
      BY <1>3, LogDecisionCounts DEF ProcessPromotion, TypeOK, DecisionAction
    <2>3. QED
      BY <1>3, <2>1, <2>2 DEF ProcessPromotion, TypeOK, ExecutedTypes
  <1>4. ASSUME NEW i \in Identity, ProcessPromotionFails(d, i)
        PROVE  TypeOK'
    <2>1. decisionEvents' \in [Decision -> [DecisionAction -> Nat]]
      BY <1>4, LogDecisionCounts DEF ProcessPromotionFails, TypeOK, DecisionAction
    <2>2. QED
      BY <1>4, <2>1 DEF ProcessPromotionFails, TypeOK
  <1>5. ASSUME NEW s \in Identity, NEW t \in Identity \union {None},
               ProcessQueue(d, s, t)
        PROVE  TypeOK'
    <2>1. decisionEvents' \in [Decision -> [DecisionAction -> Nat]]
      BY <1>5, LogDecisionCounts DEF ProcessQueue, TypeOK, DecisionAction
    <2>2. items' \in [Decision -> Item]
      BY <1>5 DEF ProcessQueue, TypeOK, Item
    <2>3. QED
      BY <1>5, <2>1, <2>2 DEF ProcessQueue, TypeOK
  <1>6. ASSUME ProcessReject(d)
        PROVE  TypeOK'
    <2>1. decisionEvents' \in [Decision -> [DecisionAction -> Nat]]
      BY <1>6, LogDecisionCounts DEF ProcessReject, TypeOK, DecisionAction
    <2>2. QED
      BY <1>6, <2>1 DEF ProcessReject, TypeOK
  <1>7. QED
    BY <1>1, <1>2, <1>3, <1>4, <1>5, <1>6 DEF Process

\* An item that was queued names its candidate.
LEMMA QueuedItem ==
  ASSUME TypeOK, NEW d \in Decision, items[d].status # "absent"
  PROVE  /\ items[d].candidate \in Identity
         /\ items[d].target \in Identity \union {None}
         /\ \A st \in {"pending", "rejected", "executed"} :
              [items EXCEPT ![d].status = st] \in [Decision -> Item]
  <1>1. items[d] \in [status    : {"pending", "rejected", "executed"},
                      candidate : Identity,
                      target    : Identity \union {None}]
    BY DEF TypeOK, Item, NoItem
  <1>2. ASSUME NEW st \in {"pending", "rejected", "executed"}
        PROVE  [items EXCEPT ![d].status = st] \in [Decision -> Item]
    <2>1. [items[d] EXCEPT !.status = st] \in Item
      BY <1>1 DEF Item
    <2>2. [items EXCEPT ![d] = [items[d] EXCEPT !.status = st]]
            \in [Decision -> Item]
      BY <2>1 DEF TypeOK
    <2>3. QED
      BY <2>2
  <1>3. QED
    BY <1>1, <1>2

LEMMA TypeApproval ==
  ASSUME TypeOK, NEW d \in Decision, items[d].status # "absent",
         ExecuteApproval(d)
  PROVE  TypeOK'
  <1>1. ExecutedTypes
    BY QueuedItem, TypeExecuteMerge, TypeExecutePromotion DEF ExecuteApproval
  <1>2. items' \in [Decision -> Item]
    BY QueuedItem DEF ExecuteApproval
  <1>3. decisionEvents' \in [Decision -> [DecisionAction -> Nat]]
    BY LogDecisionCounts DEF ExecuteApproval, TypeOK, DecisionAction
  <1>4. QED
    BY <1>1, <1>2, <1>3 DEF ExecutedTypes, TypeOK

LEMMA TypeRejection ==
  ASSUME TypeOK, NEW d \in Decision, items[d].status # "absent",
         ExecuteRejection(d)
  PROVE  TypeOK'
  <1>1. items' \in [Decision -> Item]
    BY QueuedItem DEF ExecuteRejection
  <1>2. decisionEvents' \in [Decision -> [DecisionAction -> Nat]]
    BY LogDecisionCounts DEF ExecuteRejection, TypeOK, DecisionAction
  <1>3. QED
    BY <1>1, <1>2 DEF ExecuteRejection, TypeOK

\* The fields of a record of the sequence.
LEMMA RecordFields ==
  ASSUME TypeOK, NEW k \in DOMAIN records
  PROVE  /\ records[k].decision \in Decision
         /\ records[k].source \in Identity
         /\ records[k].target \in Identity
         /\ records[k].moved \in SUBSET Entity
  <1>1. records[k] \in MergeRecord
    BY DEF TypeOK
  <1>2. QED
    BY <1>1 DEF MergeRecord

\* Reverting a record of the sequence keeps the others.
LEMMA SplitRecords ==
  ASSUME TypeOK, NEW k \in DOMAIN records
  PROVE  /\ records[k] \in MergeRecord
         /\ SplitRecord(k) \in Seq(MergeRecord)
         /\ DOMAIN SplitRecord(k) = DOMAIN records
         /\ SplitRecord(k)[k] = [records[k] EXCEPT !.reverted = TRUE]
         /\ \A l \in DOMAIN records : l # k => SplitRecord(k)[l] = records[l]
  <1>1. records[k] \in MergeRecord
    BY DEF TypeOK
  <1>2. [records[k] EXCEPT !.reverted = TRUE] \in MergeRecord
    BY <1>1 DEF MergeRecord
  <1>3. SplitRecord(k) = [records EXCEPT ![k] = [records[k] EXCEPT !.reverted = TRUE]]
    BY DEF SplitRecord
  <1>4. QED
    BY <1>1, <1>2, <1>3 DEF TypeOK

LEMMA TypeSplit ==
  ASSUME TypeOK, NEW k \in DOMAIN records, Split(k)
  PROVE  TypeOK'
  <1> DEFINE r == records[k]
             links == Visible(entities[r.source], r.moved)
  <1>1. r \in MergeRecord
    BY SplitRecords
  <1>2. /\ r.source \in Identity
        /\ r.target \in Identity
        /\ r.decision \in Decision
        /\ r.moved \in SUBSET Entity
    BY <1>1 DEF MergeRecord
  <1>3. PICK v \in SplitScopes(links) :
          LET basis == Evidence(links, v)
          IN /\ confidence' = [confidence EXCEPT ![r.source] = basis]
             /\ status' = [status EXCEPT ![r.source] =
                             StatusAfter("tentative", basis)]
             /\ LogIdentity(PromotionEvents(r.source, "tentative", basis)
                              \o <<Event("split", r.source, r.source, r.target)>>)
    BY DEF Split
  <1> DEFINE basis == Evidence(links, v)
  <1>4. basis \in SUBSET Basis
    BY <1>2, VisibleType, EvidenceType DEF TypeOK
  <1>5. StatusAfter("tentative", basis) \in Status
    BY StatusAfterType DEF Status
  <1>6. /\ entities' = LinksAfterSplit(r)
        /\ confidence' = [confidence EXCEPT ![r.source] = basis]
        /\ status' = [status EXCEPT ![r.source] = StatusAfter("tentative", basis)]
        /\ mergedInto' = PointerCleared(r)
        /\ records' = SplitRecord(k)
        /\ LogIdentity(PromotionEvents(r.source, "tentative", basis)
                         \o <<Event("split", r.source, r.source, r.target)>>)
        /\ LogDecision(r.decision, {"reverted"})
        /\ UNCHANGED <<items, observations>>
    BY <1>3 DEF Split
  <1>7. identityEvents' \in Seq(IdentityEvent)
    <2>1. PromotionEvents(r.source, "tentative", basis) \in Seq(IdentityEvent)
      BY <1>2, PromotionEventsType
    <2>2. Event("split", r.source, r.source, r.target) \in IdentityEvent
      BY <1>2, EventType
    <2>3. QED
      BY <1>6, <2>1, <2>2, LogTwoType DEF TypeOK
  <1>8. decisionEvents' \in [Decision -> [DecisionAction -> Nat]]
    BY <1>2, <1>6, LogDecisionCounts DEF TypeOK, DecisionAction
  <1>9. records' \in Seq(MergeRecord)
    BY <1>6, SplitRecords
  <1> HIDE DEF r, links, basis
  <1>10. entities' \in [Identity -> SUBSET Entity]
    BY <1>2, <1>6 DEF TypeOK, LinksAfterSplit
  <1>11. QED
    BY <1>2, <1>4, <1>5, <1>6, <1>7, <1>8, <1>9, <1>10
       DEF TypeOK, PointerCleared

LEMMA TypeNext == TypeOK /\ [Next]_vars => TypeOK'
  <1> SUFFICES ASSUME TypeOK, [Next]_vars
               PROVE  TypeOK'
    OBVIOUS
  <1>0. CASE Observe
    BY <1>0, TypeObserve
  <1>1. CASE Resolve
    BY <1>1, TypeResolve
  <1>2. CASE \E i \in Identity : Dispute(i)
    BY <1>2, TypeDispute
  <1>3. CASE \E d \in Decision : Process(d)
    BY <1>3, TypeProcess
  <1>4. CASE \E d \in Decision : Approve(d)
    BY <1>4, TypeApproval DEF Approve
  <1>5. CASE \E d \in Decision : Reject(d)
    BY <1>5, TypeRejection DEF Reject
  <1>6. CASE \E k \in 1..Len(records) : Split(k)
    <2>1. DOMAIN records = 1..Len(records)
      BY DEF TypeOK
    <2>2. QED
      BY <1>6, <2>1, TypeSplit
  <1>7. CASE UNCHANGED vars
    BY <1>7 DEF vars, TypeOK
  <1>8. QED
    BY <1>0, <1>1, <1>2, <1>3, <1>4, <1>5, <1>6, <1>7 DEF Next

\* Every variable keeps its type: in particular every review item that was
\* queued names a candidate and every merge record names two identities.
THEOREM TypeCorrect == Spec => []TypeOK
  <1>1. Init => TypeOK
    BY TypeInit
  <1>2. TypeOK /\ [Next]_vars => TypeOK'
    BY TypeNext
  <1>3. QED
    BY <1>1, <1>2, PTL DEF Spec

-----------------------------------------------------------------------------
(* Tombstones, chains of merges and the records splits rely on.            *)
(*                                                                         *)
(* TombstonesOwnNothing keeps a tombstone out of every later merge, since  *)
(* both sides of a merge own an entity; that is what keeps merged_into     *)
(* acyclic, and what keeps the source of a merge in force empty.           *)

\* A row that does not exist is referred to by nothing.
AbsentIsBlank ==
  /\ \A i \in Identity :
       status[i] = "absent" => mergedInto[i] = None /\ entities[i] = {}
  /\ \A k \in DOMAIN records : status[records[k].source] # "absent"

Structure ==
  /\ TypeOK
  /\ AbsentIsBlank
  /\ TombstonesOwnNothing
  /\ MergesEnd
  /\ SplitsCannotConflict

LEMMA StructureInit == Init => Structure
  <1> SUFFICES ASSUME Init PROVE Structure
    OBVIOUS
  <1>1. TypeOK
    BY TypeInit
  <1>2. AbsentIsBlank
    BY DEF Init, AbsentIsBlank
  <1>3. TombstonesOwnNothing
    BY DEF Init, TombstonesOwnNothing
  <1>4. MergesEnd
    <2> SUFFICES ASSUME NEW S \in SUBSET Identity, S # {}
                 PROVE  \E i \in S : mergedInto[i] \notin S
      BY DEF MergesEnd
    <2>1. None \notin S
      BY ConstantsAssumption
    <2>2. QED
      BY <2>1 DEF Init
  <1>5. SplitsCannotConflict
    BY DEF Init, SplitsCannotConflict
  <1>6. QED
    BY <1>1, <1>2, <1>3, <1>4, <1>5 DEF Structure

\* A status that is not "merged" and not "absent" stays so when it is
\* recomputed.
LEMMA StatusAfterKeeps ==
  ASSUME NEW st, NEW S
  PROVE  /\ StatusAfter(st, S) = "merged" <=> st = "merged"
         /\ StatusAfter(st, S) = "absent" <=> st = "absent"
  BY DEF StatusAfter, Promotes

LEMMA StructureResolve ==
  ASSUME Structure, Resolve
  PROVE  Structure'
  <1>0. TypeOK /\ TypeOK'
    BY TypeResolve DEF Structure
  <1>1. ASSUME NEW v \in Investigation, ResolveExisting(v)
        PROVE  Structure'
    <2>1. PICK i \in Identity :
            /\ status' = [status EXCEPT ![i] =
                            StatusAfter(@, Evidence(entities[i], v))]
            /\ UNCHANGED <<mergedInto, entities, records>>
      BY <1>1 DEF ResolveExisting, MatchedIn, Matching
    <2>2. \A j \in Identity : /\ status'[j] = "merged" <=> status[j] = "merged"
                              /\ status'[j] = "absent" <=> status[j] = "absent"
      BY <1>0, <2>1, StatusAfterKeeps DEF TypeOK
    <2>3. \A k \in DOMAIN records : records[k].source \in Identity
      BY <1>0, RecordFields
    <2>4. AbsentIsBlank'
      BY <2>1, <2>2, <2>3 DEF Structure, AbsentIsBlank
    <2>5. TombstonesOwnNothing'
      BY <2>1, <2>2 DEF Structure, TombstonesOwnNothing
    <2>6. MergesEnd' /\ SplitsCannotConflict'
      BY <2>1 DEF Structure, MergesEnd, SplitsCannotConflict
    <2>7. QED
      BY <1>0, <2>4, <2>5, <2>6 DEF Structure
  <1>2. ASSUME NEW v \in Investigation, NEW S \in CandidatesIn(v),
               ResolveNew(v, S)
        PROVE  Structure'
    <2>1. PICK i \in Identity :
            /\ status[i] = "absent"
            /\ entities' = [entities EXCEPT ![i] = S]
            /\ status' = [status EXCEPT ![i] =
                            StatusAfter("tentative", Evidence(Visible({}, S), v))]
            /\ UNCHANGED <<mergedInto, records>>
      BY <1>2 DEF ResolveNew, Exists
    <2>2. status'[i] # "merged" /\ status'[i] # "absent"
      BY <1>0, <2>1, StatusAfterKeeps DEF TypeOK
    <2>3. \A j \in Identity : j # i => /\ status'[j] = status[j]
                                       /\ entities'[j] = entities[j]
      BY <1>0, <2>1 DEF TypeOK
    <2>4. \A k \in DOMAIN records : /\ records[k].source \in Identity
                                    /\ records[k].source # i
      BY <1>0, <2>1, RecordFields DEF Structure, AbsentIsBlank
    <2>5. mergedInto[i] = None
      BY <2>1 DEF Structure, AbsentIsBlank
    <2>6. AbsentIsBlank'
      BY <2>1, <2>2, <2>3, <2>4 DEF Structure, AbsentIsBlank
    <2>7. TombstonesOwnNothing'
      BY <2>1, <2>2, <2>3, <2>5 DEF Structure, TombstonesOwnNothing
    <2>8. MergesEnd'
      BY <2>1 DEF Structure, MergesEnd
    <2>9. SplitsCannotConflict'
      BY <2>1, <2>3, <2>4 DEF Structure, SplitsCannotConflict
    <2>10. QED
      BY <1>0, <2>6, <2>7, <2>8, <2>9 DEF Structure
  <1>3. QED
    BY <1>1, <1>2 DEF Resolve

\* What a step needs to leave alone when it only changes statuses.
LEMMA StructureStatusOnly ==
  ASSUME Structure, TypeOK',
         NEW i \in Identity, status[i] # "absent",
         NEW st \in (Status \ {"absent", "merged"}) \union {status[i]},
         status' = [status EXCEPT ![i] = st],
         UNCHANGED <<mergedInto, entities, records>>
  PROVE  Structure'
  <1>1. \A j \in Identity : /\ status'[j] = "merged" => status[j] = "merged"
                            /\ status'[j] = "absent" <=> status[j] = "absent"
    BY DEF Structure, TypeOK
  <1>2. \A k \in DOMAIN records : records[k].source \in Identity
    BY RecordFields DEF Structure
  <1>3. AbsentIsBlank'
    BY <1>1, <1>2 DEF Structure, AbsentIsBlank
  <1>4. TombstonesOwnNothing'
    BY <1>1 DEF Structure, TombstonesOwnNothing
  <1>5. MergesEnd' /\ SplitsCannotConflict'
    BY DEF Structure, MergesEnd, SplitsCannotConflict
  <1>6. QED
    BY <1>3, <1>4, <1>5 DEF Structure

LEMMA StructureUnchanged ==
  ASSUME Structure, TypeOK', UNCHANGED <<status, mergedInto, entities, records>>
  PROVE  Structure'
  BY DEF Structure, AbsentIsBlank, TombstonesOwnNothing, MergesEnd,
         SplitsCannotConflict

LEMMA StructurePromotion ==
  ASSUME Structure, TypeOK', NEW i \in Identity, ExecutePromotion(i)
  PROVE  Structure'
  <1>1. ManuallyPromoted(status[i])
          \in (Status \ {"absent", "merged"}) \union {status[i]}
    BY DEF ManuallyPromoted, Status
  <1>2. /\ status[i] # "absent"
        /\ status' = [status EXCEPT ![i] = ManuallyPromoted(status[i])]
        /\ UNCHANGED <<mergedInto, entities, records>>
    BY DEF ExecutePromotion, Exists
  <1>3. QED
    BY <1>1, <1>2, StructureStatusOnly

\* Appending a record whose source exists.
LEMMA AppendedRecord ==
  ASSUME TypeOK, NEW d \in Decision, NEW s \in Identity, NEW t \in Identity
  PROVE  /\ DOMAIN Record(d, s, t) = DOMAIN records \union {Len(records) + 1}
         /\ Len(records) + 1 \notin DOMAIN records
         /\ \A k \in DOMAIN records : Record(d, s, t)[k] = records[k]
         /\ Record(d, s, t)[Len(records) + 1] =
              [decision |-> d, source |-> s, target |-> t,
               moved |-> entities[s], targetHad |-> entities[t],
               reverted |-> FALSE]
  BY DEF TypeOK, Record

LEMMA StructureMerge ==
  ASSUME Structure, TypeOK', NEW d \in Decision,
         NEW s \in Identity, NEW t \in Identity, ExecuteMerge(d, s, t)
  PROVE  Structure'
  <1> DEFINE n == Len(records) + 1
  <1>0. PICK v \in ScopesOf(s) :
          /\ Mergeable(s, t, v)
          /\ records' = Record(d, s, t)
          /\ entities' = LinksAfterMerge(s, t)
          /\ status' = [status EXCEPT ![s] = "merged",
               ![t] = StatusAfter(@, Evidence(Visible(entities[t], entities[s]), v))]
          /\ mergedInto' = [mergedInto EXCEPT ![s] = t]
    BY DEF ExecuteMerge
  <1>1. /\ TypeOK
        /\ records' = Record(d, s, t)
        /\ entities' = [entities EXCEPT ![s] = {}, ![t] = @ \union entities[s]]
        /\ status' = [status EXCEPT ![s] = "merged",
             ![t] = StatusAfter(@, Evidence(Visible(entities[t], entities[s]), v))]
        /\ mergedInto' = [mergedInto EXCEPT ![s] = t]
        /\ s # t
        /\ status[s] # "absent" /\ status[t] # "absent"
    BY <1>0 DEF Structure, Mergeable, LinksAfterMerge, Exists
  <1>2. entities[s] # {} /\ entities[t] # {}
    BY <1>0 DEF Mergeable, ScopesOf, LinkedTo
  <1>3. mergedInto[s] = None /\ mergedInto[t] = None
    BY <1>2 DEF Structure, TombstonesOwnNothing
  <1>4. /\ status'[s] = "merged"
        /\ status'[t] # "absent"
        /\ status'[t] = "merged" => status[t] = "merged"
        /\ \A i \in Identity : i \notin {s, t} => status'[i] = status[i]
    BY <1>1, StatusAfterKeeps DEF TypeOK
  <1>5. /\ entities'[s] = {}
        /\ \A i \in Identity : i \notin {s, t} => entities'[i] = entities[i]
    BY <1>1 DEF TypeOK
  <1>6. /\ mergedInto'[s] = t
        /\ \A i \in Identity : i # s => mergedInto'[i] = mergedInto[i]
    BY <1>1 DEF TypeOK
  <1>7. \A k \in DOMAIN records : records[k].source \in Identity
    BY <1>1, RecordFields
  <1>8. /\ DOMAIN records' = DOMAIN records \union {n}
        /\ n \notin DOMAIN records
        /\ \A k \in DOMAIN records : records'[k] = records[k]
        /\ records'[n].source = s
        /\ records'[n].moved = entities[s]
        /\ records'[n].reverted = FALSE
    <2> DEFINE new == [decision |-> d, source |-> s, target |-> t,
                       moved |-> entities[s], targetHad |-> entities[t],
                       reverted |-> FALSE]
    <2>1. /\ DOMAIN records' = DOMAIN records \union {n}
          /\ n \notin DOMAIN records
          /\ \A k \in DOMAIN records : records'[k] = records[k]
          /\ records'[n] = new
      BY <1>1, AppendedRecord
    <2>2. /\ new.source = s
          /\ new.moved = entities[s]
          /\ new.reverted = FALSE
      OBVIOUS
    <2> HIDE DEF new
    <2>3. QED
      BY <2>1, <2>2
  <1> HIDE DEF n
  <1>9. AbsentIsBlank'
    <2>1. \A i \in Identity :
            status'[i] = "absent" => mergedInto'[i] = None /\ entities'[i] = {}
      BY <1>4, <1>5, <1>6 DEF Structure, AbsentIsBlank
    <2>2. \A k \in DOMAIN records' : status'[records'[k].source] # "absent"
      BY <1>4, <1>7, <1>8 DEF Structure, AbsentIsBlank
    <2>3. QED
      BY <2>1, <2>2 DEF AbsentIsBlank
  <1>10. TombstonesOwnNothing'
    <2>1. None # t
      BY ConstantsAssumption
    <2>2. QED
      BY <1>3, <1>4, <1>5, <1>6, <2>1 DEF Structure, TombstonesOwnNothing
  <1>11. MergesEnd'
    <2> SUFFICES ASSUME NEW S \in SUBSET Identity, S # {}
                 PROVE  \E i \in S : mergedInto'[i] \notin S
      BY DEF MergesEnd
    <2>1. CASE t \in S
      <3>1. None \notin S
        BY ConstantsAssumption
      <3>2. QED
        BY <1>1, <1>3, <1>6, <2>1, <3>1
    <2>2. CASE t \notin S /\ s \in S
      BY <1>6, <2>2
    <2>3. CASE s \notin S
      BY <1>6, <2>3 DEF Structure, MergesEnd
    <2>4. QED
      BY <2>1, <2>2, <2>3
  <1>12. SplitsCannotConflict'
    \* A record in force has a source that owns nothing, so it is neither s
    \* nor t.
    <2>1. \A k \in DOMAIN records :
            (~records[k].reverted /\ records[k].moved # {}) =>
              records[k].source \notin {s, t}
      BY <1>2 DEF Structure, SplitsCannotConflict
    <2>2. QED
      BY <1>5, <1>7, <1>8, <2>1 DEF Structure, SplitsCannotConflict
  <1>13. QED
    BY <1>9, <1>10, <1>11, <1>12 DEF Structure

\* A merge record without links, left behind by a merge that failed.
LEMMA StructureOrphanRecord ==
  ASSUME Structure, TypeOK', NEW d \in Decision,
         NEW s \in Identity, NEW t \in Identity,
         Exists(s), entities[s] = {}, records' = Record(d, s, t),
         UNCHANGED <<status, mergedInto, entities>>
  PROVE  Structure'
  <1> DEFINE n == Len(records) + 1
             new == [decision |-> d, source |-> s, target |-> t,
                     moved |-> entities[s], targetHad |-> entities[t],
                     reverted |-> FALSE]
  <1>1. /\ DOMAIN records' = DOMAIN records \union {n}
        /\ \A k \in DOMAIN records : records'[k] = records[k]
        /\ records'[n] = new
    BY AppendedRecord DEF Structure
  <1>2. new.source = s /\ new.moved = {}
    OBVIOUS
  <1> HIDE DEF n, new
  <1>3. AbsentIsBlank'
    BY <1>1, <1>2 DEF Structure, AbsentIsBlank, Exists
  <1>4. TombstonesOwnNothing' /\ MergesEnd'
    BY DEF Structure, TombstonesOwnNothing, MergesEnd
  <1>5. SplitsCannotConflict'
    BY <1>1, <1>2 DEF Structure, SplitsCannotConflict
  <1>6. QED
    BY <1>3, <1>4, <1>5 DEF Structure

LEMMA StructureProcess ==
  ASSUME Structure, TypeOK', NEW d \in Decision, Process(d)
  PROVE  Structure'
  <1>1. ASSUME NEW s \in Identity, NEW t \in Identity, ProcessAutoMerge(d, s, t)
        PROVE  Structure'
    BY <1>1, StructureMerge DEF ProcessAutoMerge
  <1>2. ASSUME NEW s \in Identity, NEW t \in Identity,
               ProcessAutoMergeFails(d, s, t)
        PROVE  Structure'
    <2>1. CASE UNCHANGED records
      BY <1>2, <2>1, StructureUnchanged DEF ProcessAutoMergeFails
    <2>2. CASE /\ Exists(s) /\ ScopesOf(s) = {}
               /\ records' = Record(d, s, t)
      <3>1. entities[s] \subseteq Entity
        BY DEF Structure, TypeOK
      <3>2. \A e \in Entity : InvestigationsOf[e] # {}
        BY ConstantsAssumption DEF ConstantsAssumption
      <3>3. entities[s] = {}
        BY <2>2, <3>1, <3>2 DEF ScopesOf, LinkedTo
      <3>4. QED
        BY <1>2, <2>2, <3>3, StructureOrphanRecord DEF ProcessAutoMergeFails
    <2>3. QED
      BY <1>2, <2>1, <2>2 DEF ProcessAutoMergeFails
  <1>3. ASSUME NEW i \in Identity, ProcessPromotion(d, i)
        PROVE  Structure'
    BY <1>3, StructurePromotion DEF ProcessPromotion
  <1>4. ASSUME \/ \E i \in Identity : ProcessPromotionFails(d, i)
               \/ \E s \in Identity, t \in Identity \union {None} :
                    ProcessQueue(d, s, t)
               \/ ProcessReject(d)
        PROVE  Structure'
    <2>1. UNCHANGED <<status, mergedInto, entities, records>>
      BY <1>4 DEF ProcessPromotionFails, ProcessQueue, ProcessReject
    <2>2. QED
      BY <2>1, StructureUnchanged
  <1>5. QED
    BY <1>1, <1>2, <1>3, <1>4 DEF Process

LEMMA StructureSplit ==
  ASSUME Structure, TypeOK', NEW k \in DOMAIN records, Split(k)
  PROVE  Structure'
  <1> DEFINE s == records[k].source
             t == records[k].target
             moved == records[k].moved
             links == Visible(entities[s], moved)
  <1>1. TypeOK /\ s \in Identity /\ t \in Identity
    BY RecordFields DEF Structure
  <1>2. PICK v \in SplitScopes(links) :
        /\ status[s] # "absent" /\ status[t] # "absent"
        /\ ~records[k].reverted
        /\ entities' = [entities EXCEPT ![t] = @ \ moved, ![s] = @ \union moved]
        /\ status' = [status EXCEPT ![s] =
                        StatusAfter("tentative", Evidence(links, v))]
        /\ mergedInto' = [mergedInto EXCEPT ![s] = None]
        /\ records' = SplitRecord(k)
    BY DEF Split, LinksAfterSplit, PointerCleared, Exists
  <1>3. /\ DOMAIN records' = DOMAIN records
        /\ \A l \in DOMAIN records : l # k => records'[l] = records[l]
        /\ records'[k] = [records[k] EXCEPT !.reverted = TRUE]
    BY <1>1, <1>2, SplitRecords
  <1>4. /\ records'[k].reverted = TRUE
        /\ records'[k].source = s
    <2>1. records[k] \in MergeRecord
      BY <1>1, SplitRecords
    <2>2. QED
      BY <1>3, <2>1 DEF MergeRecord
  <1>5. \A l \in DOMAIN records : records[l].source \in Identity
    BY <1>1, RecordFields
  <1>6. moved # {} =>
          \A l \in DOMAIN records :
            (l # k /\ ~records[l].reverted /\ records[l].moved # {}) =>
              records[l].source # s
    BY <1>2 DEF Structure, SplitsCannotConflict
  <1> HIDE DEF s, t, moved, links
  <1>7. /\ status'[s] # "merged" /\ status'[s] # "absent"
        /\ \A i \in Identity : i # s => status'[i] = status[i]
    BY <1>1, <1>2, StatusAfterKeeps DEF TypeOK
  <1>8. /\ entities'[s] \subseteq entities[s] \union moved
        /\ \A i \in Identity : i # s => entities'[i] \subseteq entities[i]
    BY <1>1, <1>2 DEF TypeOK
  <1>9. /\ mergedInto'[s] = None
        /\ \A i \in Identity : i # s => mergedInto'[i] = mergedInto[i]
    BY <1>1, <1>2 DEF TypeOK
  <1>10. AbsentIsBlank'
    <2>1. \A i \in Identity :
            status'[i] = "absent" => mergedInto'[i] = None /\ entities'[i] = {}
      BY <1>7, <1>8, <1>9 DEF Structure, AbsentIsBlank
    <2>2. \A l \in DOMAIN records : status'[records'[l].source] # "absent"
      BY <1>3, <1>4, <1>5, <1>7 DEF Structure, AbsentIsBlank
    <2>3. QED
      BY <1>3, <2>1, <2>2 DEF AbsentIsBlank
  <1>11. TombstonesOwnNothing'
    BY <1>7, <1>8, <1>9 DEF Structure, TombstonesOwnNothing
  <1>12. MergesEnd'
    <2> SUFFICES ASSUME NEW S \in SUBSET Identity, S # {}
                 PROVE  \E i \in S : mergedInto'[i] \notin S
      BY DEF MergesEnd
    <2>1. CASE s \in S
      <3>1. None \notin S
        BY ConstantsAssumption DEF ConstantsAssumption
      <3>2. QED
        BY <1>9, <2>1, <3>1
    <2>2. CASE s \notin S
      BY <1>9, <2>2 DEF Structure, MergesEnd
    <2>3. QED
      BY <2>1, <2>2
  <1>13. SplitsCannotConflict'
    <2> SUFFICES ASSUME NEW l \in DOMAIN records,
                        ~records'[l].reverted, records'[l].moved # {}
                 PROVE  /\ entities'[records'[l].source] = {}
                        /\ \A m \in DOMAIN records :
                             (/\ m # l
                              /\ ~records'[m].reverted
                              /\ records'[m].moved # {}) =>
                               records'[m].source # records'[l].source
      BY <1>3 DEF SplitsCannotConflict
    <2>1. /\ l # k /\ records'[l] = records[l]
          /\ ~records[l].reverted /\ records[l].moved # {}
      BY <1>3, <1>4
    <2>2. entities[records[l].source] = {}
      BY <2>1 DEF Structure, SplitsCannotConflict
    <2>3. entities'[records[l].source] = {}
      BY <1>5, <1>6, <1>8, <2>1, <2>2
    <2>4. \A m \in DOMAIN records :
            (m # l /\ ~records'[m].reverted /\ records'[m].moved # {}) =>
              records'[m].source # records[l].source
      <3> SUFFICES ASSUME NEW m \in DOMAIN records, m # l,
                          ~records'[m].reverted, records'[m].moved # {}
                   PROVE  records'[m].source # records[l].source
        OBVIOUS
      <3>1. m # k
        BY <1>4
      <3>2. records'[m] = records[m]
        BY <1>3, <3>1
      <3>3. QED
        BY <2>1, <3>2 DEF Structure, SplitsCannotConflict
    <2>5. QED
      BY <2>1, <2>3, <2>4
  <1>14. QED
    BY <1>10, <1>11, <1>12, <1>13 DEF Structure

LEMMA StructureNext == Structure /\ [Next]_vars => Structure'
  <1> SUFFICES ASSUME Structure, [Next]_vars
               PROVE  Structure'
    OBVIOUS
  <1>0. TypeOK /\ TypeOK'
    BY TypeNext DEF Structure
  <1>1. CASE Resolve
    BY <1>1, StructureResolve
  <1>2. CASE \E i \in Identity : Dispute(i)
    <2>1. PICK i \in Identity : Dispute(i)
      BY <1>2
    <2>2. "disputed" \in (Status \ {"absent", "merged"}) \union {status[i]}
      BY DEF Status
    <2>3. /\ status[i] # "absent"
          /\ status' = [status EXCEPT ![i] = "disputed"]
          /\ UNCHANGED <<mergedInto, entities, records>>
      BY <2>1 DEF Dispute, Exists
    <2>4. QED
      BY <1>0, <2>2, <2>3, StructureStatusOnly
  <1>3. CASE \E d \in Decision : Process(d)
    BY <1>0, <1>3, StructureProcess
  <1>4. CASE \E d \in Decision : Approve(d)
    <2>1. PICK d \in Decision : items[d].status = "pending" /\ ExecuteApproval(d)
      BY <1>4 DEF Approve
    <2>2. /\ items[d].candidate \in Identity
          /\ items[d].target \in Identity \union {None}
      BY <1>0, <2>1, QueuedItem
    <2>3. CASE ExecutePromotion(items[d].candidate)
      BY <1>0, <2>2, <2>3, StructurePromotion
    <2>4. CASE /\ items[d].target # None
               /\ ExecuteMerge(d, items[d].candidate, items[d].target)
      BY <1>0, <2>2, <2>4, StructureMerge
    <2>5. QED
      BY <2>1, <2>3, <2>4 DEF ExecuteApproval
  <1>5. CASE \E d \in Decision : Reject(d)
    BY <1>0, <1>5, StructureUnchanged DEF Reject, ExecuteRejection
  <1>6. CASE \E k \in 1..Len(records) : Split(k)
    <2>1. DOMAIN records = 1..Len(records)
      BY <1>0 DEF TypeOK
    <2>2. QED
      BY <1>0, <1>6, <2>1, StructureSplit
  <1>7. CASE UNCHANGED vars
    BY <1>0, <1>7, StructureUnchanged DEF vars
  <1>8. CASE Observe
    BY <1>0, <1>8, StructureUnchanged DEF Observe
  <1>9. QED
    BY <1>1, <1>2, <1>3, <1>4, <1>5, <1>6, <1>7, <1>8 DEF Next

LEMMA StructureAlways == Spec => []Structure
  <1>1. QED
    BY StructureInit, StructureNext, PTL DEF Spec

\* Over any history of merges, splits, disputes and promotions, a tombstone
\* owns no entity.
THEOREM Tombstones == Spec => []TombstonesOwnNothing
  <1>1. Structure => TombstonesOwnNothing
    BY DEF Structure
  <1>2. QED
    BY <1>1, StructureAlways, PTL

\* Merging never closes a cycle: the survivor of a merge is live when it is
\* merged into, so no set of identities points only into itself.
THEOREM MergeChainsEnd == Spec => []MergesEnd
  <1>1. Structure => MergesEnd
    BY DEF Structure
  <1>2. QED
    BY <1>1, StructureAlways, PTL

\* A split never meets a link its source already has, however many merges
\* and splits came in between.
THEOREM SplitsAreConflictFree == Spec => []SplitsCannotConflict
  <1>1. Structure => SplitsCannotConflict
    BY DEF Structure
  <1>2. QED
    BY <1>1, StructureAlways, PTL

-----------------------------------------------------------------------------
(* What the audit trail of a decision says, for every number of decisions, *)
(* and what no step of IdentityLifecycle does.                             *)

\* The trail of a decision against the status of its review item.
TrailOf(n, st) ==
  /\ n["requested"] <= 1
  /\ n["executed"] + n["rejected"] <= 1
  /\ st = "pending" =>
       n["approved"] = 0 /\ n["executed"] = 0 /\ n["rejected"] = 0
  /\ st = "executed" =>
       n["approved"] = 1 /\ n["executed"] = 1 /\ n["rejected"] = 0
  /\ st = "rejected" =>
       n["approved"] = 0 /\ n["executed"] = 0 /\ n["rejected"] = 1
  /\ st = "absent" => n["approved"] = 0
  \* A decision with a review item was requested, so process skips it.
  /\ st # "absent" => n["requested"] = 1

Trails ==
  /\ TypeOK
  /\ \A d \in Decision : TrailOf(decisionEvents[d], items[d].status)

LEMMA TrailsInit == Init => Trails
  <1> SUFFICES ASSUME Init PROVE Trails
    OBVIOUS
  <1>1. TypeOK
    BY TypeInit
  <1>2. ASSUME NEW d \in Decision
        PROVE  TrailOf(decisionEvents[d], items[d].status)
    <2>1. items[d].status = "absent"
      BY DEF Init, NoItem
    <2>2. \A a \in DecisionAction : decisionEvents[d][a] = 0
      BY DEF Init
    <2>3. QED
      BY <2>1, <2>2 DEF TrailOf, DecisionAction
  <1>3. QED
    BY <1>1, <1>2 DEF Trails

\* The status of a review item is one of four.
LEMMA ItemStatus ==
  ASSUME TypeOK, NEW d \in Decision
  PROVE  items[d].status \in {"absent", "pending", "rejected", "executed"}
  BY DEF TypeOK, Item, NoItem

\* A step that writes events of one decision and changes at most its item
\* leaves the trails of the others alone.
LEMMA OtherTrails ==
  ASSUME Trails, TypeOK', NEW d \in Decision, NEW A \in SUBSET DecisionAction,
         LogDecision(d, A),
         \A e \in Decision : e # d => items'[e].status = items[e].status,
         TrailOf(decisionEvents'[d], items'[d].status)
  PROVE  Trails'
  <1>1. decisionEvents \in [Decision -> [DecisionAction -> Nat]]
    BY DEF Trails, TypeOK
  <1>2. \A e \in Decision : e # d => decisionEvents'[e] = decisionEvents[e]
    BY <1>1, LogDecisionCounts
  <1>3. \A e \in Decision : TrailOf(decisionEvents[e], items[e].status)
    BY DEF Trails
  <1>4. \A e \in Decision : TrailOf(decisionEvents'[e], items'[e].status)
    BY <1>2, <1>3
  <1>5. QED
    BY <1>4 DEF Trails

\* A decision without events has no review item that could be affected.
LEMMA UnprocessedTrail ==
  ASSUME Trails, NEW d \in Decision, Unprocessed(d)
  PROVE  items[d].status = "absent"
  BY DEF Trails, TrailOf, Unprocessed, DecisionAction

LEMMA TrailsProcess ==
  ASSUME Trails, TypeOK', NEW d \in Decision, Process(d)
  PROVE  Trails'
  <1>0. /\ TypeOK
        /\ decisionEvents \in [Decision -> [DecisionAction -> Nat]]
    BY DEF Trails, TypeOK
  <1>1. Unprocessed(d)
    BY DEF Process, ProcessAutoMerge, ProcessAutoMergeFails, ProcessPromotion,
           ProcessPromotionFails, ProcessQueue, ProcessReject
  <1>2. /\ items[d].status = "absent"
        /\ \A a \in DecisionAction : decisionEvents[d][a] = 0
    BY <1>1, UnprocessedTrail DEF Unprocessed
  <1>3. CASE \E A \in { {"requested", "evaluated", "executed"},
                        {"requested", "evaluated", "rejected"},
                        {"requested", "rejected"} } :
               LogDecision(d, A) /\ UNCHANGED items
    <2>1. PICK A \in { {"requested", "evaluated", "executed"},
                       {"requested", "evaluated", "rejected"},
                       {"requested", "rejected"} } :
               LogDecision(d, A) /\ UNCHANGED items
      BY <1>3
    <2>2. A \in SUBSET DecisionAction
      BY <2>1 DEF DecisionAction
    <2>3. \A a \in DecisionAction :
            decisionEvents'[d][a] = IF a \in A THEN 1 ELSE 0
      BY <1>0, <1>2, <2>1, <2>2, LogDecisionCounts
    <2>4. TrailOf(decisionEvents'[d], items'[d].status)
      BY <1>2, <2>1, <2>3 DEF TrailOf, DecisionAction
    <2>5. QED
      BY <2>1, <2>2, <2>4, OtherTrails
  <1>4. ASSUME NEW s \in Identity, NEW t \in Identity \union {None},
               ProcessQueue(d, s, t)
        PROVE  Trails'
    <2> DEFINE A == {"requested", "evaluated"}
    <2>1. /\ LogDecision(d, A)
          /\ items' = [items EXCEPT ![d] =
                         [status |-> "pending", candidate |-> s, target |-> t]]
      BY <1>4 DEF ProcessQueue
    <2>2. A \in SUBSET DecisionAction
      BY DEF DecisionAction
    <2>3. \A a \in DecisionAction :
            decisionEvents'[d][a] = IF a \in A THEN 1 ELSE 0
      BY <1>0, <1>2, <2>1, <2>2, LogDecisionCounts
    <2>4. /\ items'[d].status = "pending"
          /\ \A e \in Decision : e # d => items'[e].status = items[e].status
      BY <1>0, <2>1 DEF TypeOK
    <2>5. TrailOf(decisionEvents'[d], items'[d].status)
      BY <2>3, <2>4 DEF TrailOf, DecisionAction
    <2>6. QED
      BY <2>1, <2>2, <2>4, <2>5, OtherTrails
  <1>5. QED
    BY <1>3, <1>4 DEF Process, ProcessAutoMerge, ProcessAutoMergeFails,
           ProcessPromotion, ProcessPromotionFails, ProcessReject

\* A review ends a pending item, executed or rejected.
LEMMA TrailsReview ==
  ASSUME Trails, TypeOK', NEW d \in Decision, Approve(d) \/ Reject(d)
  PROVE  Trails'
  <1>0. /\ TypeOK
        /\ decisionEvents \in [Decision -> [DecisionAction -> Nat]]
    BY DEF Trails, TypeOK
  <1>1. /\ items[d].status = "pending"
        /\ TrailOf(decisionEvents[d], "pending")
    BY DEF Approve, Reject, Trails
  <1>2. PICK A \in SUBSET DecisionAction, st \in {"executed", "rejected"} :
          /\ LogDecision(d, A)
          /\ items' = [items EXCEPT ![d].status = st]
          /\ st = "executed" => A = {"approved", "evaluated", "executed"}
          /\ st = "rejected" => A = {"rejected"}
    <2>1. CASE Approve(d)
      <3>1. {"approved", "evaluated", "executed"} \in SUBSET DecisionAction
        BY DEF DecisionAction
      <3>2. QED
        BY <2>1, <3>1 DEF Approve, ExecuteApproval
    <2>2. CASE Reject(d)
      <3>1. {"rejected"} \in SUBSET DecisionAction
        BY DEF DecisionAction
      <3>2. QED
        BY <2>2, <3>1 DEF Reject, ExecuteRejection
    <2>3. QED
      BY <2>1, <2>2
  <1>3. \A a \in DecisionAction :
          /\ decisionEvents[d][a] \in Nat
          /\ decisionEvents'[d][a] = IF a \in A THEN decisionEvents[d][a] + 1
                                                ELSE decisionEvents[d][a]
    BY <1>0, <1>2, LogDecisionCounts
  <1>4. /\ items'[d].status = st
        /\ \A e \in Decision : e # d => items'[e].status = items[e].status
    BY <1>0, <1>2, QueuedItem, <1>1 DEF TypeOK
  <1>5. TrailOf(decisionEvents'[d], items'[d].status)
    BY <1>1, <1>2, <1>3, <1>4 DEF TrailOf, DecisionAction
  <1>6. QED
    BY <1>2, <1>4, <1>5, OtherTrails

LEMMA TrailsSplit ==
  ASSUME Trails, TypeOK', NEW k \in DOMAIN records, Split(k)
  PROVE  Trails'
  <1> DEFINE d == records[k].decision
  <1>0. /\ TypeOK
        /\ decisionEvents \in [Decision -> [DecisionAction -> Nat]]
    BY DEF Trails, TypeOK
  <1>1. d \in Decision
    BY <1>0, RecordFields
  <1>2. /\ LogDecision(d, {"reverted"})
        /\ UNCHANGED items
    BY DEF Split
  <1>3. {"reverted"} \in SUBSET DecisionAction
    BY DEF DecisionAction
  <1> HIDE DEF d
  <1>4. \A a \in DecisionAction :
          a # "reverted" => decisionEvents'[d][a] = decisionEvents[d][a]
    BY <1>0, <1>1, <1>2, <1>3, LogDecisionCounts
  <1>5. TrailOf(decisionEvents'[d], items'[d].status)
    BY <1>1, <1>2, <1>4 DEF Trails, TrailOf, DecisionAction
  <1>6. QED
    BY <1>1, <1>2, <1>3, <1>5, OtherTrails

LEMMA TrailsNext == Trails /\ [Next]_vars => Trails'
  <1> SUFFICES ASSUME Trails, [Next]_vars
               PROVE  Trails'
    OBVIOUS
  <1>0. TypeOK /\ TypeOK'
    BY TypeNext DEF Trails
  <1>1. CASE UNCHANGED <<items, decisionEvents>>
    BY <1>0, <1>1 DEF Trails
  <1>2. CASE Observe \/ Resolve
    BY <1>1, <1>2 DEF Observe, Resolve, ResolveExisting, ResolveNew
  <1>3. CASE \E i \in Identity : Dispute(i)
    BY <1>1, <1>3 DEF Dispute
  <1>4. CASE \E d \in Decision : Process(d)
    BY <1>0, <1>4, TrailsProcess
  <1>5. CASE \E d \in Decision : Approve(d) \/ Reject(d)
    BY <1>0, <1>5, TrailsReview
  <1>6. CASE \E k \in 1..Len(records) : Split(k)
    <2>1. DOMAIN records = 1..Len(records)
      BY <1>0 DEF TypeOK
    <2>2. QED
      BY <1>0, <1>6, <2>1, TrailsSplit
  <1>7. CASE UNCHANGED vars
    BY <1>1, <1>7 DEF vars
  <1>8. QED
    BY <1>2, <1>3, <1>4, <1>5, <1>6, <1>7 DEF Next

LEMMA TrailsAlways == Spec => []Trails
  <1>1. QED
    BY TrailsInit, TrailsNext, PTL DEF Spec

\* A decision is executed or rejected at most once, whichever of process and
\* the reviewers gets to it, and is requested at most once.
THEOREM DecisionsDecidedOnce == Spec => []DecidedOnce
  <1>1. Trails => DecidedOnce
    BY DEF Trails, TrailOf, DecidedOnce
  <1>2. QED
    BY <1>1, TrailsAlways, PTL

\* What a review item says is what the audit trail of its decision says.
THEOREM ReviewItemsMatchTrail == Spec => []ItemsMatchTrail
  <1>1. Trails => ItemsMatchTrail
    BY ItemStatus DEF Trails, TrailOf, ItemsMatchTrail
  <1>2. QED
    BY <1>1, TrailsAlways, PTL

-----------------------------------------------------------------------------
(* What steps do to links and statuses, and the promotion threshold.       *)


\* What a merge, whoever executes it, does to links.
LEMMA MergedLinks ==
  ASSUME TypeOK, NEW d \in Decision, NEW s \in Identity, NEW t \in Identity,
         ExecuteMerge(d, s, t)
  PROVE  /\ s # t
         /\ entities'[s] = {}
         /\ entities'[t] = entities[t] \union entities[s]
         /\ \A i \in Identity : i \notin {s, t} => entities'[i] = entities[i]
         /\ status'[s] = "merged"
         /\ \E v \in ScopesOf(s) :
              LET basis == Evidence(Visible(entities[t], entities[s]), v)
              IN  confidence'[t] = basis /\ status'[t] = StatusAfter(status[t], basis)
         /\ \A i \in Identity : i # t => confidence'[i] = confidence[i]
         /\ \A i \in Identity : i \notin {s, t} => status'[i] = status[i]
         /\ mergedInto'[s] = t
         /\ entities[s] # {}
  <1>1. PICK v \in ScopesOf(s) :
          LET basis == Evidence(Visible(entities[t], entities[s]), v)
          IN /\ Mergeable(s, t, v)
             /\ entities' = LinksAfterMerge(s, t)
             /\ confidence' = [confidence EXCEPT ![t] = basis]
             /\ status' = [status EXCEPT ![s] = "merged",
                                         ![t] = StatusAfter(@, basis)]
             /\ mergedInto' = [mergedInto EXCEPT ![s] = t]
    BY DEF ExecuteMerge
  <1> DEFINE basis == Evidence(Visible(entities[t], entities[s]), v)
  <1>2. s # t /\ entities[s] # {}
    BY <1>1 DEF Mergeable, ScopesOf, LinkedTo
  <1>3. entities' = [entities EXCEPT ![s] = {}, ![t] = @ \union entities[s]]
    BY <1>1 DEF LinksAfterMerge
  <1>4. /\ confidence' = [confidence EXCEPT ![t] = basis]
        /\ status' = [status EXCEPT ![s] = "merged", ![t] = StatusAfter(@, basis)]
    BY <1>1
  <1>5. confidence'[t] = basis /\ status'[t] = StatusAfter(status[t], basis)
    <2> HIDE DEF basis
    <2>1. QED
      BY <1>2, <1>4 DEF TypeOK
  <1>6. \E w \in ScopesOf(s) :
          LET seen == Evidence(Visible(entities[t], entities[s]), w)
          IN  confidence'[t] = seen /\ status'[t] = StatusAfter(status[t], seen)
    BY <1>5
  <1> HIDE DEF basis
  <1>7. QED
    BY <1>1, <1>2, <1>3, <1>4, <1>6 DEF TypeOK

\* What a split does to links; source and target may be the same identity.
LEMMA SplitLinks ==
  ASSUME TypeOK, NEW k \in DOMAIN records, Split(k),
         NEW s \in Identity, s = records[k].source,
         NEW t \in Identity, t = records[k].target,
         NEW moved \in SUBSET Entity, moved = records[k].moved
  PROVE  /\ entities'[s] = entities[s] \union moved
         /\ s # t => entities'[t] = entities[t] \ moved
         /\ \A i \in Identity : i \notin {s, t} => entities'[i] = entities[i]
         /\ \E v : LET basis == Evidence(Visible(entities[s], moved), v)
                   IN  /\ confidence'[s] = basis
                       /\ status'[s] = StatusAfter("tentative", basis)
         /\ \A i \in Identity : i # s => /\ status'[i] = status[i]
                                         /\ confidence'[i] = confidence[i]
         /\ ~records[k].reverted
         /\ records'[k].reverted
         /\ DOMAIN records' = DOMAIN records
  <1> DEFINE links == Visible(entities[s], moved)
  <1>0. PICK v \in SplitScopes(links) :
          LET basis == Evidence(links, v)
          IN /\ confidence' = [confidence EXCEPT ![s] = basis]
             /\ status' = [status EXCEPT ![s] = StatusAfter("tentative", basis)]
    BY DEF Split
  <1> DEFINE basis == Evidence(links, v)
  <1>1. /\ entities' = [entities EXCEPT ![t] = @ \ moved, ![s] = @ \union moved]
        /\ confidence' = [confidence EXCEPT ![s] = basis]
        /\ status' = [status EXCEPT ![s] = StatusAfter("tentative", basis)]
        /\ records' = SplitRecord(k)
        /\ ~records[k].reverted
    BY <1>0 DEF Split, LinksAfterSplit
  <1>2. records[k] \in MergeRecord
    BY SplitRecords
  <1>3. records'[k].reverted /\ DOMAIN records' = DOMAIN records
    BY <1>1, <1>2, SplitRecords DEF MergeRecord
  <1>4. \E w : LET seen == Evidence(Visible(entities[s], moved), w)
               IN  /\ confidence'[s] = seen
                   /\ status'[s] = StatusAfter("tentative", seen)
    <2>1. confidence'[s] = basis /\ status'[s] = StatusAfter("tentative", basis)
      <3> HIDE DEF basis
      <3>1. QED
        BY <1>1 DEF TypeOK
    <2>2. QED
      BY <2>1
  <1> HIDE DEF basis, links
  <1>5. QED
    BY <1>1, <1>3, <1>4 DEF TypeOK

\* The steps of Next by what they do to links and statuses.
LEMMA StepCases ==
  ASSUME TypeOK, [Next]_vars
  PROVE  \/ \E v \in Investigation : ResolveExisting(v)
         \/ \E v \in Investigation : \E S \in CandidatesIn(v) : ResolveNew(v, S)
         \/ \E d \in Decision, s, t \in Identity : ExecuteMerge(d, s, t)
         \/ \E i \in Identity : Dispute(i) \/ ExecutePromotion(i)
         \/ \E k \in DOMAIN records : Split(k)
         \/ UNCHANGED <<status, entities, mergedInto, confidence>>
  <1>0. CASE Observe
    BY <1>0 DEF Observe
  <1>1. CASE \E d \in Decision : Approve(d)
    <2>1. PICK d \in Decision : items[d].status = "pending" /\ ExecuteApproval(d)
      BY <1>1 DEF Approve
    <2>2. /\ items[d].candidate \in Identity
          /\ items[d].target # None => items[d].target \in Identity
      BY <2>1, QueuedItem
    <2>3. QED
      BY <2>1, <2>2 DEF ExecuteApproval
  <1>2. CASE \E d \in Decision : Process(d)
    BY <1>2 DEF Process, ProcessAutoMerge, ProcessAutoMergeFails,
           ProcessPromotion, ProcessPromotionFails, ProcessQueue, ProcessReject
  <1>3. CASE \E k \in 1..Len(records) : Split(k)
    <2>1. DOMAIN records = 1..Len(records)
      BY DEF TypeOK
    <2>2. QED
      BY <1>3, <2>1
  <1>4. CASE Resolve
    BY <1>4 DEF Resolve
  <1>5. CASE \E d \in Decision : Reject(d)
    BY <1>5 DEF Reject, ExecuteRejection
  <1>6. CASE UNCHANGED vars
    BY <1>6 DEF vars
  <1>7. QED
    BY <1>0, <1>1, <1>2, <1>3, <1>4, <1>5, <1>6 DEF Next

-----------------------------------------------------------------------------
\* Whatever an identity owned, some identity owns after the step.
LEMMA OwnedGrows ==
  ASSUME Structure, [Next]_vars
  PROVE  Owned \subseteq Owned'
  <1> SUFFICES ASSUME NEW e, NEW i \in Identity, e \in entities[i]
               PROVE  \E j \in Identity : e \in entities'[j]
    BY DEF Owned
  <1>0. TypeOK
    BY DEF Structure
  <1>1. CASE UNCHANGED entities
    BY <1>1
  <1>2. ASSUME NEW v \in Investigation, NEW S \in CandidatesIn(v),
               ResolveNew(v, S)
        PROVE  \E j \in Identity : e \in entities'[j]
    <2>1. PICK j \in Identity : status[j] = "absent"
                                /\ entities' = [entities EXCEPT ![j] = S]
      BY <1>2 DEF ResolveNew, Exists
    <2>2. entities[j] = {}
      BY <2>1 DEF Structure, AbsentIsBlank
    <2>3. QED
      BY <1>0, <2>1, <2>2 DEF TypeOK
  <1>3. ASSUME NEW d \in Decision, NEW s \in Identity, NEW t \in Identity,
               ExecuteMerge(d, s, t)
        PROVE  \E j \in Identity : e \in entities'[j]
    BY <1>0, <1>3, MergedLinks
  <1>4. ASSUME NEW k \in DOMAIN records, Split(k)
        PROVE  \E j \in Identity : e \in entities'[j]
    BY <1>0, <1>4, RecordFields, SplitLinks
  <1>5. QED
    BY <1>0, <1>1, <1>2, <1>3, <1>4, StepCases
       DEF ResolveExisting, Dispute, ExecutePromotion

\* No merge and no split loses an entity.
THEOREM EntitiesAreKept == Spec => NoEntityLost
  <1>1. Structure /\ [Next]_vars => [Owned \subseteq Owned']_vars
    BY OwnedGrows
  <1>2. QED
    BY <1>1, StructureAlways, PTL DEF Spec, NoEntityLost

-----------------------------------------------------------------------------
\* A status other than tentative is not changed by recomputing a confidence.
LEMMA DisputedStays ==
  ASSUME NEW S
  PROVE  /\ StatusAfter("disputed", S) = "disputed"
         /\ ManuallyPromoted("disputed") = "disputed"
  BY DEF StatusAfter, Promotes, ManuallyPromoted

LEMMA DisputeEnds ==
  ASSUME Structure, [Next]_vars,
         NEW i \in Identity, status[i] = "disputed", status'[i] # "disputed"
  PROVE  \/ mergedInto[i] = None /\ mergedInto'[i] # None
         \/ \E k \in DOMAIN records :
              /\ records[k].source = i
              /\ ~records[k].reverted /\ records'[k].reverted
  <1>0. TypeOK
    BY DEF Structure
  <1>1. ASSUME NEW v, ResolveExisting(v)
        PROVE  FALSE
    BY <1>0, <1>1, DisputedStays DEF ResolveExisting, MatchedIn, Matching, TypeOK
  <1>2. ASSUME NEW v, NEW S, ResolveNew(v, S)
        PROVE  FALSE
    <2>1. PICK j \in Identity :
            /\ status[j] = "absent"
            /\ status' = [status EXCEPT ![j] =
                            StatusAfter("tentative", Evidence(Visible({}, S), v))]
      BY <1>2 DEF ResolveNew, Exists
    <2>2. QED
      BY <1>0, <2>1 DEF TypeOK
  <1>3. ASSUME NEW d \in Decision, NEW s \in Identity, NEW t \in Identity,
               ExecuteMerge(d, s, t)
        PROVE  mergedInto[i] = None /\ mergedInto'[i] # None
    <2>1. i = s
      BY <1>0, <1>3, MergedLinks, DisputedStays
    <2>2. mergedInto[s] = None
      BY <1>0, <1>3, MergedLinks DEF Structure, TombstonesOwnNothing
    <2>3. mergedInto'[s] # None
      BY <1>0, <1>3, MergedLinks, ConstantsAssumption DEF ConstantsAssumption
    <2>4. QED
      BY <2>1, <2>2, <2>3
  <1>4. ASSUME NEW j \in Identity, Dispute(j) \/ ExecutePromotion(j)
        PROVE  FALSE
    BY <1>0, <1>4, DisputedStays DEF Dispute, ExecutePromotion, TypeOK
  <1>5. ASSUME NEW k \in DOMAIN records, Split(k)
        PROVE  /\ records[k].source = i
               /\ ~records[k].reverted /\ records'[k].reverted
    BY <1>0, <1>5, RecordFields, SplitLinks
  <1>6. CASE UNCHANGED status
    BY <1>6
  <1>7. QED
    BY <1>0, <1>1, <1>2, <1>3, <1>4, <1>5, <1>6, StepCases

\* Only merging it away, or splitting it off, ends the dispute of an identity.
THEOREM DisputesStick == Spec => DisputeSticks
  <1>1. Structure /\ [Next]_vars =>
          [\A i \in Identity :
             status[i] = "disputed" /\ status'[i] # "disputed" =>
               \/ mergedInto[i] = None /\ mergedInto'[i] # None
               \/ \E k \in DOMAIN records :
                    /\ records[k].source = i
                    /\ ~records[k].reverted /\ records'[k].reverted]_vars
    BY DisputeEnds
  <1>2. QED
    BY <1>1, StructureAlways, PTL DEF Spec, DisputeSticks

-----------------------------------------------------------------------------
\* With sessions that flush before a query the promotion check sees the links
\* that were just written, and whatever sources it counts, it counts each link.
BelowThreshold ==
  /\ Structure
  /\ TentativeIsBelowThreshold

\* What TentativeIsBelowThreshold says of one identity.
Below(S, basis) == basis \notin Promoting /\ S \X {None} \notin Promoting

LEMMA RecomputedBelow ==
  ASSUME NEW st, NEW S \in SUBSET Entity, NEW v,
         StatusAfter(st, Evidence(S, v)) = "tentative"
  PROVE  Below(S, Evidence(S, v))
  <1>1. Evidence(S, v) \notin Promoting
    BY DEF StatusAfter, Promotes
  <1>2. /\ Evidence(S, v) \in SUBSET Basis
        /\ S \X {None} \subseteq Evidence(S, v)
    BY EvidenceType
  <1>3. S \X {None} \in Promoting => Evidence(S, v) \in Promoting
    BY <1>2, ConstantsAssumption DEF ConstantsAssumption
  <1>4. QED
    BY <1>1, <1>3 DEF Below

\* The threshold is monotone, so losing entities does not reach it.
LEMMA FewerLinksBelow ==
  ASSUME NEW S \in SUBSET Entity, NEW T \in SUBSET S, NEW basis, Below(S, basis)
  PROVE  Below(T, basis)
  <1>1. S \X {None} \in SUBSET Basis /\ T \X {None} \subseteq S \X {None}
    BY DEF Basis
  <1>2. T \X {None} \in Promoting => S \X {None} \in Promoting
    BY <1>1, ConstantsAssumption DEF ConstantsAssumption
  <1>3. QED
    BY <1>2 DEF Below

LEMMA ThresholdNext ==
  ASSUME AutoFlush, BelowThreshold, [Next]_vars
  PROVE  TentativeIsBelowThreshold'
  <1> SUFFICES ASSUME NEW i \in Identity, status'[i] = "tentative"
               PROVE  Below(entities'[i], confidence'[i])
    BY DEF TentativeIsBelowThreshold, Below
  <1>0. TypeOK
    BY DEF BelowThreshold, Structure
  <1>1. status[i] = "tentative" => Below(entities[i], confidence[i])
    BY DEF BelowThreshold, TentativeIsBelowThreshold, Below
  <1>2. CASE /\ status[i] = "tentative"
             /\ entities'[i] = entities[i] /\ confidence'[i] = confidence[i]
    BY <1>1, <1>2
  <1>3. ASSUME NEW v, ResolveExisting(v)
        PROVE  Below(entities'[i], confidence'[i])
    <2>1. PICK j \in Identity :
            /\ confidence' = [confidence EXCEPT ![j] = Evidence(entities[j], v)]
            /\ status' = [status EXCEPT ![j] =
                            StatusAfter(@, Evidence(entities[j], v))]
            /\ UNCHANGED entities
      BY <1>3 DEF ResolveExisting, MatchedIn, Matching
    <2>2. CASE i = j
      BY <1>0, <2>1, <2>2, RecomputedBelow DEF TypeOK
    <2>3. CASE i # j
      BY <1>0, <1>2, <2>1, <2>3 DEF TypeOK
    <2>4. QED
      BY <2>2, <2>3
  <1>4. ASSUME NEW v, NEW S \in SUBSET Entity, ResolveNew(v, S)
        PROVE  Below(entities'[i], confidence'[i])
    <2>1. Visible({}, S) = S
      BY DEF Visible
    <2>2. PICK j \in Identity :
            /\ status' = [status EXCEPT ![j] =
                            StatusAfter("tentative", Evidence(S, v))]
            /\ confidence' = [confidence EXCEPT ![j] = Evidence(S, v)]
            /\ entities' = [entities EXCEPT ![j] = S]
      BY <1>4, <2>1 DEF ResolveNew
    <2>3. CASE i = j
      BY <1>0, <2>2, <2>3, RecomputedBelow DEF TypeOK
    <2>4. CASE i # j
      BY <1>0, <1>2, <2>2, <2>4 DEF TypeOK
    <2>5. QED
      BY <2>3, <2>4
  <1>5. ASSUME NEW d \in Decision, NEW s \in Identity, NEW t \in Identity,
               ExecuteMerge(d, s, t)
        PROVE  Below(entities'[i], confidence'[i])
    <2>1. i # s
      BY <1>0, <1>5, MergedLinks
    <2>2. CASE i = t
      <3>1. Visible(entities[t], entities[s]) = entities[t] \union entities[s]
        BY DEF Visible
      <3>2. entities'[t] = entities[t] \union entities[s]
        BY <1>0, <1>5, MergedLinks
      <3>3. PICK v : /\ confidence'[t] = Evidence(Visible(entities[t], entities[s]), v)
                     /\ status'[t] = StatusAfter(status[t],
                                       Evidence(Visible(entities[t], entities[s]), v))
        BY <1>0, <1>5, MergedLinks
      <3>4. StatusAfter(status[t], Evidence(entities'[t], v)) = "tentative"
        BY <2>2, <3>1, <3>2, <3>3, Zenon
      <3>5. entities'[t] \in SUBSET Entity
        BY <1>0, <3>2 DEF TypeOK
      <3>6. Below(entities'[t], Evidence(entities'[t], v))
        BY <3>4, <3>5, RecomputedBelow
      <3>7. QED
        BY <2>2, <3>1, <3>2, <3>3, <3>6, Zenon
    <2>3. CASE i # t
      BY <1>0, <1>2, <1>5, <2>1, <2>3, MergedLinks
    <2>4. QED
      BY <2>2, <2>3
  <1>6. ASSUME NEW j \in Identity, Dispute(j) \/ ExecutePromotion(j)
        PROVE  Below(entities'[i], confidence'[i])
    <2>1. status[i] = "tentative" /\ UNCHANGED <<entities, confidence>>
      BY <1>0, <1>6 DEF Dispute, ExecutePromotion, ManuallyPromoted, TypeOK
    <2>2. QED
      BY <1>2, <2>1
  <1>7. ASSUME NEW k \in DOMAIN records, Split(k)
        PROVE  Below(entities'[i], confidence'[i])
    <2> DEFINE s == records[k].source
               t == records[k].target
               moved == records[k].moved
    <2>1. s \in Identity /\ t \in Identity /\ moved \in SUBSET Entity
      BY <1>0, RecordFields
    <2>2. /\ entities'[s] = entities[s] \union moved
          /\ s # t => entities'[t] = entities[t] \ moved
          /\ \A j \in Identity : j \notin {s, t} => entities'[j] = entities[j]
          /\ \E v : LET basis == Evidence(Visible(entities[s], moved), v)
                    IN  /\ confidence'[s] = basis
                        /\ status'[s] = StatusAfter("tentative", basis)
          /\ \A j \in Identity : j # s => /\ status'[j] = status[j]
                                          /\ confidence'[j] = confidence[j]
      BY <1>0, <1>7, <2>1, SplitLinks
    <2> HIDE DEF s, t, moved
    <2>3. CASE i = s
      <3>1. Visible(entities[s], moved) = entities[s] \union moved
        BY DEF Visible
      <3>2. PICK v : /\ confidence'[s] = Evidence(Visible(entities[s], moved), v)
                     /\ status'[s] = StatusAfter("tentative",
                                       Evidence(Visible(entities[s], moved), v))
        BY <2>2
      <3>3. /\ confidence'[s] = Evidence(entities'[s], v)
            /\ StatusAfter("tentative", Evidence(entities'[s], v)) = "tentative"
        BY <2>2, <2>3, <3>1, <3>2, Zenon
      <3>4. entities'[s] \in SUBSET Entity
        BY <1>0, <2>1, <2>2 DEF TypeOK
      <3>5. Below(entities'[s], Evidence(entities'[s], v))
        BY <3>3, <3>4, RecomputedBelow
      <3>6. QED
        BY <2>3, <3>3, <3>5, Zenon
    <2>4. CASE i = t /\ i # s
      <3>1. Below(entities[t], confidence[t])
        BY <1>1, <2>2, <2>4
      <3>2. entities[t] \in SUBSET Entity /\ entities[t] \ moved \in SUBSET entities[t]
        BY <1>0, <2>1 DEF TypeOK
      <3>3. QED
        BY <2>1, <2>2, <2>4, <3>1, <3>2, FewerLinksBelow
    <2>5. CASE i \notin {s, t}
      BY <1>2, <2>2, <2>5
    <2>6. QED
      BY <2>3, <2>4, <2>5
  <1>8. CASE UNCHANGED <<status, entities, confidence>>
    BY <1>2, <1>8
  <1>9. \A v : CandidatesIn(v) \subseteq SUBSET Entity
    BY DEF CandidatesIn
  <1>10. QED
    BY <1>0, <1>3, <1>4, <1>5, <1>6, <1>7, <1>8, <1>9, StepCases

\* With autoflush a computation of the confidence promotes in the same step: no
\* identity is left tentative with a confidence at or above the threshold, or
\* with links that reach it alone, whichever investigation is picked and however
\* many sources it holds.  A source ingested after the computation counts at the
\* next one.  Without autoflush the links are missed (the run
\* production_promotion).
THEOREM PromotionIsPrompt == AutoFlush => (Spec => []TentativeIsBelowThreshold)
  <1> SUFFICES ASSUME AutoFlush PROVE Spec => []TentativeIsBelowThreshold
    OBVIOUS
  <1>1. Init => BelowThreshold
    BY StructureInit DEF Init, BelowThreshold, TentativeIsBelowThreshold
  <1>2. BelowThreshold /\ [Next]_vars => BelowThreshold'
    BY ThresholdNext, StructureNext DEF BelowThreshold
  <1>3. BelowThreshold => TentativeIsBelowThreshold
    BY DEF BelowThreshold
  <1>4. QED
    BY <1>1, <1>2, <1>3, PTL DEF Spec
=============================================================================

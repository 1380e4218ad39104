----------------------------- MODULE RaceProofs -----------------------------
(* Theorems about ReviewRace and ReviewReplay: what racing reviewers       *)
(* cannot break and what a replay brings back, for any number of requests, *)
(* items, identities and events.                                           *)
EXTENDS ReviewReplay, IdentityLifecycleProofs, Induction

-----------------------------------------------------------------------------
(* Types, and the structure of merges, which a commit that trusts a stale  *)
(* check keeps as one that does not.                                       *)

\* A request that has passed its check names an item that was queued.
CheckedItemsExist ==
  \A q \in Request :
    requests[q].phase = "checked" =>
      /\ requests[q].item \in Decision
      /\ items[requests[q].item].status # "absent"

RaceStructure ==
  /\ RequestTypeOK
  /\ CheckedItemsExist
  /\ Structure

LEMMA RaceStructureInit == RaceInit => RaceStructure
  <1> SUFFICES ASSUME RaceInit PROVE RaceStructure
    OBVIOUS
  <1>1. Structure /\ TypeOK
    BY StructureInit, TypeInit DEF RaceInit
  <1>2. RequestTypeOK
    BY <1>1 DEF RequestTypeOK, RaceInit, RequestState
  <1>3. CheckedItemsExist
    BY DEF RaceInit, CheckedItemsExist
  <1>4. QED
    BY <1>1, <1>2, <1>3 DEF RaceStructure

\* An item changes its status and keeps what it proposes.
LEMMA ResolvedItem ==
  ASSUME TypeOK, NEW d \in Decision, items[d].status # "absent",
         NEW st \in {"pending", "rejected", "executed"},
         items' = [items EXCEPT ![d].status = st]
  PROVE  /\ items'[d].status = st
         /\ items'[d].candidate = items[d].candidate
         /\ \A e \in Decision : e # d => items'[e] = items[e]
  <1>1. items[d] \in [status    : {"pending", "rejected", "executed"},
                      candidate : Identity,
                      target    : Identity \union {None}]
    BY DEF TypeOK, Item, NoItem
  <1>2. items' = [items EXCEPT ![d] = [items[d] EXCEPT !.status = st]]
    OBVIOUS
  <1>3. QED
    BY <1>1, <1>2 DEF TypeOK

\* No step takes a review item away.
LEMMA ItemsStay ==
  ASSUME TypeOK, NEW e \in Decision, items[e].status # "absent",
         \/ Background
         \/ \E d \in Decision :
              /\ items[d].status # "absent"
              /\ ExecuteApproval(d) \/ ExecuteRejection(d)
         \/ UNCHANGED items
  PROVE  items'[e].status # "absent"
  <1>1. CASE UNCHANGED items
    BY <1>1
  <1>2. CASE Background
    <2>1. CASE \E d \in Decision, s \in Identity, t \in Identity \union {None} :
                 ProcessQueue(d, s, t)
      BY <2>1 DEF ProcessQueue, TypeOK
    <2>2. CASE ~\E d \in Decision, s \in Identity, t \in Identity \union {None} :
                  ProcessQueue(d, s, t)
      <3>1. UNCHANGED items
        BY <1>2, <2>2
        DEF Background, Observe, Resolve, ResolveExisting, ResolveNew, Dispute,
            Process, Split, ProcessAutoMerge, ProcessAutoMergeFails, ProcessPromotion,
            ProcessPromotionFails, ProcessReject
      <3>2. QED
        BY <3>1
    <2>3. QED
      BY <2>1, <2>2
  <1>3. CASE \E d \in Decision : /\ items[d].status # "absent"
                                 /\ ExecuteApproval(d) \/ ExecuteRejection(d)
    <2>1. PICK d \in Decision : /\ items[d].status # "absent"
                                /\ ExecuteApproval(d) \/ ExecuteRejection(d)
      BY <1>3
    <2>2. PICK st \in {"rejected", "executed"} :
            items' = [items EXCEPT ![d].status = st]
      BY <2>1 DEF ExecuteApproval, ExecuteRejection
    <2>3. /\ items'[d].status = st
          /\ \A f \in Decision : f # d => items'[f] = items[f]
      BY <2>1, <2>2, ResolvedItem
    <2>4. QED
      BY <2>2, <2>3
  <1>4. QED
    BY <1>1, <1>2, <1>3

\* Approving keeps the structure, whatever the status of the item is by now.
LEMMA StructureApproval ==
  ASSUME Structure, TypeOK', NEW d \in Decision, items[d].status # "absent",
         ExecuteApproval(d)
  PROVE  Structure'
  <1>1. /\ items[d].candidate \in Identity
        /\ items[d].target \in Identity \union {None}
    BY QueuedItem DEF Structure
  <1>2. CASE ExecutePromotion(items[d].candidate)
    BY <1>1, <1>2, StructurePromotion
  <1>3. CASE /\ items[d].target # None
             /\ ExecuteMerge(d, items[d].candidate, items[d].target)
    BY <1>1, <1>3, StructureMerge
  <1>4. QED
    BY <1>2, <1>3 DEF ExecuteApproval

LEMMA BackgroundIsNext == ASSUME Background PROVE Next
  BY DEF Background, Next

\* What a step of a request does to the tables.
LEMMA ReviewCases ==
  ASSUME RaceStructure, NEW q \in Request, Review(q)
  PROVE  \/ UNCHANGED vars
         \/ \E d \in Decision :
              /\ items[d].status # "absent"
              /\ ExecuteApproval(d) \/ ExecuteRejection(d)
  BY DEF Review, Check, CommitApproval, RollBackApproval, CommitRejection,
         RaceStructure, CheckedItemsExist

LEMMA RaceTables ==
  ASSUME RaceStructure, [RaceNext]_allVars
  PROVE  TypeOK' /\ Structure'
  <1>0. TypeOK /\ Structure
    BY DEF RaceStructure, RequestTypeOK
  <1>1. CASE Background
    <2>1. Next
      BY <1>1, BackgroundIsNext
    <2>2. QED
      BY <1>0, <2>1, TypeNext, StructureNext, ConstantsAssumption
  <1>2. CASE \E d \in Decision : /\ items[d].status # "absent"
                                 /\ ExecuteApproval(d)
    <2>1. PICK d \in Decision : /\ items[d].status # "absent"
                                /\ ExecuteApproval(d)
      BY <1>2
    <2>2. TypeOK'
      BY <1>0, <2>1, TypeApproval
    <2>3. QED
      BY <1>0, <2>1, <2>2, StructureApproval
  <1>3. CASE \E d \in Decision : /\ items[d].status # "absent"
                                 /\ ExecuteRejection(d)
    <2>1. PICK d \in Decision : /\ items[d].status # "absent"
                                /\ ExecuteRejection(d)
      BY <1>3
    <2>2. TypeOK'
      BY <1>0, <2>1, TypeRejection
    <2>3. UNCHANGED <<status, mergedInto, entities, records>>
      BY <2>1 DEF ExecuteRejection
    <2>4. QED
      BY <1>0, <2>2, <2>3, StructureUnchanged
  <1>4. CASE UNCHANGED vars
    BY <1>0, <1>4, TypeNext, StructureNext, ConstantsAssumption
  <1>5. QED
    BY <1>1, <1>2, <1>3, <1>4, ReviewCases DEF RaceNext, allVars

LEMMA RaceStructureNext ==
  ASSUME RaceStructure, [RaceNext]_allVars
  PROVE  RaceStructure'
  <1>0. TypeOK /\ requests \in [Request -> RequestState]
    BY DEF RaceStructure, RequestTypeOK
  <1>1. TypeOK' /\ Structure'
    BY RaceTables
  <1>2. requests' \in [Request -> RequestState]
    <2>1. CASE UNCHANGED requests
      BY <1>0, <2>1
    <2>2. ASSUME NEW q \in Request, Review(q)
          PROVE  requests' \in [Request -> RequestState]
      <3>1. requests[q] \in RequestState
        BY <1>0
      <3>2. [requests[q] EXCEPT !.phase = "done"] \in RequestState
        BY <3>1 DEF RequestState
      <3>3. \A d \in Decision : [requests[q] EXCEPT !.phase = "checked",
                                                    !.item = d] \in RequestState
        BY <3>1 DEF RequestState
      <3>4. \/ requests' = [requests EXCEPT ![q] =
                              [requests[q] EXCEPT !.phase = "done"]]
            \/ \E d \in Decision :
                 requests' = [requests EXCEPT ![q] =
                   [requests[q] EXCEPT !.phase = "checked", !.item = d]]
        BY <1>0, <2>2 DEF Review, Check, CommitApproval, RollBackApproval,
                          CommitRejection, Close
      <3>5. QED
        BY <1>0, <3>2, <3>3, <3>4
    <2>3. QED
      BY <2>1, <2>2 DEF RaceNext, Background, allVars
  <1>3. \A e \in Decision : items[e].status # "absent" => items'[e].status # "absent"
    <2>1. \/ Background
          \/ \E d \in Decision :
               /\ items[d].status # "absent"
               /\ ExecuteApproval(d) \/ ExecuteRejection(d)
          \/ UNCHANGED items
      BY ReviewCases DEF RaceNext, allVars, vars
    <2>2. QED
      BY <1>0, <2>1, ItemsStay
  <1>4. CheckedItemsExist'
    <2> SUFFICES ASSUME NEW p \in Request, requests'[p].phase = "checked"
                 PROVE  /\ requests'[p].item \in Decision
                        /\ items'[requests'[p].item].status # "absent"
      BY DEF CheckedItemsExist
    <2>1. CASE requests'[p] = requests[p]
      BY <1>3, <2>1 DEF RaceStructure, CheckedItemsExist
    <2>2. CASE requests'[p] # requests[p]
      <3>1. PICK q \in Request : Review(q)
        BY <2>2 DEF RaceNext, Background, allVars
      <3>2. p = q
        BY <1>0, <2>2, <3>1 DEF Review, Check, CommitApproval,
           RollBackApproval, CommitRejection, Close
      <3>3. ~(requests' = [requests EXCEPT ![q].phase = "done"])
        BY <1>0, <3>2 DEF RequestState
      <3>4. PICK d \in Decision : Check(q, d)
        BY <3>1, <3>3 DEF Review, CommitApproval, RollBackApproval,
           CommitRejection, Close
      <3>5. requests'[p].item = d
        BY <1>0, <3>2, <3>4 DEF Check, RequestState
      <3>6. items[d].status = "pending"
        BY <3>4 DEF Check
      <3>7. QED
        BY <1>3, <3>5, <3>6
    <2>3. QED
      BY <2>1, <2>2
  <1>5. QED
    BY <1>1, <1>2, <1>4 DEF RaceStructure, RequestTypeOK

LEMMA RaceStructureAlways == RaceSpec => []RaceStructure
  <1>1. QED
    BY RaceStructureInit, RaceStructureNext, PTL DEF RaceSpec

\* Every variable keeps its type where reviewers race.
THEOREM RaceTypes == RaceSpec => []RequestTypeOK
  <1>1. RaceStructure => RequestTypeOK
    BY DEF RaceStructure
  <1>2. QED
    BY <1>1, RaceStructureAlways, PTL

\* Reviewers who commit on a stale check leave tombstones empty and merges
\* that can be taken back.
THEOREM RacesAreHarmless == RaceSpec => []RacesKeepTheLifecycle
  <1>1. RaceStructure => RacesKeepTheLifecycle
    BY DEF RaceStructure, Structure, RacesKeepTheLifecycle
  <1>2. QED
    BY <1>1, RaceStructureAlways, PTL

-----------------------------------------------------------------------------
(* The trail of a decision that several reviewers approve.                 *)

\* A step counts events of one decision, an approval always together with
\* its execution.
LEMMA EventsOfStep ==
  ASSUME RaceStructure, [RaceNext]_allVars
  PROVE  \/ UNCHANGED decisionEvents
         \/ \E d \in Decision, A \in SUBSET DecisionAction :
              /\ LogDecision(d, A)
              /\ "approved" \in A => "executed" \in A
  <1>0. TypeOK
    BY DEF RaceStructure, RequestTypeOK
  <1>1. ASSUME NEW d \in Decision,
               \E A \in {{"requested", "evaluated", "executed"},
                         {"requested", "evaluated", "rejected"},
                         {"requested", "evaluated"}, {"requested", "rejected"},
                         {"approved", "evaluated", "executed"},
                         {"rejected"}, {"reverted"}} : LogDecision(d, A)
        PROVE  \E A \in SUBSET DecisionAction :
                 LogDecision(d, A) /\ ("approved" \in A => "executed" \in A)
    <2>1. PICK A \in {{"requested", "evaluated", "executed"},
                      {"requested", "evaluated", "rejected"},
                      {"requested", "evaluated"}, {"requested", "rejected"},
                      {"approved", "evaluated", "executed"},
                      {"rejected"}, {"reverted"}} : LogDecision(d, A)
      BY <1>1
    <2>2. A \in SUBSET DecisionAction
      BY <2>1 DEF DecisionAction
    <2>3. "approved" \in A => "executed" \in A
      BY <2>1
    <2>4. QED
      BY <2>1, <2>2, <2>3
  <1>2. CASE Background
    <2>1. CASE Observe \/ Resolve \/ \E i \in Identity : Dispute(i)
      BY <2>1 DEF Observe, Resolve, ResolveExisting, ResolveNew, Dispute
    <2>2. ASSUME NEW d \in Decision, Process(d)
          PROVE  \E A \in SUBSET DecisionAction :
                   LogDecision(d, A) /\ ("approved" \in A => "executed" \in A)
      BY <1>1, <2>2
      DEF Process, ProcessAutoMerge, ProcessAutoMergeFails, ProcessPromotion,
          ProcessPromotionFails, ProcessQueue, ProcessReject
    <2>3. ASSUME NEW k \in 1..Len(records), Split(k)
          PROVE  \E d \in Decision : \E A \in SUBSET DecisionAction :
                   LogDecision(d, A) /\ ("approved" \in A => "executed" \in A)
      <3>1. k \in DOMAIN records
        BY <1>0 DEF TypeOK
      <3>2. records[k].decision \in Decision
        BY <1>0, <3>1, RecordFields
      <3>3. LogDecision(records[k].decision, {"reverted"})
        BY <2>3 DEF Split
      <3>4. QED
        BY <1>1, <3>2, <3>3
    <2>4. QED
      BY <1>2, <2>1, <2>2, <2>3 DEF Background
  <1>3. ASSUME NEW d \in Decision, ExecuteApproval(d) \/ ExecuteRejection(d)
        PROVE  \E A \in SUBSET DecisionAction :
                 LogDecision(d, A) /\ ("approved" \in A => "executed" \in A)
    BY <1>1, <1>3 DEF ExecuteApproval, ExecuteRejection
  <1>4. CASE UNCHANGED vars
    BY <1>4 DEF vars
  <1>5. QED
    BY <1>2, <1>3, <1>4, ReviewCases DEF RaceNext, allVars

LEMMA ApprovalsNext ==
  ASSUME RaceStructure, ApprovalsExecute, [RaceNext]_allVars
  PROVE  ApprovalsExecute'
  <1>0. decisionEvents \in [Decision -> [DecisionAction -> Nat]]
    BY DEF RaceStructure, RequestTypeOK, TypeOK
  <1>1. CASE UNCHANGED decisionEvents
    BY <1>1 DEF ApprovalsExecute
  <1>2. ASSUME NEW d \in Decision, NEW A \in SUBSET DecisionAction,
               LogDecision(d, A), "approved" \in A => "executed" \in A,
               NEW e \in Decision
        PROVE  decisionEvents'[e]["approved"] <= decisionEvents'[e]["executed"]
    <2>1. /\ decisionEvents[e]["approved"] \in Nat
          /\ decisionEvents[e]["executed"] \in Nat
          /\ decisionEvents[e]["approved"] <= decisionEvents[e]["executed"]
      BY <1>0 DEF ApprovalsExecute, DecisionAction
    <2>2. CASE e # d
      <3>1. decisionEvents'[e] = decisionEvents[e]
        BY <1>0, <1>2, <2>2, LogDecisionCounts
      <3>2. QED
        BY <2>1, <3>1
    <2>3. CASE e = d
      <3>1. \A a \in {"approved", "executed"} :
              decisionEvents'[d][a] = IF a \in A THEN decisionEvents[d][a] + 1
                                                 ELSE decisionEvents[d][a]
        BY <1>0, <1>2, LogDecisionCounts DEF DecisionAction
      <3>2. QED
        BY <1>2, <2>1, <2>3, <3>1
    <2>4. QED
      BY <2>2, <2>3
  <1>3. QED
    BY <1>1, <1>2, EventsOfStep DEF ApprovalsExecute

\* No approval is on record without its execution, whoever else approved or
\* rejected the item in between.
THEOREM ApprovalsAreExecuted == RaceSpec => []ApprovalsExecute
  <1>1. RaceInit => ApprovalsExecute
    BY DEF RaceInit, Init, ApprovalsExecute, DecisionAction
  <1>2. QED
    BY <1>1, ApprovalsNext, RaceStructureAlways, PTL DEF RaceSpec

-----------------------------------------------------------------------------
(* Merges of one decision.  Those that reviewers execute have one source,  *)
(* the candidate of the item, and moved its links: no two are in force.    *)
(* A decision without an item was processed once and has one record.       *)

Requested(d) == decisionEvents[d]["requested"] # 0

MergesOfDecisions ==
  /\ \A d \in Decision : items[d].status # "absent" => Requested(d)
  /\ \A k \in DOMAIN records :
       LET d == records[k].decision
       IN  /\ Requested(d)
           /\ items[d].status # "absent" =>
                /\ records[k].source = items[d].candidate
                /\ records[k].moved # {}
           /\ items[d].status = "absent" =>
                \A l \in DOMAIN records : records[l].decision = d => l = k

\* What was requested stays so.
LEMMA RequestedStays ==
  ASSUME RaceStructure, [RaceNext]_allVars, NEW e \in Decision, Requested(e)
  PROVE  Requested(e)'
  <1>0. decisionEvents \in [Decision -> [DecisionAction -> Nat]]
    BY DEF RaceStructure, RequestTypeOK, TypeOK
  <1>1. CASE UNCHANGED decisionEvents
    BY <1>1 DEF Requested
  <1>2. ASSUME NEW d \in Decision, NEW A \in SUBSET DecisionAction,
               LogDecision(d, A)
        PROVE  Requested(e)'
    <2>1. decisionEvents[e]["requested"] \in Nat
      BY <1>0 DEF DecisionAction
    <2>2. \/ decisionEvents'[e]["requested"] = decisionEvents[e]["requested"]
          \/ decisionEvents'[e]["requested"] = decisionEvents[e]["requested"] + 1
      BY <1>0, <1>2, LogDecisionCounts DEF DecisionAction
    <2>3. QED
      BY <2>1, <2>2 DEF Requested
  <1>3. QED
    BY <1>1, <1>2, EventsOfStep

\* A decision that process works on has no record and no item, and was
\* requested afterwards.
LEMMA FreshDecision ==
  ASSUME RaceStructure, MergesOfDecisions, NEW d \in Decision, Process(d)
  PROVE  /\ items[d].status = "absent"
         /\ \A k \in DOMAIN records : records[k].decision # d
         /\ Requested(d)'
  <1>0. decisionEvents \in [Decision -> [DecisionAction -> Nat]]
    BY DEF RaceStructure, RequestTypeOK, TypeOK
  <1>1. Unprocessed(d)
    BY DEF Process, ProcessAutoMerge, ProcessAutoMergeFails, ProcessPromotion,
           ProcessPromotionFails, ProcessQueue, ProcessReject
  <1>2. ~Requested(d)
    BY <1>1 DEF Unprocessed, Requested, DecisionAction
  <1>3. PICK A \in {{"requested", "evaluated", "executed"},
                    {"requested", "evaluated", "rejected"},
                    {"requested", "evaluated"}, {"requested", "rejected"}} :
          LogDecision(d, A)
    BY DEF Process, ProcessAutoMerge, ProcessAutoMergeFails, ProcessPromotion,
           ProcessPromotionFails, ProcessQueue, ProcessReject
  <1>4. A \in SUBSET DecisionAction /\ "requested" \in A
    BY <1>3 DEF DecisionAction
  <1>5. decisionEvents'[d]["requested"] = decisionEvents[d]["requested"] + 1
    BY <1>0, <1>3, <1>4, LogDecisionCounts
  <1>6. decisionEvents[d]["requested"] \in Nat
    BY <1>0 DEF DecisionAction
  <1>7. Requested(d)'
    BY <1>5, <1>6 DEF Requested
  <1>8. QED
    BY <1>2, <1>7 DEF MergesOfDecisions

\* Records that say the same of decision, source and links, and items that
\* keep status and candidate, keep the invariant.
LEMMA MergesKept ==
  ASSUME MergesOfDecisions, TypeOK,
         \A e \in Decision : Requested(e) => Requested(e)',
         DOMAIN records' = DOMAIN records,
         \A k \in DOMAIN records :
           /\ records'[k].decision = records[k].decision
           /\ records'[k].source = records[k].source
           /\ records'[k].moved = records[k].moved,
         \A e \in Decision :
           /\ items'[e].status = "absent" <=> items[e].status = "absent"
           /\ items[e].status # "absent" =>
                items'[e].candidate = items[e].candidate
  PROVE  MergesOfDecisions'
  <1>1. \A k \in DOMAIN records : records[k].decision \in Decision
    BY RecordFields
  <1>2. QED
    BY <1>1 DEF MergesOfDecisions

\* A record of a decision without an item or of the candidate of one.
LEMMA MergesAppended ==
  ASSUME MergesOfDecisions, TypeOK,
         NEW d \in Decision, NEW s \in Identity, NEW t \in Identity,
         records' = Record(d, s, t), Requested(d)',
         \A e \in Decision : Requested(e) => Requested(e)',
         \A e \in Decision :
           /\ items'[e].status = "absent" <=> items[e].status = "absent"
           /\ items[e].status # "absent" =>
                items'[e].candidate = items[e].candidate,
         \/ /\ items[d].status = "absent"
            /\ \A k \in DOMAIN records : records[k].decision # d
         \/ /\ items[d].status # "absent"
            /\ s = items[d].candidate
            /\ entities[s] # {}
  PROVE  MergesOfDecisions'
  <1> DEFINE n == Len(records) + 1
             new == [decision |-> d, source |-> s, target |-> t,
                     moved |-> entities[s], targetHad |-> entities[t],
                     reverted |-> FALSE]
  <1>1. /\ DOMAIN records' = DOMAIN records \union {n}
        /\ n \notin DOMAIN records
        /\ \A k \in DOMAIN records : records'[k] = records[k]
        /\ records'[n] = new
    BY AppendedRecord
  <1>2. new.decision = d /\ new.source = s /\ new.moved = entities[s]
    OBVIOUS
  <1>3. \A k \in DOMAIN records : records[k].decision \in Decision
    BY RecordFields
  <1> HIDE DEF n, new
  <1>4. \A e \in Decision : items'[e].status # "absent" => Requested(e)'
    BY DEF MergesOfDecisions
  <1>5. ASSUME NEW k \in DOMAIN records'
        PROVE  LET e == records'[k].decision
               IN  /\ decisionEvents'[e]["requested"] # 0
                   /\ items'[e].status # "absent" =>
                        /\ records'[k].source = items'[e].candidate
                        /\ records'[k].moved # {}
                   /\ items'[e].status = "absent" =>
                        \A l \in DOMAIN records' :
                          records'[l].decision = e => l = k
    <2>1. CASE k = n
      BY <1>1, <1>2, <2>1 DEF Requested
    <2>2. CASE k \in DOMAIN records
      BY <1>1, <1>2, <1>3, <2>2 DEF MergesOfDecisions, Requested
    <2>3. QED
      BY <1>1, <1>5, <2>1, <2>2
  <1>6. QED
    BY <1>4, <1>5 DEF MergesOfDecisions, Requested

LEMMA MergesProcess ==
  ASSUME RaceStructure, MergesOfDecisions, [RaceNext]_allVars,
         NEW d \in Decision, Process(d)
  PROVE  MergesOfDecisions'
  <1>0. TypeOK
    BY DEF RaceStructure, RequestTypeOK
  <1>1. \A e \in Decision : Requested(e) => Requested(e)'
    BY RequestedStays
  <1>2. /\ items[d].status = "absent"
        /\ \A k \in DOMAIN records : records[k].decision # d
        /\ Requested(d)'
    BY FreshDecision
  <1>3. ASSUME NEW s \in Identity, NEW t \in Identity,
               records' = Record(d, s, t), UNCHANGED items
        PROVE  MergesOfDecisions'
    BY <1>0, <1>1, <1>2, <1>3, MergesAppended
  <1>4. CASE UNCHANGED <<records, items>>
    BY <1>0, <1>1, <1>4, MergesKept
  <1>5. ASSUME NEW s \in Identity, NEW t \in Identity \union {None},
               ProcessQueue(d, s, t)
        PROVE  MergesOfDecisions'
    <2>1. UNCHANGED records
      BY <1>5 DEF ProcessQueue
    <2>2. \A e \in Decision : e # d => items'[e] = items[e]
      BY <1>0, <1>5 DEF ProcessQueue, TypeOK
    <2>3. \A k \in DOMAIN records : records[k].decision \in Decision \ {d}
      BY <1>0, <1>2, RecordFields
    <2>4. \A e \in Decision : items'[e].status # "absent" => Requested(e)'
      BY <1>1, <1>2, <2>2 DEF MergesOfDecisions
    <2>5. QED
      BY <1>1, <2>1, <2>2, <2>3, <2>4 DEF MergesOfDecisions
  <1>6. CASE \E s, t \in Identity : ProcessAutoMerge(d, s, t)
    BY <1>3, <1>6 DEF ProcessAutoMerge, ExecuteMerge
  <1>7. CASE \E s, t \in Identity : ProcessAutoMergeFails(d, s, t)
    BY <1>3, <1>4, <1>7 DEF ProcessAutoMergeFails
  <1>8. CASE \/ \E i \in Identity : ProcessPromotion(d, i)
             \/ \E i \in Identity : ProcessPromotionFails(d, i)
             \/ ProcessReject(d)
    BY <1>4, <1>8 DEF ProcessPromotion, ExecutePromotion,
                      ProcessPromotionFails, ProcessReject
  <1>9. QED
    BY <1>5, <1>6, <1>7, <1>8 DEF Process

LEMMA MergesReview ==
  ASSUME RaceStructure, MergesOfDecisions, [RaceNext]_allVars,
         NEW d \in Decision, items[d].status # "absent",
         ExecuteApproval(d) \/ ExecuteRejection(d)
  PROVE  MergesOfDecisions'
  <1>0. TypeOK
    BY DEF RaceStructure, RequestTypeOK
  <1>1. \A e \in Decision : Requested(e) => Requested(e)'
    BY RequestedStays
  <1>2. Requested(d)'
    BY <1>1 DEF MergesOfDecisions
  <1>3. PICK st \in {"rejected", "executed"} :
          items' = [items EXCEPT ![d].status = st]
    BY DEF ExecuteApproval, ExecuteRejection
  <1>4. /\ items'[d].status = st
        /\ items'[d].candidate = items[d].candidate
        /\ \A e \in Decision : e # d => items'[e] = items[e]
    BY <1>0, <1>3, ResolvedItem
  <1>5. \A e \in Decision :
          /\ items'[e].status = "absent" <=> items[e].status = "absent"
          /\ items[e].status # "absent" =>
               items'[e].candidate = items[e].candidate
    BY <1>3, <1>4
  <1>6. CASE UNCHANGED records
    BY <1>0, <1>1, <1>5, <1>6, MergesKept
  <1>7. CASE ExecuteMerge(d, items[d].candidate, items[d].target)
             /\ items[d].target # None
    <2>1. items[d].candidate \in Identity /\ items[d].target \in Identity
      BY <1>0, <1>7, QueuedItem
    <2>2. entities[items[d].candidate] # {}
      BY <1>7 DEF ExecuteMerge, ScopesOf, LinkedTo
    <2>3. records' = Record(d, items[d].candidate, items[d].target)
      BY <1>7 DEF ExecuteMerge
    <2>4. QED
      BY <1>0, <1>1, <1>2, <1>5, <2>1, <2>2, <2>3, MergesAppended
  <1>8. QED
    BY <1>6, <1>7 DEF ExecuteApproval, ExecutePromotion, ExecuteRejection

LEMMA MergesSplit ==
  ASSUME RaceStructure, MergesOfDecisions, [RaceNext]_allVars,
         NEW k \in DOMAIN records, Split(k)
  PROVE  MergesOfDecisions'
  <1>0. TypeOK
    BY DEF RaceStructure, RequestTypeOK
  <1>1. \A e \in Decision : Requested(e) => Requested(e)'
    BY RequestedStays
  <1>2. records' = SplitRecord(k) /\ UNCHANGED items
    BY DEF Split
  <1>3. /\ records[k] \in MergeRecord
        /\ DOMAIN records' = DOMAIN records
        /\ records'[k] = [records[k] EXCEPT !.reverted = TRUE]
        /\ \A l \in DOMAIN records : l # k => records'[l] = records[l]
    BY <1>0, <1>2, SplitRecords
  <1>4. /\ records'[k].decision = records[k].decision
        /\ records'[k].source = records[k].source
        /\ records'[k].moved = records[k].moved
    BY <1>3 DEF MergeRecord
  <1>5. QED
    BY <1>0, <1>1, <1>2, <1>3, <1>4, MergesKept

LEMMA MergesOfDecisionsNext ==
  ASSUME RaceStructure, MergesOfDecisions, [RaceNext]_allVars
  PROVE  MergesOfDecisions'
  <1>0. TypeOK
    BY DEF RaceStructure, RequestTypeOK
  <1>1. CASE UNCHANGED <<records, items>>
    <2>1. \A e \in Decision : Requested(e) => Requested(e)'
      BY RequestedStays
    <2>2. QED
      BY <1>0, <1>1, <2>1, MergesKept
  <1>2. CASE Background
    <2>1. CASE Observe \/ Resolve \/ \E i \in Identity : Dispute(i)
      BY <1>1, <2>1 DEF Observe, Resolve, ResolveExisting, ResolveNew, Dispute
    <2>2. CASE \E d \in Decision : Process(d)
      BY <2>2, MergesProcess
    <2>3. CASE \E k \in 1..Len(records) : Split(k)
      <3>1. DOMAIN records = 1..Len(records)
        BY <1>0 DEF TypeOK
      <3>2. QED
        BY <2>3, <3>1, MergesSplit
    <2>4. QED
      BY <1>2, <2>1, <2>2, <2>3 DEF Background
  <1>3. CASE \E d \in Decision : /\ items[d].status # "absent"
                                 /\ ExecuteApproval(d) \/ ExecuteRejection(d)
    BY <1>3, MergesReview
  <1>4. CASE UNCHANGED vars
    BY <1>1, <1>4 DEF vars
  <1>5. QED
    BY <1>2, <1>3, <1>4, ReviewCases DEF RaceNext, allVars

LEMMA OneMergeOfDecision ==
  ASSUME RaceStructure, MergesOfDecisions
  PROVE  OneMergeInForce
  <1> SUFFICES ASSUME NEW k \in DOMAIN records, NEW l \in DOMAIN records,
                      k # l, records[k].decision = records[l].decision,
                      ~records[k].reverted, ~records[l].reverted
               PROVE  FALSE
    BY DEF OneMergeInForce
  <1>1. /\ records[k].source = records[l].source
        /\ records[k].moved # {} /\ records[l].moved # {}
    BY DEF MergesOfDecisions
  <1>2. QED
    BY <1>1 DEF RaceStructure, Structure, SplitsCannotConflict

\* However many reviewers approve one item, and whatever splits come in
\* between, at most one merge of a decision is in force.
THEOREM OneMergeOnly == RaceSpec => []OneMergeInForce
  <1>1. RaceInit => MergesOfDecisions
    BY DEF RaceInit, Init, NoItem, MergesOfDecisions
  <1>2. RaceStructure /\ MergesOfDecisions => OneMergeInForce
    BY OneMergeOfDecision
  <1>3. QED
    BY <1>1, <1>2, MergesOfDecisionsNext, RaceStructureAlways, PTL DEF RaceSpec

-----------------------------------------------------------------------------
(* The fold of a replay.  It has a value after every event, and one more   *)
(* event is applied to that value.                                         *)

\* The events the services write: no merge event names a target.
LoggedEvent == {ev \in IdentityEvent : ev.action = "merged" => ev.target = None}

\* What a replay can build: no identity is merged into another.
RebuiltState == [status     : [Identity -> Status \ {"merged"}],
                 mergedInto : [Identity -> {None}],
                 confidence : [Identity -> SUBSET Basis]]

LEMMA ClearedType == Cleared \in RebuiltState
  BY DEF Cleared, RebuiltState, Status

\* Applying an event to such a state gives such a state.
LEMMA ApplyType ==
  ASSUME NEW state \in RebuiltState, NEW ev \in LoggedEvent
  PROVE  Apply(state, ev) \in RebuiltState
  <1>1. ASSUME NEW i, NEW st \in Status \ {"merged"}
        PROVE  SetStatus(state, i, st) \in RebuiltState
    BY <1>1 DEF SetStatus, RebuiltState
  <1>2. {"tentative", "confirmed", "disputed"} \subseteq Status \ {"merged"}
    BY DEF Status
  <1>3. ev.action \in {"created", "promoted", "disputed", "merged", "split"}
    BY DEF LoggedEvent, IdentityEvent
  <1>4. Recreate(state, ev) \in RebuiltState
    <2>1. SetStatus(state, ev.identity, "tentative") \in RebuiltState
      BY <1>1, <1>2
    <2>2. ev.counted \in SUBSET Basis
      BY DEF LoggedEvent, IdentityEvent
    <2>3. QED
      BY <2>1, <2>2 DEF Recreate, RebuiltState
  <1>5. ApplySplit(state, ev) \in RebuiltState
    <2>1. SetStatus(state, ev.source, "tentative") \in RebuiltState
      BY <1>1, <1>2
    <2>2. QED
      BY <2>1 DEF ApplySplit, RebuiltState
  <1>6. CASE ev.action = "created"
    BY <1>4, <1>6 DEF Apply, ApplyCreated
  <1>7. CASE ev.action = "promoted"
    BY <1>1, <1>2, <1>7 DEF Apply
  <1>8. CASE ev.action = "disputed"
    BY <1>1, <1>2, <1>8 DEF Apply
  <1>9. CASE ev.action = "merged"
    BY <1>9 DEF Apply, ApplyMerged, LoggedEvent
  <1>10. CASE ev.action = "split"
    BY <1>5, <1>10 DEF Apply
  <1>11. QED
    BY <1>3, <1>6, <1>7, <1>8, <1>9, <1>10

\* The states a replay passes through.
Passes(g, events) ==
  /\ g \in [0..Len(events) -> RebuiltState]
  /\ g[0] = Cleared
  /\ \A k \in 1..Len(events) : g[k] = Apply(g[k - 1], events[k])

LEMMA ReplayPasses ==
  ASSUME NEW events \in Seq(LoggedEvent)
  PROVE  /\ \E g : Passes(g, events) /\ g[Len(events)] = Rebuilt(events)
         /\ \A g : Passes(g, events) => g[Len(events)] = Rebuilt(events)
  <1> DEFINE n == Len(events)
             f == [k \in 1..n |-> [s \in RebuiltState |-> Apply(s, events[k])]]
             Step(h) == [k \in 0..n |-> IF k = 0 THEN Cleared
                                        ELSE Apply(h[k - 1], events[k])]
             state == CHOOSE h : h = Step(h)
  <1>1. n \in Nat /\ \A k \in 1..n : events[k] \in LoggedEvent
    OBVIOUS
  <1>2. f \in [1..n -> [RebuiltState -> RebuiltState]]
    BY <1>1, ApplyType
  <1>3. \A k \in 1..n : \A s \in RebuiltState : f[k][s] = Apply(s, events[k])
    OBVIOUS
  <1> HIDE DEF f, n
  <1>a. PICK g : /\ Walk(g, RebuiltState, Cleared, n, f)
                 /\ \A h : Obeys(h, RebuiltState, Cleared, n, f) =>
                             \A k \in 0..n : h[k] = g[k]
    BY <1>1, <1>2, ClearedType, Walks
  <1>4. /\ g \in [0..n -> RebuiltState]
        /\ g[0] = Cleared
        /\ \A k \in 1..n : g[k] = f[k][g[k - 1]]
    BY <1>a DEF Walk
  <1>5. \A k \in 1..n : g[k - 1] \in RebuiltState /\ g[k] = Apply(g[k - 1], events[k])
    <2> TAKE k \in 1..n
    <2>1. k - 1 \in 0..n
      BY <1>1
    <2>2. QED
      BY <1>3, <1>4, <2>1
  <1>6. ASSUME NEW h, h[0] = Cleared,
               \A k \in 1..n : h[k] = Apply(h[k - 1], events[k])
        PROVE  h[n] = g[n]
    <2>1. Obeys(h, RebuiltState, Cleared, n, f)
      BY <1>3, <1>6 DEF Obeys
    <2>2. n \in 0..n
      BY <1>1
    <2>3. QED
      BY <1>a, <2>1, <2>2
  <1>7. g = Step(g)
    <2>1. \A k \in 0..n : g[k] = IF k = 0 THEN Cleared
                                 ELSE Apply(g[k - 1], events[k])
      BY <1>1, <1>4, <1>5
    <2>2. QED
      BY <1>4, <2>1
  <1>8. state = Step(state)
    BY <1>7
  <1>9. state[0] = Cleared /\ \A k \in 1..n : state[k] = Apply(state[k - 1], events[k])
    <2>1. 0 \in 0..n /\ \A k \in 1..n : k \in 0..n /\ k # 0
      BY <1>1
    <2> HIDE DEF state
    <2>2. QED
      BY <1>8, <2>1
  <1>10. Rebuilt(events) = state[n]
    BY DEF Rebuilt, n
  <1> HIDE DEF state, Step
  <1>11. Rebuilt(events) = g[n]
    BY <1>6, <1>9, <1>10
  <1>12. Passes(g, events)
    BY <1>4, <1>5 DEF Passes, n
  <1>13. \A h : Passes(h, events) => h[n] = g[n]
    BY <1>6 DEF Passes, n
  <1>14. QED
    BY <1>11, <1>12, <1>13 DEF n

\* Replaying one more event applies it to what was rebuilt before.
LEMMA RebuiltAppend ==
  ASSUME NEW events \in Seq(LoggedEvent), NEW ev \in LoggedEvent
  PROVE  Rebuilt(Append(events, ev)) = Apply(Rebuilt(events), ev)
  <1> DEFINE more == Append(events, ev)
             n == Len(events)
  <1>1. /\ more \in Seq(LoggedEvent)
        /\ n \in Nat
        /\ Len(more) = n + 1
        /\ more[n + 1] = ev
        /\ \A k \in 1..n : more[k] = events[k]
    OBVIOUS
  <1> HIDE DEF more
  <1>2. PICK g : Passes(g, more) /\ g[n + 1] = Rebuilt(more)
    BY <1>1, ReplayPasses
  <1> DEFINE h == [k \in 0..n |-> g[k]]
  <1>3. Passes(h, events)
    BY <1>1, <1>2 DEF Passes
  <1>4. h[n] = Rebuilt(events)
    <2> HIDE DEF h
    <2> QED BY <1>3, ReplayPasses
  <1>5. g[n + 1] = Apply(g[n], ev)
    <2>1. n + 1 \in 1..Len(more) /\ (n + 1) - 1 = n
      BY <1>1
    <2>2. QED
      BY <1>1, <1>2, <2>1 DEF Passes
  <1>6. h[n] = g[n]
    BY <1>1
  <1>7. QED
    BY <1>2, <1>4, <1>5, <1>6 DEF more

LEMMA RebuiltType ==
  ASSUME NEW events \in Seq(LoggedEvent)
  PROVE  Rebuilt(events) \in RebuiltState
  <1>1. PICK g : Passes(g, events) /\ g[Len(events)] = Rebuilt(events)
    BY ReplayPasses
  <1>2. Len(events) \in 0..Len(events)
    OBVIOUS
  <1>3. QED
    BY <1>1, <1>2 DEF Passes

LEMMA RebuiltEmpty == Rebuilt(<<>>) = Cleared
  <1>1. <<>> \in Seq(LoggedEvent) /\ Len(<<>>) = 0
    OBVIOUS
  <1>2. PICK g : Passes(g, <<>>) /\ g[Len(<<>>)] = Rebuilt(<<>>)
    BY <1>1, ReplayPasses
  <1>3. QED
    BY <1>1, <1>2 DEF Passes

-----------------------------------------------------------------------------
(* Logged events and the statuses a replay gives them.                     *)

\* What the events of the services do to the statuses of a replay.
LEMMA AppliedPromoted ==
  ASSUME NEW R \in RebuiltState, NEW i \in Identity
  PROVE  /\ Event("promoted", i, None, None) \in LoggedEvent
         /\ Apply(R, Event("promoted", i, None, None)).status =
              [R.status EXCEPT ![i] = "confirmed"]
  <1>1. Event("promoted", i, None, None) \in LoggedEvent
    BY DEF Event, LoggedEvent, IdentityEvent
  <1>2. Apply(R, Event("promoted", i, None, None)) = SetStatus(R, i, "confirmed")
    BY DEF Apply, Event
  <1>3. QED
    BY <1>1, <1>2 DEF SetStatus, RebuiltState

LEMMA AppliedDisputed ==
  ASSUME NEW R \in RebuiltState, NEW i \in Identity
  PROVE  /\ Event("disputed", i, None, None) \in LoggedEvent
         /\ Apply(R, Event("disputed", i, None, None)).status =
              [R.status EXCEPT ![i] = "disputed"]
  <1>1. Event("disputed", i, None, None) \in LoggedEvent
    BY DEF Event, LoggedEvent, IdentityEvent
  <1>2. Apply(R, Event("disputed", i, None, None)) = SetStatus(R, i, "disputed")
    BY DEF Apply, Event
  <1>3. QED
    BY <1>1, <1>2 DEF SetStatus, RebuiltState

LEMMA AppliedMerged ==
  ASSUME NEW R \in RebuiltState, NEW i \in Identity, NEW s \in Identity
  PROVE  /\ Event("merged", i, s, None) \in LoggedEvent
         /\ Apply(R, Event("merged", i, s, None)).status = R.status
  <1>1. Event("merged", i, s, None) \in LoggedEvent
    BY DEF Event, LoggedEvent, IdentityEvent
  <1>2. Apply(R, Event("merged", i, s, None)) = R
    BY DEF Apply, Event, ApplyMerged
  <1>3. QED
    BY <1>1, <1>2

LEMMA AppliedSplit ==
  ASSUME NEW R \in RebuiltState, NEW i \in Identity, NEW t \in Identity
  PROVE  /\ Event("split", i, i, t) \in LoggedEvent
         /\ Apply(R, Event("split", i, i, t)).status =
              [R.status EXCEPT ![i] = "tentative"]
  <1>1. Event("split", i, i, t) \in LoggedEvent
    BY DEF Event, LoggedEvent, IdentityEvent
  <1>2. Apply(R, Event("split", i, i, t)) =
          [SetStatus(R, i, "tentative") EXCEPT !.mergedInto[i] = None]
    BY DEF Apply, Event, ApplySplit
  <1>3. QED
    BY <1>1, <1>2 DEF SetStatus, RebuiltState

LEMMA AppliedCreated ==
  ASSUME NEW R \in RebuiltState, NEW i \in Identity, NEW S \in SUBSET Basis
  PROVE  /\ CreatedEvent(i, S) \in LoggedEvent
         /\ Apply(R, CreatedEvent(i, S)).status =
              IF R.status[i] = "absent" THEN [R.status EXCEPT ![i] = "tentative"]
                                        ELSE R.status
  <1>1. /\ CreatedEvent(i, S) \in LoggedEvent
        /\ CreatedEvent(i, S).action = "created"
        /\ CreatedEvent(i, S).identity = i
        /\ CreatedEvent(i, S).counted = S
    BY DEF CreatedEvent, Event, LoggedEvent, IdentityEvent
  <1>2. Apply(R, CreatedEvent(i, S)) = ApplyCreated(R, CreatedEvent(i, S))
    BY <1>1 DEF Apply
  <1>3. Recreate(R, CreatedEvent(i, S)).status = [R.status EXCEPT ![i] = "tentative"]
    BY <1>1 DEF Recreate, SetStatus, RebuiltState
  <1>4. QED
    BY <1>1, <1>2, <1>3 DEF ApplyCreated

\* The statuses a replay of the log would give.
Replayed == Rebuilt(identityEvents).status

\* An automatic promotion, where there is one, and another event are logged.
LEMMA LogPromotion ==
  ASSUME identityEvents \in Seq(LoggedEvent),
         NEW i \in Identity, NEW st, NEW S,
         LogIdentity(PromotionEvents(i, st, S))
  PROVE  /\ identityEvents' \in Seq(LoggedEvent)
         /\ Replayed' = IF Promotes(st, S)
                        THEN [Replayed EXCEPT ![i] = "confirmed"] ELSE Replayed
  <1> DEFINE ev == Event("promoted", i, None, None)
  <1>1. /\ Rebuilt(identityEvents) \in RebuiltState
        /\ ev \in LoggedEvent
        /\ Apply(Rebuilt(identityEvents), ev).status =
             [Replayed EXCEPT ![i] = "confirmed"]
    BY RebuiltType, AppliedPromoted DEF Replayed
  <1>2. CASE Promotes(st, S)
    <2>1. identityEvents' = identityEvents \o <<ev>>
      BY <1>2 DEF LogIdentity, PromotionEvents
    <2> HIDE DEF ev
    <2>2. identityEvents' = Append(identityEvents, ev)
      BY <2>1, <1>1
    <2>3. QED
      BY <1>1, <1>2, <2>2, RebuiltAppend DEF Replayed
  <1>3. CASE ~Promotes(st, S)
    <2>1. identityEvents' = identityEvents
      BY <1>3 DEF LogIdentity, PromotionEvents
    <2>2. QED
      BY <1>3, <2>1 DEF Replayed
  <1>4. QED
    BY <1>2, <1>3

LEMMA LogEvent ==
  ASSUME identityEvents \in Seq(LoggedEvent),
         NEW ev \in LoggedEvent, LogIdentity(<<ev>>)
  PROVE  /\ identityEvents' \in Seq(LoggedEvent)
         /\ Rebuilt(identityEvents') = Apply(Rebuilt(identityEvents), ev)
  <1>1. identityEvents' = Append(identityEvents, ev)
    BY DEF LogIdentity
  <1>2. QED
    BY <1>1, RebuiltAppend

LEMMA LogPromotionAnd ==
  ASSUME identityEvents \in Seq(LoggedEvent),
         NEW i \in Identity, NEW st, NEW S, NEW ev \in LoggedEvent,
         LogIdentity(PromotionEvents(i, st, S) \o <<ev>>)
  PROVE  /\ identityEvents' \in Seq(LoggedEvent)
         /\ \E R \in RebuiltState :
              /\ R.status = IF Promotes(st, S)
                            THEN [Replayed EXCEPT ![i] = "confirmed"] ELSE Replayed
              /\ Replayed' = Apply(R, ev).status
  <1> DEFINE first == Event("promoted", i, None, None)
  <1>1. /\ Rebuilt(identityEvents) \in RebuiltState
        /\ first \in LoggedEvent
        /\ Apply(Rebuilt(identityEvents), first).status =
             [Replayed EXCEPT ![i] = "confirmed"]
    BY RebuiltType, AppliedPromoted DEF Replayed
  <1>2. CASE Promotes(st, S)
    <2> DEFINE mid == Append(identityEvents, first)
    <2>1. identityEvents' = identityEvents \o (<<first>> \o <<ev>>)
      BY <1>2 DEF LogIdentity, PromotionEvents
    <2> HIDE DEF first
    <2>2. mid \in Seq(LoggedEvent) /\ identityEvents' = Append(mid, ev)
      BY <2>1, <1>1
    <2>3. Rebuilt(mid) = Apply(Rebuilt(identityEvents), first)
      BY <1>1, RebuiltAppend
    <2> HIDE DEF mid
    <2>4. Rebuilt(identityEvents') = Apply(Rebuilt(mid), ev)
      BY <2>2, RebuiltAppend
    <2>5. Rebuilt(mid) \in RebuiltState
      BY <2>2, RebuiltType
    <2>6. QED
      BY <1>1, <1>2, <2>2, <2>3, <2>4, <2>5 DEF Replayed
  <1>3. CASE ~Promotes(st, S)
    <2>1. identityEvents' = Append(identityEvents, ev)
      BY <1>3 DEF LogIdentity, PromotionEvents
    <2>2. Rebuilt(identityEvents') = Apply(Rebuilt(identityEvents), ev)
      BY <2>1, RebuiltAppend
    <2>3. QED
      BY <1>1, <1>3, <2>1, <2>2 DEF Replayed
  <1>4. QED
    BY <1>2, <1>3

-----------------------------------------------------------------------------
(* What can be rebuilt.  An identity is in the log if and only if it has a *)
(* row, and one that no record names as a source has in the log the status *)
(* of its row unless it is disputed: a promotion of a disputed identity is *)
(* logged without effect, and a split is logged after its promotion.       *)

\* An identity some merge record names as its source.
Sourced(i) == \E k \in DOMAIN records : records[k].source = i

\* What a replay makes of an identity (back) against the row (st).
Restored(back, st, sourced) ==
  /\ back = "absent" <=> st = "absent"
  /\ st \in {"tentative", "confirmed"} /\ ~sourced => back = st

Restorable ==
  /\ identityEvents \in Seq(LoggedEvent)
  /\ \A i \in Identity : Restored(Replayed[i], status[i], Sourced(i))

LEMMA ReplayedType ==
  ASSUME identityEvents \in Seq(LoggedEvent)
  PROVE  Replayed \in [Identity -> Status]
  BY RebuiltType DEF Replayed, RebuiltState

LEMMA RestorableInit == Init => Restorable
  <1> SUFFICES ASSUME Init PROVE Restorable
    OBVIOUS
  <1>1. identityEvents = <<>> /\ records = <<>> /\ status = [i \in Identity |-> "absent"]
    BY DEF Init
  <1>2. Replayed = [i \in Identity |-> "absent"]
    BY <1>1, RebuiltEmpty DEF Replayed, Cleared
  <1>3. QED
    BY <1>1, <1>2 DEF Restorable, Restored

\* Records stay: an identity that was the source of a merge is one ever after.
LEMMA SourcedStays ==
  ASSUME TypeOK, NEW i \in Identity, Sourced(i),
         \/ UNCHANGED records
         \/ \E d \in Decision, s, t \in Identity : records' = Record(d, s, t)
         \/ \E k \in DOMAIN records : records' = SplitRecord(k)
  PROVE  Sourced(i)'
  <1>1. PICK k \in DOMAIN records : records[k].source = i
    BY DEF Sourced
  <1>2. CASE UNCHANGED records
    BY <1>1, <1>2 DEF Sourced
  <1>3. ASSUME NEW d \in Decision, NEW s \in Identity, NEW t \in Identity,
               records' = Record(d, s, t)
        PROVE  Sourced(i)'
    <2>1. /\ DOMAIN Record(d, s, t) = DOMAIN records \union {Len(records) + 1}
          /\ \A l \in DOMAIN records : Record(d, s, t)[l] = records[l]
      BY AppendedRecord
    <2>2. k \in DOMAIN records' /\ records'[k] = records[k]
      BY <1>1, <1>3, <2>1
    <2>3. QED
      BY <1>1, <2>2 DEF Sourced
  <1>4. ASSUME NEW l \in DOMAIN records, records' = SplitRecord(l)
        PROVE  Sourced(i)'
    <2>1. /\ records[l] \in MergeRecord
          /\ DOMAIN SplitRecord(l) = DOMAIN records
          /\ SplitRecord(l)[l] = [records[l] EXCEPT !.reverted = TRUE]
          /\ \A j \in DOMAIN records : j # l => SplitRecord(l)[j] = records[j]
      BY SplitRecords
    <2>2. [records[l] EXCEPT !.reverted = TRUE].source = records[l].source
      BY <2>1 DEF MergeRecord
    <2>3. k \in DOMAIN records' /\ records'[k].source = i
      BY <1>1, <1>4, <2>1, <2>2
    <2>4. QED
      BY <2>3 DEF Sourced
  <1>5. QED
    BY <1>2, <1>3, <1>4

\* It is enough to look at the identities a step touches.
LEMMA RestoredKept ==
  ASSUME TypeOK, Restorable,
         identityEvents' \in Seq(LoggedEvent),
         \A i \in Identity : Sourced(i) => Sourced(i)',
         \A i \in Identity :
           \/ Replayed'[i] = Replayed[i] /\ status'[i] = status[i]
           \/ Restored(Replayed'[i], status'[i], Sourced(i)')
  PROVE  Restorable'
  BY DEF Restorable, Restored

LEMMA RestorableResolveExisting ==
  ASSUME TypeOK, Restorable, NEW v, ResolveExisting(v)
  PROVE  Restorable'
  <1>0. /\ identityEvents \in Seq(LoggedEvent)
        /\ Replayed \in [Identity -> Status]
        /\ status \in [Identity -> Status]
        /\ \A i \in Identity : Restored(Replayed[i], status[i], Sourced(i))
    BY ReplayedType DEF Restorable, TypeOK
  <1>1. PICK i \in MatchedIn(v) :
          LET basis == Evidence(entities[i], v)
          IN /\ status' = [status EXCEPT ![i] = StatusAfter(@, basis)]
             /\ LogIdentity(PromotionEvents(i, status[i], basis))
             /\ UNCHANGED records
    BY DEF ResolveExisting
  <1> DEFINE basis == Evidence(entities[i], v)
  <1>2. /\ status' = [status EXCEPT ![i] = StatusAfter(@, basis)]
        /\ LogIdentity(PromotionEvents(i, status[i], basis))
        /\ UNCHANGED records
    BY <1>1
  <1> HIDE DEF basis
  <1>3. i \in Identity
    BY DEF MatchedIn, Matching
  <1>4. \A j \in Identity : Sourced(j) => Sourced(j)'
    BY <1>2, SourcedStays
  <1>5. /\ identityEvents' \in Seq(LoggedEvent)
        /\ Replayed' = IF Promotes(status[i], basis)
                       THEN [Replayed EXCEPT ![i] = "confirmed"] ELSE Replayed
    BY <1>0, <1>2, <1>3, LogPromotion
  <1>6. Restored(Replayed'[i], status'[i], Sourced(i)')
    BY <1>0, <1>2, <1>3, <1>4, <1>5 DEF Restored, StatusAfter, Promotes
  <1>7. \A j \in Identity : j # i => Replayed'[j] = Replayed[j] /\ status'[j] = status[j]
    BY <1>0, <1>2, <1>5
  <1>8. QED
    BY <1>4, <1>5, <1>6, <1>7, RestoredKept

LEMMA RestorableResolveNew ==
  ASSUME TypeOK, Restorable, NEW v, NEW S \in SUBSET Entity, ResolveNew(v, S)
  PROVE  Restorable'
  <1>0. /\ identityEvents \in Seq(LoggedEvent)
        /\ Replayed \in [Identity -> Status]
        /\ status \in [Identity -> Status]
        /\ \A i \in Identity : Restored(Replayed[i], status[i], Sourced(i))
    BY ReplayedType DEF Restorable, TypeOK
  <1> DEFINE basis == Evidence(Visible({}, S), v)
  <1>1. PICK i \in Identity :
          /\ ~Exists(i)
          /\ status' = [status EXCEPT ![i] = StatusAfter("tentative", basis)]
          /\ LogIdentity(PromotionEvents(i, "tentative", basis)
                           \o <<CreatedEvent(i, basis)>>)
          /\ UNCHANGED records
    BY DEF ResolveNew
  <1>2. basis \in SUBSET Basis
    BY VisibleType, EvidenceType
  <1> HIDE DEF basis
  <1>3. CreatedEvent(i, basis) \in LoggedEvent
    BY <1>2, ClearedType, AppliedCreated
  <1>4. \A j \in Identity : Sourced(j) => Sourced(j)'
    BY <1>1, SourcedStays
  <1>5. PICK R \in RebuiltState :
          /\ R.status = IF Promotes("tentative", basis)
                        THEN [Replayed EXCEPT ![i] = "confirmed"] ELSE Replayed
          /\ Replayed' = Apply(R, CreatedEvent(i, basis)).status
    BY <1>0, <1>1, <1>3, LogPromotionAnd
  <1>6. identityEvents' \in Seq(LoggedEvent)
    BY <1>0, <1>1, <1>3, LogPromotionAnd
  <1>7. Replayed' = IF R.status[i] = "absent"
                    THEN [R.status EXCEPT ![i] = "tentative"] ELSE R.status
    BY <1>2, <1>5, AppliedCreated
  <1>8. Replayed[i] = "absent"
    BY <1>0, <1>1 DEF Restored, Exists
  <1>9. Restored(Replayed'[i], status'[i], Sourced(i)')
    BY <1>0, <1>1, <1>5, <1>7, <1>8 DEF Restored, StatusAfter, Promotes
  <1>10. \A j \in Identity : j # i => Replayed'[j] = Replayed[j] /\ status'[j] = status[j]
    BY <1>0, <1>1, <1>5, <1>7
  <1>11. QED
    BY <1>4, <1>6, <1>9, <1>10, RestoredKept

LEMMA RestorableDispute ==
  ASSUME TypeOK, Restorable, NEW i \in Identity, Dispute(i)
  PROVE  Restorable'
  <1>0. /\ identityEvents \in Seq(LoggedEvent)
        /\ Replayed \in [Identity -> Status]
        /\ status \in [Identity -> Status]
    BY ReplayedType DEF Restorable, TypeOK
  <1> DEFINE ev == Event("disputed", i, None, None)
  <1>1. /\ UNCHANGED records
        /\ status' = [status EXCEPT ![i] = "disputed"]
        /\ LogIdentity(<<ev>>)
    BY DEF Dispute
  <1>2. /\ ev \in LoggedEvent
        /\ Apply(Rebuilt(identityEvents), ev).status =
             [Replayed EXCEPT ![i] = "disputed"]
    BY <1>0, RebuiltType, AppliedDisputed DEF Replayed
  <1> HIDE DEF ev
  <1>3. /\ identityEvents' \in Seq(LoggedEvent)
        /\ Replayed' = [Replayed EXCEPT ![i] = "disputed"]
    BY <1>0, <1>1, <1>2, LogEvent DEF Replayed
  <1>4. \A j \in Identity : Sourced(j) => Sourced(j)'
    BY <1>1, SourcedStays
  <1>5. Restored(Replayed'[i], status'[i], Sourced(i)')
    BY <1>0, <1>1, <1>3 DEF Restored
  <1>6. \A j \in Identity : j # i => Replayed'[j] = Replayed[j] /\ status'[j] = status[j]
    BY <1>0, <1>1, <1>3
  <1>7. QED
    BY <1>3, <1>4, <1>5, <1>6, RestoredKept

LEMMA RestorableMerge ==
  ASSUME TypeOK, Restorable, NEW d \in Decision, NEW s \in Identity,
         NEW t \in Identity, ExecuteMerge(d, s, t)
  PROVE  Restorable'
  <1>0. /\ identityEvents \in Seq(LoggedEvent)
        /\ Replayed \in [Identity -> Status]
        /\ status \in [Identity -> Status]
        /\ \A i \in Identity : Restored(Replayed[i], status[i], Sourced(i))
    BY ReplayedType DEF Restorable, TypeOK
  <1>b. PICK v \in ScopesOf(s) :
          LET basis == Evidence(Visible(entities[t], entities[s]), v)
          IN /\ Mergeable(s, t, v)
             /\ records' = Record(d, s, t)
             /\ status' = [status EXCEPT ![s] = "merged",
                                         ![t] = StatusAfter(@, basis)]
             /\ LogIdentity(PromotionEvents(t, status[t], basis)
                              \o <<Event("merged", t, s, None)>>)
    BY DEF ExecuteMerge
  <1> DEFINE counted == Evidence(Visible(entities[t], entities[s]), v)
             ev == Event("merged", t, s, None)
  <1>1. /\ Exists(s) /\ Exists(t) /\ s # t
        /\ records' = Record(d, s, t)
        /\ status' = [status EXCEPT ![s] = "merged", ![t] = StatusAfter(@, counted)]
        /\ LogIdentity(PromotionEvents(t, status[t], counted) \o <<ev>>)
    BY <1>b DEF Mergeable
  <1> HIDE DEF counted
  <1>2. \A R \in RebuiltState : Apply(R, ev).status = R.status
    BY AppliedMerged
  <1>3. ev \in LoggedEvent
    BY ClearedType, AppliedMerged
  <1> HIDE DEF ev
  <1>a. /\ identityEvents' \in Seq(LoggedEvent)
        /\ \E R \in RebuiltState :
             /\ R.status = IF Promotes(status[t], counted)
                           THEN [Replayed EXCEPT ![t] = "confirmed"] ELSE Replayed
             /\ Replayed' = Apply(R, ev).status
    BY <1>0, <1>1, <1>3, LogPromotionAnd
  <1>4. /\ identityEvents' \in Seq(LoggedEvent)
        /\ Replayed' = IF Promotes(status[t], counted)
                       THEN [Replayed EXCEPT ![t] = "confirmed"] ELSE Replayed
    BY <1>2, <1>a
  <1>5. \A j \in Identity : Sourced(j) => Sourced(j)'
    BY <1>1, SourcedStays
  <1>6. Restored(Replayed'[t], status'[t], Sourced(t)')
    BY <1>0, <1>1, <1>4, <1>5 DEF Restored, StatusAfter, Promotes
  <1>7. Restored(Replayed'[s], status'[s], Sourced(s)')
    BY <1>0, <1>1, <1>4 DEF Restored, Exists
  <1>8. \A j \in Identity \ {s, t} :
          Replayed'[j] = Replayed[j] /\ status'[j] = status[j]
    BY <1>0, <1>1, <1>4
  <1>9. QED
    BY <1>4, <1>5, <1>6, <1>7, <1>8, RestoredKept

LEMMA RestorablePromotion ==
  ASSUME TypeOK, Restorable, NEW i \in Identity, ExecutePromotion(i)
  PROVE  Restorable'
  <1>0. /\ identityEvents \in Seq(LoggedEvent)
        /\ Replayed \in [Identity -> Status]
        /\ status \in [Identity -> Status]
        /\ \A j \in Identity : Restored(Replayed[j], status[j], Sourced(j))
    BY ReplayedType DEF Restorable, TypeOK
  <1> DEFINE ev == Event("promoted", i, None, None)
  <1>1. /\ UNCHANGED records
        /\ Exists(i)
        /\ status' = [status EXCEPT ![i] = ManuallyPromoted(@)]
        /\ LogIdentity(<<ev>>)
    BY DEF ExecutePromotion
  <1>2. /\ ev \in LoggedEvent
        /\ Apply(Rebuilt(identityEvents), ev).status =
             [Replayed EXCEPT ![i] = "confirmed"]
    BY <1>0, RebuiltType, AppliedPromoted DEF Replayed
  <1> HIDE DEF ev
  <1>3. /\ identityEvents' \in Seq(LoggedEvent)
        /\ Replayed' = [Replayed EXCEPT ![i] = "confirmed"]
    BY <1>0, <1>1, <1>2, LogEvent DEF Replayed
  <1>4. \A j \in Identity : Sourced(j) => Sourced(j)'
    BY <1>1, SourcedStays
  <1>5. Restored(Replayed'[i], status'[i], Sourced(i)')
    BY <1>0, <1>1, <1>3 DEF Restored, ManuallyPromoted, Exists
  <1>6. \A j \in Identity : j # i => Replayed'[j] = Replayed[j] /\ status'[j] = status[j]
    BY <1>0, <1>1, <1>3
  <1>7. QED
    BY <1>3, <1>4, <1>5, <1>6, RestoredKept

LEMMA RestorableSplit ==
  ASSUME TypeOK, Restorable, NEW k \in DOMAIN records, Split(k)
  PROVE  Restorable'
  <1>0. /\ identityEvents \in Seq(LoggedEvent)
        /\ Replayed \in [Identity -> Status]
        /\ status \in [Identity -> Status]
        /\ \A j \in Identity : Restored(Replayed[j], status[j], Sourced(j))
    BY ReplayedType DEF Restorable, TypeOK
  <1>2. PICK s \in Identity, t \in Identity :
          s = records[k].source /\ t = records[k].target
    BY RecordFields
  <1> DEFINE links == Visible(entities[s], records[k].moved)
             ev == Event("split", s, s, t)
  <1>b. PICK v \in SplitScopes(links) :
          LET basis == Evidence(links, v)
          IN /\ status' = [status EXCEPT ![s] = StatusAfter("tentative", basis)]
             /\ LogIdentity(PromotionEvents(s, "tentative", basis) \o <<ev>>)
    BY <1>2 DEF Split
  <1> DEFINE counted == Evidence(links, v)
  <1>1. /\ records' = SplitRecord(k)
        /\ Exists(s)
        /\ status' = [status EXCEPT ![s] = StatusAfter("tentative", counted)]
        /\ LogIdentity(PromotionEvents(s, "tentative", counted) \o <<ev>>)
    BY <1>2, <1>b DEF Split
  <1>3. \A R \in RebuiltState :
          Apply(R, ev).status = [R.status EXCEPT ![s] = "tentative"]
    BY AppliedSplit
  <1>4. ev \in LoggedEvent
    BY ClearedType, AppliedSplit
  <1>5. \A j \in Identity : Sourced(j) => Sourced(j)'
    BY <1>1, SourcedStays
  <1>6. Sourced(s)'
    BY <1>2, <1>5 DEF Sourced
  <1> HIDE DEF ev, counted, links
  <1>7. /\ identityEvents' \in Seq(LoggedEvent)
        /\ \E R \in RebuiltState :
             /\ R.status = IF Promotes("tentative", counted)
                           THEN [Replayed EXCEPT ![s] = "confirmed"] ELSE Replayed
             /\ Replayed' = Apply(R, ev).status
    BY <1>0, <1>1, <1>4, LogPromotionAnd
  <1>8. PICK b \in {"confirmed", Replayed[s]} :
          Replayed' = [[Replayed EXCEPT ![s] = b] EXCEPT ![s] = "tentative"]
    BY <1>0, <1>3, <1>7
  <1>9. Restored(Replayed'[s], status'[s], Sourced(s)')
    BY <1>0, <1>1, <1>6, <1>8 DEF Restored, StatusAfter
  <1>10. \A j \in Identity : j # s => Replayed'[j] = Replayed[j] /\ status'[j] = status[j]
    BY <1>0, <1>1, <1>8
  <1>11. QED
    BY <1>5, <1>7, <1>9, <1>10, RestoredKept

LEMMA RestorableUnchanged ==
  ASSUME TypeOK, Restorable, UNCHANGED <<status, identityEvents>>,
         UNCHANGED records
           \/ \E d \in Decision, s, t \in Identity : records' = Record(d, s, t)
  PROVE  Restorable'
  <1>1. \A j \in Identity : Sourced(j) => Sourced(j)'
    BY SourcedStays
  <1>2. Replayed' = Replayed /\ identityEvents' \in Seq(LoggedEvent)
    BY DEF Replayed, Restorable
  <1>3. QED
    BY <1>1, <1>2, RestoredKept

LEMMA RestorableProcess ==
  ASSUME TypeOK, Restorable, NEW d \in Decision, Process(d)
  PROVE  Restorable'
  <1>1. CASE \E s, t \in Identity : ProcessAutoMerge(d, s, t)
    BY <1>1, RestorableMerge DEF ProcessAutoMerge
  <1>2. CASE \E s, t \in Identity : ProcessAutoMergeFails(d, s, t)
    BY <1>2, RestorableUnchanged DEF ProcessAutoMergeFails
  <1>3. CASE \E i \in Identity : ProcessPromotion(d, i)
    BY <1>3, RestorablePromotion DEF ProcessPromotion
  <1>4. CASE \/ \E i \in Identity : ProcessPromotionFails(d, i)
             \/ \E s \in Identity, t \in Identity \union {None} :
                  ProcessQueue(d, s, t)
             \/ ProcessReject(d)
    BY <1>4, RestorableUnchanged
    DEF ProcessPromotionFails, ProcessQueue, ProcessReject
  <1>5. QED
    BY <1>1, <1>2, <1>3, <1>4 DEF Process

LEMMA RestorableReview ==
  ASSUME TypeOK, Restorable, NEW d \in Decision, items[d].status # "absent",
         ExecuteApproval(d) \/ ExecuteRejection(d)
  PROVE  Restorable'
  <1>0. items[d].candidate \in Identity /\ items[d].target \in Identity \union {None}
    BY QueuedItem
  <1>1. CASE ExecuteRejection(d)
    BY <1>1, RestorableUnchanged DEF ExecuteRejection
  <1>2. CASE ExecutePromotion(items[d].candidate)
    BY <1>0, <1>2, RestorablePromotion
  <1>3. CASE /\ items[d].target # None
             /\ ExecuteMerge(d, items[d].candidate, items[d].target)
    BY <1>0, <1>3, RestorableMerge
  <1>4. QED
    BY <1>1, <1>2, <1>3 DEF ExecuteApproval

LEMMA RestorableNext ==
  ASSUME TypeOK, Restorable, [Next]_vars
  PROVE  Restorable'
  <1>0. CASE Observe
    BY <1>0, RestorableUnchanged DEF Observe
  <1>1. CASE Resolve
    <2>1. \A v : CandidatesIn(v) \subseteq SUBSET Entity
      BY DEF CandidatesIn
    <2>2. QED
      BY <1>1, <2>1, RestorableResolveExisting, RestorableResolveNew DEF Resolve
  <1>2. CASE \E i \in Identity : Dispute(i)
    BY <1>2, RestorableDispute
  <1>3. CASE \E d \in Decision : Process(d)
    BY <1>3, RestorableProcess
  <1>4. CASE \E d \in Decision : Approve(d) \/ Reject(d)
    BY <1>4, RestorableReview DEF Approve, Reject
  <1>5. CASE \E k \in 1..Len(records) : Split(k)
    <2>1. DOMAIN records = 1..Len(records)
      BY DEF TypeOK
    <2>2. QED
      BY <1>5, <2>1, RestorableSplit
  <1>6. CASE UNCHANGED vars
    BY <1>6, RestorableUnchanged DEF vars
  <1>7. QED
    BY <1>0, <1>1, <1>2, <1>3, <1>4, <1>5, <1>6 DEF Next

\* What the invariant says of a replay at any moment.
LEMMA RestorableBringsBack ==
  ASSUME ~CascadeDeletes, Restorable
  PROVE  ReplayBringsBack
  <1>1. Surviving = identityEvents
    BY DEF Surviving
  <1>2. ReplayKeepsIdentities
    BY <1>1 DEF ReplayKeepsIdentities, Restorable, Restored, Replayed, Exists
  <1>3. ReplayRestoresUnmerged
    BY <1>1 DEF ReplayRestoresUnmerged, Restorable, Restored, Replayed, Sourced
  <1>4. QED
    BY <1>2, <1>3 DEF ReplayBringsBack

\* Where deleting an identity leaves its events, a replay of the log would give
\* every undisputed identity that was never merged away its status, at any
\* moment of the lifecycle.
THEOREM ReplaysRestore ==
  ~CascadeDeletes => (Spec => []ReplayRestoresUnmerged)
  <1> SUFFICES ASSUME ~CascadeDeletes PROVE Spec => []ReplayRestoresUnmerged
    OBVIOUS
  <1>1. Restorable => ReplayRestoresUnmerged
    BY RestorableBringsBack DEF ReplayBringsBack
  <1>2. QED
    BY <1>1, RestorableInit, RestorableNext, TypeCorrect, PTL DEF Spec

-----------------------------------------------------------------------------
(* A replay between two handlers.                                          *)

\* It rebuilds well-formed tables in which nothing is merged.
LEMMA ReplayTables ==
  ASSUME ~CascadeDeletes, TypeOK, Restorable, ReplayAll
  PROVE  TypeOK' /\ Structure'
  <1>1. /\ Rebuilt(identityEvents) \in RebuiltState
        /\ Surviving = identityEvents
    BY RebuiltType DEF Restorable, Surviving
  <1>2. /\ status' \in [Identity -> Status \ {"merged"}]
        /\ mergedInto' = [i \in Identity |-> None]
        /\ confidence' \in [Identity -> SUBSET Basis]
        /\ entities' = [i \in Identity |-> {}]
        /\ records' = <<>>
        /\ identityEvents' = identityEvents
        /\ UNCHANGED <<items, decisionEvents, observations>>
    BY <1>1 DEF ReplayAll, RebuiltState
  <1>3. TypeOK'
    BY <1>2 DEF TypeOK
  <1>4. AbsentIsBlank'
    BY <1>2 DEF AbsentIsBlank
  <1>5. TombstonesOwnNothing'
    BY <1>2 DEF TombstonesOwnNothing
  <1>6. MergesEnd'
    <2> SUFFICES ASSUME NEW S \in SUBSET Identity, S # {}
                 PROVE  \E i \in S : mergedInto'[i] \notin S
      BY DEF MergesEnd
    <2>1. None \notin S
      BY ConstantsAssumption
    <2>2. QED
      BY <1>2, <2>1
  <1>7. SplitsCannotConflict'
    BY <1>2 DEF SplitsCannotConflict
  <1>8. QED
    BY <1>3, <1>4, <1>5, <1>6, <1>7 DEF Structure

\* What it rebuilds is what the next replay would rebuild.
LEMMA ReplayRestorable ==
  ASSUME ~CascadeDeletes, TypeOK, Restorable, ReplayAll
  PROVE  Restorable'
  <1>1. /\ status' = Replayed
        /\ identityEvents' = identityEvents
    BY DEF ReplayAll, Surviving, Replayed
  <1>2. Replayed' = Replayed
    BY <1>1 DEF Replayed
  <1>3. QED
    BY <1>1, <1>2 DEF Restorable, Restored

\* What holds where reviewers race and replays come in between.
RaceReplayInvariant ==
  /\ RaceStructure
  /\ MergesOfDecisions
  /\ ApprovalsExecute
  /\ Restorable

LEMMA RaceReplayInit == RaceInit => RaceReplayInvariant
  <1> SUFFICES ASSUME RaceInit PROVE RaceReplayInvariant
    OBVIOUS
  <1>1. MergesOfDecisions
    BY DEF RaceInit, Init, NoItem, MergesOfDecisions
  <1>2. ApprovalsExecute
    BY DEF RaceInit, Init, ApprovalsExecute, DecisionAction
  <1>3. Restorable
    BY RestorableInit DEF RaceInit
  <1>4. QED
    BY <1>1, <1>2, <1>3, RaceStructureInit DEF RaceReplayInvariant

LEMMA RestorableRace ==
  ASSUME RaceStructure, Restorable, [RaceNext]_allVars
  PROVE  Restorable'
  <1>0. TypeOK
    BY DEF RaceStructure, RequestTypeOK
  <1>1. CASE Background
    BY <1>0, <1>1, BackgroundIsNext, RestorableNext
  <1>2. CASE \E d \in Decision : /\ items[d].status # "absent"
                                 /\ ExecuteApproval(d) \/ ExecuteRejection(d)
    BY <1>0, <1>2, RestorableReview
  <1>3. CASE UNCHANGED vars
    BY <1>0, <1>3, RestorableNext
  <1>4. QED
    BY <1>1, <1>2, <1>3, ReviewCases DEF RaceNext, allVars

LEMMA RaceReplayStep ==
  ASSUME ~CascadeDeletes, RaceReplayInvariant, [RaceReplayNext]_allVars
  PROVE  RaceReplayInvariant'
  <1>1. CASE [RaceNext]_allVars
    BY <1>1, RaceStructureNext, MergesOfDecisionsNext, ApprovalsNext,
       RestorableRace
    DEF RaceReplayInvariant
  <1>2. CASE ReplayAll /\ UNCHANGED requests
    <2>0. TypeOK
      BY DEF RaceReplayInvariant, RaceStructure, RequestTypeOK
    <2>1. TypeOK' /\ Structure' /\ Restorable'
      BY <1>2, <2>0, ReplayTables, ReplayRestorable DEF RaceReplayInvariant
    <2>2. records' = <<>> /\ UNCHANGED <<items, decisionEvents, requests>>
      BY <1>2 DEF ReplayAll
    <2>3. RaceStructure'
      BY <2>1, <2>2
      DEF RaceReplayInvariant, RaceStructure, RequestTypeOK, CheckedItemsExist
    <2>4. MergesOfDecisions'
      BY <2>2 DEF RaceReplayInvariant, MergesOfDecisions, Requested
    <2>5. ApprovalsExecute'
      BY <2>2 DEF RaceReplayInvariant, ApprovalsExecute
    <2>6. QED
      BY <2>1, <2>3, <2>4, <2>5 DEF RaceReplayInvariant
  <1>3. QED
    BY <1>1, <1>2 DEF RaceReplayNext

\* Whatever reviewers, handlers, disputes and earlier replays did, a replay
\* brings every identity back, and with its status each one that was never
\* merged away and is not disputed.
THEOREM ReplaysBringBack ==
  ~CascadeDeletes => (RaceReplaySpec => []ReplayBringsBack)
  <1> SUFFICES ASSUME ~CascadeDeletes PROVE RaceReplaySpec => []ReplayBringsBack
    OBVIOUS
  <1>1. RaceReplayInvariant => ReplayBringsBack
    BY RestorableBringsBack DEF RaceReplayInvariant
  <1>2. RaceReplayInvariant /\ [RaceReplayNext]_allVars => RaceReplayInvariant'
    BY RaceReplayStep
  <1>3. QED
    BY <1>1, <1>2, RaceReplayInit, PTL DEF RaceReplaySpec

\* And replays take nothing from what racing reviewers keep.
THEOREM ReplaysAreHarmless ==
  ~CascadeDeletes =>
    (RaceReplaySpec => [](/\ RequestTypeOK
                          /\ RacesKeepTheLifecycle
                          /\ ApprovalsExecute
                          /\ OneMergeInForce))
  <1> SUFFICES ASSUME ~CascadeDeletes
               PROVE  RaceReplaySpec => [](/\ RequestTypeOK
                                           /\ RacesKeepTheLifecycle
                                           /\ ApprovalsExecute
                                           /\ OneMergeInForce)
    OBVIOUS
  <1>1. RaceReplayInvariant => /\ RequestTypeOK
                               /\ RacesKeepTheLifecycle
                               /\ ApprovalsExecute
                               /\ OneMergeInForce
    BY OneMergeOfDecision
    DEF RaceReplayInvariant, RaceStructure, Structure, RacesKeepTheLifecycle
  <1>2. RaceReplayInvariant /\ [RaceReplayNext]_allVars => RaceReplayInvariant'
    BY RaceReplayStep
  <1>3. QED
    BY <1>1, <1>2, RaceReplayInit, PTL DEF RaceReplaySpec
=============================================================================

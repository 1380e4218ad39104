------------------------- MODULE IdentityLifecycle -------------------------
(***************************************************************************)
(* Identities and the Decision Engine: src/argus/canonical/                *)
(* decision_engine.py and services/identity.py.                            *)
(*                                                                         *)
(* Every handler runs inside its caller's database transaction, so one     *)
(* action is one handler together with the commit of that transaction.  A  *)
(* handler whose transaction is rolled back changes nothing and is a       *)
(* stuttering step.  ReviewRace takes the review handlers apart again.     *)
(***************************************************************************)
EXTENDS Integers, Sequences, FiniteSets

CONSTANTS
  Identity,          \* ids of identities rows, existing or still to be created
  Entity,            \* ids of canonical entities
  Decision,          \* ids of proposed decisions
  Investigation,     \* ids of investigations
  InvestigationsOf,  \* entity_investigation_links: entity -> investigations
  Source,            \* (plugin_id, source_url) pairs that observe entities
  Observable,        \* bound: the further observations that may be ingested
  Promoting,         \* the bases of a confidence that reaches the threshold
  AutoFlush,         \* the session's autoflush flag: FALSE in database.py
  MaxEvents,         \* bound on the identity log where Observe or Dispute runs
  None               \* SQL NULL

\* What a confidence is computed from: links (with None) and, for a link, the
\* sources besides its first one that observed the entity.
Basis == Entity \X (Source \union {None})

(***************************************************************************)
(* Noisy-OR is monotone, and a further independent source never lowers the *)
(* weight of an entity: a basis with more in it than a promoting one       *)
(* promotes too.                                                           *)
(***************************************************************************)
ASSUME ConstantsAssumption ==
  /\ InvestigationsOf \in [Entity -> (SUBSET Investigation) \ {{}}]
  /\ Observable \subseteq Entity \X Investigation \X Source
  /\ \A o \in Observable : o[2] \in InvestigationsOf[o[1]]
  /\ Promoting \subseteq SUBSET Basis
  /\ {} \notin Promoting
  /\ \A B \in Promoting : \A C \in SUBSET Basis :
       B \subseteq C => C \in Promoting
  /\ AutoFlush \in BOOLEAN
  /\ MaxEvents \in Nat
  /\ None \notin Identity

VARIABLES
  status,          \* identities.status, "absent" before the row exists
  mergedInto,      \* identities.merged_into
  entities,        \* identity_entities: the entities linked to an identity
  confidence,      \* identities.confidence, as the basis it was computed from
  records,         \* identity_merge_records, in insertion order
  items,           \* review_queue, by its unique decision_id
  decisionEvents,  \* decision_events, counted by decision and action
  identityEvents,  \* identity_events, in insertion order
  observations     \* what ingestion has recorded besides the first observations

vars == <<status, mergedInto, entities, confidence,
          records, items, decisionEvents, identityEvents, observations>>

Status == {"absent", "tentative", "confirmed", "disputed", "merged"}

MergeRecord == [decision  : Decision,
                source    : Identity,
                target    : Identity,
                moved     : SUBSET Entity,
                targetHad : SUBSET Entity,   \* history: target before the merge
                reverted  : BOOLEAN]

NoItem == [status |-> "absent", candidate |-> None, target |-> None]

Item == {NoItem} \union [status    : {"pending", "rejected", "executed"},
                         candidate : Identity,
                         target    : Identity \union {None}]

DecisionAction ==
  {"requested", "evaluated", "approved", "rejected", "executed", "reverted"}

IdentityEvent ==
  [action   : {"created", "promoted", "disputed", "merged", "split"},
   identity : Identity,
   source   : Identity \union {None},
   target   : Identity \union {None},
   counted  : SUBSET Basis]        \* the confidence in the details of "created"

TypeOK ==
  /\ status \in [Identity -> Status]
  /\ mergedInto \in [Identity -> Identity \union {None}]
  /\ entities \in [Identity -> SUBSET Entity]
  /\ confidence \in [Identity -> SUBSET Basis]
  /\ records \in Seq(MergeRecord)
  /\ items \in [Decision -> Item]
  /\ decisionEvents \in [Decision -> [DecisionAction -> Nat]]
  /\ identityEvents \in Seq(IdentityEvent)
  /\ observations \subseteq Observable

Init ==
  /\ status = [i \in Identity |-> "absent"]
  /\ mergedInto = [i \in Identity |-> None]
  /\ entities = [i \in Identity |-> {}]
  /\ confidence = [i \in Identity |-> {}]
  /\ records = <<>>
  /\ items = [d \in Decision |-> NoItem]
  /\ decisionEvents = [d \in Decision |-> [a \in DecisionAction |-> 0]]
  /\ identityEvents = <<>>
  /\ observations = {}

-----------------------------------------------------------------------------
(* Helpers the handlers share.  A definition with the parameters of the    *)
(* next one and no comment of its own is a faulty variant of it, used to   *)
(* test that the properties below can fail.                                *)

Exists(i) == status[i] # "absent"

\* The investigations the entities of S, or those of an identity, are linked to.
LinkedTo(S) == UNION {InvestigationsOf[e] : e \in S}
ScopesOf(i) == LinkedTo(entities[i])

Event(action, i, s, t) ==
  [action |-> action, identity |-> i, source |-> s, target |-> t,
   counted |-> {}]

CreatedEvent(i, basis) ==
  [Event("created", i, None, None) EXCEPT !.counted = basis]

LogIdentity(newEvents) == identityEvents' = identityEvents \o newEvents

\* One DecisionEvent for every action of the set A.
LogDecision(d, A) ==
  decisionEvents' =
    [decisionEvents EXCEPT ![d] =
       [a \in DecisionAction |-> IF a \in A THEN @[a] + 1 ELSE @[a]]]

\* No event of the decision is on record, so process does not skip it.
UnprocessedUnlessExecuted(d) == decisionEvents[d]["executed"] = 0
Unprocessed(d) == \A a \in DecisionAction : decisionEvents[d][a] = 0

\* What _recompute_confidence multiplies up for the links S: a weight each, and
\* more for an entity that other sources saw in the investigation v too.
Evidence(S, v) ==
  (S \X {None}) \union {b \in S \X Source : <<b[1], v, b[2]>> \in observations}

\* The tail of _recompute_confidence: an identity at status st is promoted when
\* the basis of its confidence reaches the threshold.
Promotes(st, basis) == st = "tentative" /\ basis \in Promoting

ActiveStatusAfter(st, basis) == IF Promotes(st, basis) THEN "active" ELSE st
StatusAfter(st, basis) == IF Promotes(st, basis) THEN "confirmed" ELSE st

PromotionEvents(i, st, basis) ==
  IF Promotes(st, basis) THEN <<Event("promoted", i, None, None)>> ELSE <<>>

\* The links a query sees when `written` are in the database and `pending`
\* are still in the session's unit of work.
VisibleCommitted(written, pending) == written
Visible(written, pending) ==
  IF AutoFlush THEN written \union pending ELSE written

-----------------------------------------------------------------------------
(* IdentityResolutionService.resolve_investigation, for one candidate: any *)
(* nonempty set of an investigation's entities.                            *)

CandidatesIn(v) ==
  (SUBSET {e \in Entity : v \in InvestigationsOf[e]}) \ {{}}

\* _find_identity_containing_all accepts an identity inside the candidate.
Matching(S) == {i \in Identity : entities[i] # {} /\ entities[i] \subseteq S}
MatchedIn(v) == UNION {Matching(S) : S \in CandidatesIn(v)}

ResolveExisting(v) ==
  \E i \in MatchedIn(v) :
    LET basis == Evidence(entities[i], v)
    IN /\ confidence' = [confidence EXCEPT ![i] = basis]
       /\ status' = [status EXCEPT ![i] = StatusAfter(@, basis)]
       /\ LogIdentity(PromotionEvents(i, status[i], basis))
       /\ UNCHANGED <<mergedInto, entities, records, items, decisionEvents,
                      observations>>

\* The new links are pending while the confidence is computed; the promotion
\* is logged before the creation.
ResolveNew(v, S) ==
  /\ Matching(S) = {}
  /\ \E i \in Identity :
       LET basis == Evidence(Visible({}, S), v)
       IN /\ ~Exists(i)
          /\ entities' = [entities EXCEPT ![i] = S]
          /\ confidence' = [confidence EXCEPT ![i] = basis]
          /\ status' = [status EXCEPT ![i] = StatusAfter("tentative", basis)]
          /\ LogIdentity(PromotionEvents(i, "tentative", basis)
                           \o <<CreatedEvent(i, basis)>>)
          /\ UNCHANGED <<mergedInto, records, items, decisionEvents, observations>>

\* Ingestion records a further source of an entity in an investigation.  It
\* recomputes no confidence.
Observe ==
  \E o \in Observable \ observations :
    /\ Len(identityEvents) < MaxEvents
    /\ observations' = observations \union {o}
    /\ UNCHANGED <<status, mergedInto, entities, confidence,
                   records, items, decisionEvents, identityEvents>>

\* dispute_identity, from any status.
Dispute(i) ==
  /\ Exists(i)
  /\ Len(identityEvents) < MaxEvents
  /\ status' = [status EXCEPT ![i] = "disputed"]
  /\ LogIdentity(<<Event("disputed", i, None, None)>>)
  /\ UNCHANGED <<mergedInto, entities, confidence,
                 records, items, decisionEvents, observations>>

-----------------------------------------------------------------------------
(* Executing a decision                                                    *)

\* _record_merge: what the source owns now.
Record(d, s, t) ==
  Append(records, [decision |-> d, source |-> s, target |-> t,
                   moved |-> entities[s], targetHad |-> entities[t],
                   reverted |-> FALSE])

\* merge_identities accepts the merge when the target too owns an entity of the
\* investigation v of the draft.
MergeableAnywhere(s, t, v) == Exists(s) /\ Exists(t) /\ s # t
Mergeable(s, t, v) ==
  /\ Exists(s) /\ Exists(t)
  /\ s # t
  /\ v \in ScopesOf(t)

\* Reparenting: a link the target has too is deleted, the others change hands.
LinksDroppedByMerge(s, t) == [entities EXCEPT ![s] = {}]
LinksCopiedByMerge(s, t) == [entities EXCEPT ![t] = @ \union entities[s]]
LinksAfterMerge(s, t) == [entities EXCEPT ![s] = {}, ![t] = @ \union entities[s]]

\* The successful part of _execute_auto_merge, with merge_identities, in one of
\* the draft's investigations.
ExecuteMerge(d, s, t) ==
  \E v \in ScopesOf(s) :
    LET basis == Evidence(Visible(entities[t], entities[s]), v)
    IN /\ Mergeable(s, t, v)
       /\ records' = Record(d, s, t)
       /\ entities' = LinksAfterMerge(s, t)
       /\ confidence' = [confidence EXCEPT ![t] = basis]
       /\ status' = [status EXCEPT ![s] = "merged", ![t] = StatusAfter(@, basis)]
       /\ mergedInto' = [mergedInto EXCEPT ![s] = t]
       /\ LogIdentity(PromotionEvents(t, status[t], basis)
                        \o <<Event("merged", t, s, None)>>)
       /\ UNCHANGED observations

AlwaysConfirmed(st) == "confirmed"
ManuallyPromoted(st) == IF st = "tentative" THEN "confirmed" ELSE st

\* _execute_promote_to_global: the event is logged whatever the status is.
ExecutePromotion(i) ==
  /\ Exists(i)
  /\ status' = [status EXCEPT ![i] = ManuallyPromoted(@)]
  /\ LogIdentity(<<Event("promoted", i, None, None)>>)
  /\ UNCHANGED <<mergedInto, entities, confidence, records, observations>>

-----------------------------------------------------------------------------
(* DecisionEngine.process, one action per kind of decision and outcome     *)

ProcessAutoMerge(d, s, t) ==
  /\ Unprocessed(d)
  /\ ExecuteMerge(d, s, t)
  /\ LogDecision(d, {"requested", "evaluated", "executed"})
  /\ UNCHANGED items

\* A DecisionEngineError is logged as a rejection and raised; the caller
\* commits the events.  With no investigation for the draft the merge record
\* has been written before the error.
ProcessAutoMergeFails(d, s, t) ==
  /\ Unprocessed(d)
  /\ \/ /\ ~Exists(s) \/ ~Exists(t)
        /\ UNCHANGED records
     \/ /\ Exists(s) /\ Exists(t)
        /\ ScopesOf(s) = {}
        /\ records' = Record(d, s, t)
  /\ LogDecision(d, {"requested", "evaluated", "rejected"})
  /\ UNCHANGED <<status, mergedInto, entities, confidence,
                 items, identityEvents, observations>>

ProcessPromotion(d, i) ==
  /\ Unprocessed(d)
  /\ ExecutePromotion(i)
  /\ LogDecision(d, {"requested", "evaluated", "executed"})
  /\ UNCHANGED items

ProcessPromotionFails(d, i) ==
  /\ Unprocessed(d)
  /\ ~Exists(i)
  /\ LogDecision(d, {"requested", "evaluated", "rejected"})
  /\ UNCHANGED <<status, mergedInto, entities, confidence,
                 records, items, identityEvents, observations>>

\* _execute_queue_for_review checks neither identity.
ProcessQueue(d, s, t) ==
  /\ Unprocessed(d)
  /\ items[d].status = "absent"
  /\ items' = [items EXCEPT ![d] =
                 [status |-> "pending", candidate |-> s, target |-> t]]
  /\ LogDecision(d, {"requested", "evaluated"})
  /\ UNCHANGED <<status, mergedInto, entities, confidence,
                 records, identityEvents, observations>>

ProcessReject(d) ==
  /\ Unprocessed(d)
  /\ LogDecision(d, {"requested", "rejected"})
  /\ UNCHANGED <<status, mergedInto, entities, confidence,
                 records, items, identityEvents, observations>>

-----------------------------------------------------------------------------
(* The review handlers and split_identity                                  *)

\* approve_review_item past its guard.  Every error rolls back.
ExecuteApproval(d) ==
  /\ \/ /\ items[d].target = None
        /\ ExecutePromotion(items[d].candidate)
     \/ /\ items[d].target # None
        /\ ExecuteMerge(d, items[d].candidate, items[d].target)
  /\ items' = [items EXCEPT ![d].status = "executed"]
  /\ LogDecision(d, {"approved", "evaluated", "executed"})

\* reject_review_item past its guard.
ExecuteRejection(d) ==
  /\ items' = [items EXCEPT ![d].status = "rejected"]
  /\ LogDecision(d, {"rejected"})
  /\ UNCHANGED <<status, mergedInto, entities, confidence,
                 records, identityEvents, observations>>

ApproveResolved(d) == items[d].status # "absent" /\ ExecuteApproval(d)
Approve(d) == items[d].status = "pending" /\ ExecuteApproval(d)

Reject(d) == items[d].status = "pending" /\ ExecuteRejection(d)

\* Inserting a link the source already has violates the primary key.
SplitConflicts(r) == r.moved \intersect entities[r.source] # {}

\* An entity found on the target leaves it, one that moved on from there is
\* linked to the source as well.
LinksAfterSplit(r) ==
  [entities EXCEPT ![r.target] = @ \ r.moved, ![r.source] = @ \union r.moved]

SplitRecordOpen(k) == records
SplitRecord(k) == [records EXCEPT ![k].reverted = TRUE]

PointerKept(r) == mergedInto
PointerCleared(r) == [mergedInto EXCEPT ![r.source] = None]

\* _find_identity_investigation of the source, from the links the session sees;
\* "global" where it sees none.
SplitScopes(S) == IF S = {} THEN {None} ELSE LinkedTo(S)

Split(k) ==
  LET r == records[k]
      links == Visible(entities[r.source], r.moved)
  IN /\ ~r.reverted
     /\ Exists(r.source) /\ Exists(r.target)
     /\ ~SplitConflicts(r)
     /\ entities' = LinksAfterSplit(r)
     /\ \E v \in SplitScopes(links) :
          LET basis == Evidence(links, v)
          IN /\ confidence' = [confidence EXCEPT ![r.source] = basis]
             /\ status' = [status EXCEPT ![r.source] =
                             StatusAfter("tentative", basis)]
             /\ LogIdentity(PromotionEvents(r.source, "tentative", basis)
                              \o <<Event("split", r.source, r.source, r.target)>>)
     /\ mergedInto' = PointerCleared(r)
     /\ records' = SplitRecord(k)
     /\ LogDecision(r.decision, {"reverted"})
     /\ UNCHANGED <<items, observations>>

-----------------------------------------------------------------------------
Resolve ==
  \E v \in Investigation :
    \/ ResolveExisting(v)
    \/ \E S \in CandidatesIn(v) : ResolveNew(v, S)

Process(d) ==
  \/ \E s, t \in Identity : ProcessAutoMerge(d, s, t)
  \/ \E s, t \in Identity : ProcessAutoMergeFails(d, s, t)
  \/ \E i \in Identity : ProcessPromotion(d, i)
  \/ \E i \in Identity : ProcessPromotionFails(d, i)
  \/ \E s \in Identity, t \in Identity \union {None} : ProcessQueue(d, s, t)
  \/ ProcessReject(d)

Next ==
  \/ Observe
  \/ Resolve
  \/ \E i \in Identity : Dispute(i)
  \/ \E d \in Decision : Process(d)
  \/ \E d \in Decision : Approve(d)
  \/ \E d \in Decision : Reject(d)
  \/ \E k \in 1..Len(records) : Split(k)

Spec == Init /\ [][Next]_vars

-----------------------------------------------------------------------------
(* Safety.  A merge tombstones its source and a split brings it back, in   *)
(* any order and over any chain of merges.                                 *)

\* An identity that points at its survivor owns no entity, and a merged
\* identity points at one: no query by entity finds a tombstone (identity.py
\* merge_identities reparents every link before it marks the source).
TombstonesOwnNothing ==
  \A i \in Identity :
    /\ mergedInto[i] # None => entities[i] = {}
    /\ status[i] = "merged" => mergedInto[i] # None

\* Following merged_into always ends: no set of identities points only into
\* itself.  merge_identities has no check for this; it follows from the
\* investigation check, which a tombstone cannot pass.
MergesEnd ==
  \A S \in SUBSET Identity :
    S # {} => \E i \in S : mergedInto[i] \notin S

\* As long as a merge that moved entities is not reverted, its source is
\* empty, and no two such merges have one source: split_identity can re-insert
\* every link without a primary key conflict.
SplitsCannotConflict ==
  \A k \in DOMAIN records :
    (~records[k].reverted /\ records[k].moved # {}) =>
      /\ entities[records[k].source] = {}
      /\ \A l \in DOMAIN records :
           (/\ l # k
            /\ ~records[l].reverted
            /\ records[l].moved # {}) => records[l].source # records[k].source

\* A decision takes effect at most once, whether process or a reviewer carries
\* it out, and never after it was rejected (idempotency of decision_engine.py).
DecidedOnce ==
  \A d \in Decision :
    /\ decisionEvents[d]["requested"] <= 1
    /\ decisionEvents[d]["executed"] + decisionEvents[d]["rejected"] <= 1

\* What a review item says is what the audit trail of its decision says.
ItemsMatchTrail ==
  \A d \in Decision :
    LET n == decisionEvents[d]
    IN CASE items[d].status = "pending" ->
              n["approved"] = 0 /\ n["executed"] = 0 /\ n["rejected"] = 0
         [] items[d].status = "executed" ->
              n["approved"] = 1 /\ n["executed"] = 1 /\ n["rejected"] = 0
         [] items[d].status = "rejected" ->
              n["approved"] = 0 /\ n["executed"] = 0 /\ n["rejected"] = 1
         [] items[d].status = "absent" ->
              n["approved"] = 0

\* "Confidence >= IDENTITY_PROMOTION_THRESHOLD -> confirmed (auto)"
\* (identity.py): no identity stays tentative with a confidence that reaches the
\* threshold, nor with links that reach it without any further source.  Sources
\* that are ingested later count when the identity is next resolved, and in the
\* investigation of that resolution only.
TentativeIsBelowThreshold ==
  \A i \in Identity : status[i] = "tentative" =>
    /\ confidence[i] \notin Promoting
    /\ entities[i] \X {None} \notin Promoting

-----------------------------------------------------------------------------
(* Action properties                                                       *)

Owned == UNION {entities[i] : i \in Identity}

\* Merging and splitting only move links: an entity that some identity owns
\* is owned by some identity ever after.
NoEntityLost == [][Owned \subseteq Owned']_vars

\* A dispute is not overridden by recomputing a confidence or by a promotion:
\* only merging the identity away or splitting it off again ends it.
DisputeSticks ==
  [][\A i \in Identity :
       status[i] = "disputed" /\ status'[i] # "disputed" =>
         \/ mergedInto[i] = None /\ mergedInto'[i] # None
         \/ \E k \in DOMAIN records :
              /\ records[k].source = i
              /\ ~records[k].reverted /\ records'[k].reverted]_vars

\* "Split completely reverses a merge operation." (tests/
\* test_decision_engine.py): a split takes nothing from the target that the
\* target owned before the merge.
SplitKeepsTargetsOwn ==
  [][\A k \in DOMAIN records :
       ~records[k].reverted /\ records'[k].reverted =>
         records[k].targetHad \intersect entities[records[k].target]
           \subseteq entities'[records[k].target]]_vars
=============================================================================

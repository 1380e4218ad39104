--------------------------- MODULE EntityService ---------------------------
(***************************************************************************)
(* The canonical entity service:                                           *)
(* src/argus/canonical/services/canonical_entity.py.                       *)
(*                                                                         *)
(* It upserts canonical entities, links them to investigations, and        *)
(* clusters them into identities, by the overlap of what a caller brings   *)
(* with what an identity owns; it is older than IdentityResolutionService, *)
(* writes the same tables, and looks neither at investigations nor at      *)
(* tombstones.  An action is one call and the flush it ends with.          *)
(*                                                                         *)
(* autoflush is a setting of the session: off in src/argus/database.py, on *)
(* in sessions made with SQLAlchemy's defaults.  Without it a query does   *)
(* not see rows the call itself has added.                                 *)
(*                                                                         *)
(* Weights are in tenths.  An entity without a link has the weight zero,   *)
(* which keeps confidences of any two identities on one scale.             *)
(***************************************************************************)
EXTENDS NoisyOr, Naturals, FiniteSets

CONSTANTS
  EntityKey,     \* entities, by (type, normalized value)
  InvId,         \* ids of investigations
  IdentityId,
  SignalTables   \* what signal_weights may be: an entity's weight, by its type

ASSUME ServiceAssumption ==
  /\ IsFiniteSet(EntityKey) /\ IsFiniteSet(InvId) /\ IsFiniteSet(IdentityId)
  /\ SignalTables \subseteq [EntityKey -> 1 .. 10]

VARIABLES
  autoflush,
  stored,       \* canonical_entities
  entityLinks,  \* entity_investigation_links
  inCount,      \* canonical_entities.investigation_count
  weight,       \* identity_entities.signal_weight, 0 where there is no link
  confidence,   \* identities.confidence
  status        \* identities.status

entityTables == <<stored, entityLinks, inCount>>
identityTables == <<weight, confidence, status>>
serviceVars == <<autoflush, entityTables, identityTables>>

ServiceTypeOK ==
  /\ autoflush \in BOOLEAN
  /\ stored \in SUBSET EntityKey
  /\ entityLinks \in [EntityKey -> SUBSET InvId]
  /\ inCount \in [EntityKey -> Nat]
  /\ weight \in [IdentityId -> [EntityKey -> 0 .. 10]]
  /\ confidence \in [IdentityId -> Nat]
  /\ status \in [IdentityId -> {"none", "tentative", "confirmed", "merged"}]

ServiceInit ==
  /\ autoflush \in BOOLEAN
  /\ stored = {}
  /\ entityLinks = [e \in EntityKey |-> {}]
  /\ inCount = [e \in EntityKey |-> 0]
  /\ weight = [i \in IdentityId |-> [e \in EntityKey |-> 0]]
  /\ confidence = [i \in IdentityId |-> 0]
  /\ status = [i \in IdentityId |-> "none"]

Existing == {i \in IdentityId : status[i] # "none"}
Owned(i) == {e \in EntityKey : weight[i][e] > 0}

-----------------------------------------------------------------------------
(* Confidence.  A definition with the parameters of the next one and no    *)
(* comment of its own is a faulty variant of it, used to test that the     *)
(* properties below can fail.                                              *)

Certain == Certainty(EntityKey, 10)
NoisyOrOf(signals) == Certain - Doubt(signals, 10)

\* The threshold of a confirmation, 0.8.
Confirming(c) == c * 10 >= 8 * Certain

\* What the query of _recompute_identity_confidence returns.
VisibleAlways(i) == weight[i]
Visible(i) == IF autoflush THEN weight'[i] ELSE weight[i]

\* _recompute_identity_confidence, for the identity i as the call leaves it.
\* A tentative identity is promoted; nothing demotes one.
Recompute(i, was) ==
  LET c == NoisyOrOf(Visible(i))
  IN  /\ confidence' = [confidence EXCEPT ![i] = c]
      /\ status' = [was EXCEPT ![i] =
                      IF @ = "tentative" /\ Confirming(c) THEN "confirmed" ELSE @]

-----------------------------------------------------------------------------
(* Entities.                                                               *)

\* upsert_entity.  For an entity that is there it only counts the source, if
\* the call names one, whether it has been counted before or not; nothing but
\* a display reads source_count, and it is left out.
UpsertCanonical(e) ==
  /\ e \notin stored
  /\ stored' = stored \union {e}
  /\ UNCHANGED <<autoflush, entityLinks, inCount, identityTables>>

\* link_entity_to_investigation: the first link of the two counts.
LinkToInvestigation(e, i) ==
  /\ e \in stored
  /\ i \notin entityLinks[e]
  /\ entityLinks' = [entityLinks EXCEPT ![e] = @ \union {i}]
  /\ inCount' = [inCount EXCEPT ![e] = @ + 1]
  /\ UNCHANGED <<autoflush, stored, identityTables>>

-----------------------------------------------------------------------------
(* Identities.                                                             *)

\* Half of what the identity owns, or two entities, are in the input.
Overlaps(i, S) ==
  LET shared == Cardinality(S \intersect Owned(i))
  IN  shared * 2 >= Cardinality(Owned(i)) \/ shared >= 2

\* More shared entities, or as many of fewer.
Closer(i, j, S) ==
  LET Shared(k) == Cardinality(S \intersect Owned(k))
  IN  \/ Shared(i) > Shared(j)
      \/ /\ Shared(i) = Shared(j)
         /\ Cardinality(Owned(i)) < Cardinality(Owned(j))

\* Identities get_or_create_identity may choose; the order of rows decides
\* between equals.  A tombstone that owns links is a candidate like another.
Candidates(S) == {i \in Existing : Owned(i) \intersect S # {} /\ Overlaps(i, S)}
Best(S) == {i \in Candidates(S) : \A j \in Candidates(S) : ~Closer(j, i, S)}

\* The links of i with those of S added; a link that is there stays as it is.
WithLinks(i, S, table) ==
  [e \in EntityKey |-> IF e \in S /\ weight[i][e] = 0 THEN table[e] ELSE weight[i][e]]

\* get_or_create_identity, when an identity is close enough.
MergeIntoIdentity(S, table) ==
  \E i \in Best(S) :
    /\ weight' = [weight EXCEPT ![i] = WithLinks(i, S, table)]
    /\ Recompute(i, status)
    /\ UNCHANGED <<autoflush, entityTables>>

\* get_or_create_identity, when none is: the identity is tentative, and
\* without autoflush its confidence is that of no links.
CreateIdentity(S, table) ==
  /\ Candidates(S) = {}
  /\ \E i \in IdentityId \ Existing :
       /\ weight' = [weight EXCEPT ![i] = WithLinks(i, S, table)]
       /\ Recompute(i, [status EXCEPT ![i] = "tentative"])
  /\ UNCHANGED <<autoflush, entityTables>>

TargetKeeps(own, moved) == IF own > 0 THEN own ELSE moved
\* A link both have keeps the higher weight; any other is reparented.
KeptWeight(own, moved) == IF moved > own THEN moved ELSE own

\* merge_identities refuses an identity and itself, or one that is not there;
\* a tombstone can be merged again, and be merged into.
MergeIdentityInto(source, target) ==
  /\ source # target /\ {source, target} \subseteq Existing
  /\ weight' = [weight EXCEPT
       ![source] = [e \in EntityKey |-> 0],
       ![target] = [e \in EntityKey |-> KeptWeight(@[e], weight[source][e])]]
  /\ Recompute(target, [status EXCEPT ![source] = "merged"])
  /\ UNCHANGED <<autoflush, entityTables>>

ServiceNext ==
  \/ \E e \in EntityKey : UpsertCanonical(e)
  \/ \E e \in EntityKey, i \in InvId : LinkToInvestigation(e, i)
  \/ \E S \in (SUBSET stored) \ {{}}, table \in SignalTables :
       MergeIntoIdentity(S, table) \/ CreateIdentity(S, table)
  \/ \E source, target \in IdentityId : MergeIdentityInto(source, target)

ServiceSpec == ServiceInit /\ [][ServiceNext]_serviceVars

-----------------------------------------------------------------------------
(* Properties                                                              *)

\* The stored confidence of a living identity is the noisy-or of its links if
\* the session flushes by itself, and never above it if not; one that is
\* confirmed has the confidence for it (canonical_entity.py:371-413).
ConfidenceIsEarned ==
  \A i \in Existing :
    status[i] # "merged" =>
      /\ confidence[i] <= NoisyOrOf(weight[i])
      /\ autoflush => confidence[i] = NoisyOrOf(weight[i])
      /\ status[i] = "confirmed" <=> Confirming(confidence[i])

\* The best signal an entity has in any identity never gets worse, through
\* merges into tombstones and back as well (canonical_entity.py:454-468).
SignalsAreKept ==
  [][\A i \in IdentityId, e \in EntityKey :
       \E j \in IdentityId : weight'[j][e] >= weight[i][e]]_serviceVars
=============================================================================

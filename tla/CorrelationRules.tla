-------------------------- MODULE CorrelationRules --------------------------
(***************************************************************************)
(* The correlation engine and the rules over it:                           *)
(* src/argus/canonical/correlation.py and src/argus/canonical/rules/.      *)
(*                                                                         *)
(* A draft identity grows while plugin results arrive.  At any moment it   *)
(* can be correlated with a global identity: entities and relationships    *)
(* the two share become signals, signals a score, and the registered       *)
(* rules propose what to do with the pair.  Correlating and judging change *)
(* nothing, so they are operators over the draft; the registry of rules is *)
(* state, because the order of registration and a replaced or raising      *)
(* watchlist checker decide between proposals.                             *)
(*                                                                         *)
(* Weights and scores are integers: a weight in hundredths, a score in     *)
(* thousandths of the noisy-or of certainties.                             *)
(***************************************************************************)
EXTENDS NoisyOr, Naturals, Sequences, FiniteSetsExt

CONSTANTS
  Identifier,    \* (type, normalized value) pairs
  TypeOf,        \* entity -> its type
  Relation,      \* relationships, by the key of _rel_key
  EvidenceId,    \* evidence ids
  GlobalIdentifiers,  \* what the global identity owns
  GlobalRelations,
  Watched,       \* entities on a user's watchlist
  Findable       \* bound: the (entity or relationship, evidence) pairs that
                 \* plugin results bring

SignalOfType ==
  [email |-> "email_exact", phone |-> "phone_e164", btc |-> "wallet_address",
   eth |-> "wallet_address", wallet |-> "wallet_address",
   pgp_fingerprint |-> "pgp_fingerprint", username |-> "username_exact",
   avatar_hash |-> "avatar_phash", domain |-> "domain_owner",
   display_name |-> "display_name", company |-> "company", city |-> "city",
   country |-> "country", language |-> "language"]

ASSUME EvidenceAssumption ==
  /\ IsFiniteSet(EvidenceId)
  /\ GlobalIdentifiers \subseteq Identifier /\ GlobalRelations \subseteq Relation
  /\ Watched \subseteq Identifier
  /\ Findable \subseteq (Identifier \union Relation) \X EvidenceId

VARIABLES
  found,    \* (entity, evidence) pairs of the draft
  edges,    \* (relationship, evidence) pairs of the draft
  rules,    \* RuleRegistry._rules: rule ids in order of registration
  checker   \* the checker of the registered WatchlistRule

draft == <<found, edges>>
rulesVars == <<found, edges, rules, checker>>

RuleId == {"high_confidence_auto_merge", "review_band",
           "no_overlap_promotion", "watchlist"}

\* The default checker answers with no hit; an injected one looks the values
\* up, and its lookup may raise.
Checker == {"empty", "lookup", "raises"}

RulesTypeOK ==
  /\ found \in SUBSET (Identifier \X EvidenceId)
  /\ edges \in SUBSET (Relation \X EvidenceId)
  /\ rules \in Seq(RuleId)
  /\ checker \in Checker

RulesInit ==
  /\ found = {}
  /\ edges = {}
  /\ rules = <<>>
  /\ checker = "empty"

-----------------------------------------------------------------------------
(* Signals and tiers.  A definition with the parameters of the next one    *)
(* and no comment of its own is a faulty variant of it, used to test that  *)
(* the properties below can fail.                                          *)

Whole == Certainty(EvidenceId, 100)
Unit == 1000 * Whole

Tier1 == {"email_exact", "phone_e164", "wallet_address", "pgp_fingerprint"}
Tier2 == {"username_exact", "avatar_phash", "domain_owner"}

TierOf(signal) == IF signal \in Tier1 THEN 1 ELSE IF signal \in Tier2 THEN 2 ELSE 3

Weight ==
  [email_exact |-> 90, phone_e164 |-> 90, wallet_address |-> 95,
   pgp_fingerprint |-> 95, username_exact |-> 55, avatar_phash |-> 50,
   domain_owner |-> 45, display_name |-> 20, company |-> 18, city |-> 15,
   country |-> 12, language |-> 10]

TierIsUncapped == <<Unit, Unit, 450 * Whole>>
TierCap == <<Unit, 750 * Whole, 450 * Whole>>

\* An entity both identities have is matched only if its type stands for a
\* signal: a shared address or URL is not.
Matched == {p \in found : /\ p[1] \in GlobalIdentifiers
                          /\ TypeOf[p[1]] \in DOMAIN SignalOfType}

EntitySignals ==
  {LET signal == SignalOfType[TypeOf[p[1]]]
   IN  [evidence |-> p[2], tier |-> TierOf(signal), weight |-> Weight[signal]]
     : p \in Matched}

\* A shared relationship is a signal of tier 3 with the weight of a domain's
\* owner, which is of tier 2.
RelationSignals ==
  {[evidence |-> p[2], tier |-> 3, weight |-> Weight.domain_owner]
     : p \in {q \in edges : q[1] \in GlobalRelations}}

Signals == EntitySignals \union RelationSignals

\* Signals of one evidence are dependent: the strongest stands for them.
Strongest(S, v) == Max({0} \union {s.weight : s \in {r \in S : r.evidence = v}})

RawScore(S) ==
  IF S = {} THEN 0
  ELSE 1000 * (Whole - Doubt([v \in EvidenceId |-> Strongest(S, v)], 100))

Capped(S, t) == Min({RawScore({s \in S : s.tier = t}), TierCap[t]})

WeakestDecides(S) == IF S = {} THEN 3 ELSE Max({s.tier : s \in S})
\* The strongest tier with a signal decides; without any, tier 3 does.
DecisiveTier(S) == Min({3} \union {s.tier : s \in S})

\* Weaker tiers corroborate with a tenth of their score.
Boost(S, t) == IF t > DecisiveTier(S) THEN Capped(S, t) \div 10 ELSE 0

ScoreOf(S) ==
  Min({Unit, Capped(S, DecisiveTier(S)) + Boost(S, 2) + Boost(S, 3)})

\* CorrelationResult
Correlation ==
  LET S == Signals
  IN  [score    |-> ScoreOf(S),
       tier     |-> DecisiveTier(S),
       matched  |-> {p[1] : p \in Matched},
       evidence |-> {s.evidence : s \in S}]

Score == Correlation.score

-----------------------------------------------------------------------------
(* The rules: when each one fires, and what it proposes.                   *)

Proposal == [high_confidence_auto_merge |-> "auto_merge",
             review_band |-> "queue_for_review",
             no_overlap_promotion |-> "promote_to_global",
             watchlist |-> "queue_for_review"]

\* DECISION_PRIORITY: the most conservative proposal wins.
Priority == [reject |-> 0, queue_for_review |-> 1, promote_to_global |-> 2,
             auto_merge |-> 3]

Threshold == 900 * Whole
LowerBound == 500 * Whole

\* A rule that raises proposes nothing: the engine logs the exception and
\* goes on.
Fires(r, result) ==
  \/ /\ r = "high_confidence_auto_merge"
     /\ result.score >= Threshold
     /\ result.tier = 1
  \/ /\ r = "review_band"
     /\ result.score >= LowerBound
     /\ result.score < Threshold
  \/ /\ r = "no_overlap_promotion"
     /\ result.matched = {}
     /\ result.evidence # {}
  \/ /\ r = "watchlist"
     /\ checker = "lookup"
     /\ result.matched \intersect Watched # {}

\* resolve_conflicts sorts by priority and then by the score, which all
\* proposals for one pair share; the sort is stable.
Precedes(i, j) ==
  LET rank(k) == Priority[Proposal[rules[k]]]
  IN  rank(i) < rank(j) \/ (rank(i) = rank(j) /\ i <= j)

FirstRegistered(fired) == rules[CHOOSE i \in fired : \A j \in fired : i <= j]
Winner(fired) == rules[CHOOSE i \in fired : \A j \in fired : Precedes(i, j)]

\* RuleEngine.evaluate
Verdict ==
  LET result == Correlation
      fired  == {i \in DOMAIN rules : Fires(rules[i], result)}
  IN  IF fired = {} THEN "none" ELSE Proposal[Winner(fired)]

-----------------------------------------------------------------------------
(* A plugin result adds an entity or a relationship to the draft.          *)

FindEntity(e, v) ==
  /\ <<e, v>> \in Findable \ found
  /\ found' = found \union {<<e, v>>}
  /\ UNCHANGED <<edges, rules, checker>>

FindRelationship(g, v) ==
  /\ <<g, v>> \in Findable \ edges
  /\ edges' = edges \union {<<g, v>>}
  /\ UNCHANGED <<found, rules, checker>>

Registered == Range(rules)

\* RuleRegistry.register refuses a rule it has, unless told to overwrite it;
\* an overwritten rule keeps its place.  A WatchlistRule brings its checker.
Register(r, c, overwrite) ==
  /\ overwrite \/ r \notin Registered
  /\ rules' = IF r \in Registered THEN rules ELSE Append(rules, r)
  /\ checker' = IF r = "watchlist" THEN c ELSE checker
  /\ UNCHANGED draft

\* register_default_rules skips what is registered, or overwrites it all.
RegisterDefaults(c, overwrite) ==
  LET IfAbsent(r) == IF r \in Registered THEN <<>> ELSE <<r>>
  IN  /\ rules' = rules \o IfAbsent("high_confidence_auto_merge")
                       \o IfAbsent("review_band")
                       \o IfAbsent("no_overlap_promotion")
                       \o IfAbsent("watchlist")
      /\ checker' = IF overwrite \/ "watchlist" \notin Registered
                    THEN c ELSE checker
      /\ UNCHANGED draft

\* RuleRegistry.clear
ClearRules ==
  /\ rules' = <<>>
  /\ checker' = "empty"
  /\ UNCHANGED draft

\* The store behind an injected checker goes away, or answers again.
CheckerChanges ==
  /\ checker # "empty"
  /\ checker' \in {"lookup", "raises"} \ {checker}
  /\ UNCHANGED <<draft, rules>>

RulesNext ==
  \/ \E e \in Identifier, v \in EvidenceId : FindEntity(e, v)
  \/ \E g \in Relation, v \in EvidenceId : FindRelationship(g, v)
  \/ \E r \in RuleId, c \in {"empty", "lookup"}, overwrite \in BOOLEAN :
       Register(r, c, overwrite)
  \/ \E c \in {"empty", "lookup"}, overwrite \in BOOLEAN :
       RegisterDefaults(c, overwrite)
  \/ ClearRules
  \/ CheckerChanges

RulesSpec == RulesInit /\ [][RulesNext]_rulesVars

-----------------------------------------------------------------------------
\* The caps keep their promise: exactly the pairs with a strong identifier in
\* common score high enough for an automatic merge, however much weaker
\* evidence the others pile up (correlation.py:549-550).
StrongScoreIsTierOne ==
  (Score >= Threshold) <=> \E p \in Matched : TierOf(SignalOfType[TypeOf[p[1]]]) = 1

\* A watched entity the two identities share goes to a reviewer, in whatever
\* order the rules were registered, unless the checker gives no answer
\* (watchlist.py:5).
WatchedIsReviewed ==
  (/\ "watchlist" \in Registered
   /\ checker = "lookup"
   /\ {p[1] : p \in Matched} \intersect Watched # {}) => Verdict = "queue_for_review"

\* New evidence for a draft never lowers its score, though it may move the
\* pair to another tier, which is scored and capped on its own.
MoreEvidenceNeverLowersScore ==
  [][UNCHANGED draft \/ \A more \in {Signals'} : ScoreOf(more) >= Score]_rulesVars
=============================================================================

--------------------------- MODULE CanonicalProofs ---------------------------
(* Theorems about CorrelationRules and EntityService, for any finite       *)
(* evidence and entities, any rules in any order of registration, any      *)
(* watchlist, and any weights.                                             *)
EXTENDS CorrelationRules, EntityService, Induction

-----------------------------------------------------------------------------
(* Products of naturals over a finite set, as the fold of the community    *)
(* modules computes them: what a noisy-or is made of.                      *)

\* A product of two numbers grows with both.
LEMMA TimesGrows ==
  ASSUME NEW a \in Nat, NEW b \in Nat, NEW c \in Nat, NEW d \in Nat, a <= b, c <= d
  PROVE  a * c \in Nat /\ b * d \in Nat /\ a * c <= b * d
  <1>1. a * c \in Nat /\ b * d \in Nat /\ b * c \in Nat
    OBVIOUS
  <1>2. (b - a) * c \in Nat /\ (b - a) * c = b * c - a * c
    <2>1. b - a \in Nat
      OBVIOUS
    <2>2. QED
      BY <2>1
  <1>3. b * (d - c) \in Nat /\ b * (d - c) = b * d - b * c
    <2>1. d - c \in Nat
      OBVIOUS
    <2>2. QED
      BY <2>1
  <1>4. QED
    BY <1>1, <1>2, <1>3

\* The recursion behind a product, and its order.
Chosen(D) == [s \in (SUBSET D) \ {{}} |-> CHOOSE x \in s : TRUE]

\* it holds the products of the factors of every part of D.
Partial(it, D, factors) ==
  /\ \A s \in SUBSET D : it[s] \in Nat
  /\ it[{}] = 1
  /\ \A s \in (SUBSET D) \ {{}} : it[s] = factors[Chosen(D)[s]] * it[s \ {Chosen(D)[s]}]

\* The order of a fold takes elements of the set that is left.
LEMMA ChosenIsIn ==
  ASSUME NEW D
  PROVE  /\ Chosen(D) \in [(SUBSET D) \ {{}} -> D]
         /\ \A s \in (SUBSET D) \ {{}} : Chosen(D)[s] \in s
  BY DEF Chosen

\* Induction in the order of the fold.
LEMMA InOrder ==
  ASSUME NEW D, IsFiniteSet(D), NEW T, {} \in T,
         \A A \in (SUBSET D) \ {{}} : A \ {Chosen(D)[A]} \in T => A \in T
  PROVE  \A A \in SUBSET D : A \in T
  <1>1. PICK pick : pick = Chosen(D)
    OBVIOUS
  <1>2. /\ \A A \in (SUBSET D) \ {{}} : pick[A] \in A
        /\ \A A \in (SUBSET D) \ {{}} : A \ {pick[A]} \in T => A \in T
    BY <1>1, ChosenIsIn
  <1>3. QED
    BY <1>2, SetsByRemoval

\* The fold that the community modules define by a recursion is well defined.
LEMMA ProductIsPartial ==
  ASSUME NEW D, IsFiniteSet(D), NEW factors \in [D -> Nat]
  PROVE  \E it : Partial(it, D, factors) /\ Product(factors) = it[D]
  <1> DEFINE f == [e \in D |-> [v \in Nat |-> factors[e] * v]]
             Eq(h) == [s \in SUBSET D |->
                         IF s = {} THEN 1
                         ELSE LET x == CHOOSE x \in s : TRUE
                              IN  factors[x] * h[s \ {x}]]
             iter == CHOOSE h : h = Eq(h)
  <1>1. f \in [D -> [Nat -> Nat]]
    OBVIOUS
  <1>2. PICK g : IsFold(g, D, Nat, 1, f, Chosen(D))
    <2>1. 1 \in Nat
      OBVIOUS
    <2> HIDE DEF f
    <2>2. PICK pick : pick = Chosen(D)
      OBVIOUS
    <2>3. /\ pick \in [(SUBSET D) \ {{}} -> D]
          /\ \A A \in (SUBSET D) \ {{}} : pick[A] \in A
      BY <2>2, ChosenIsIn
    <2>4. \E g : IsFold(g, D, Nat, 1, f, pick)
      BY <1>1, <2>1, <2>3, FoldsExist
    <2>5. QED
      BY <2>2, <2>4
  <1>3. g = Eq(g)
    <2>1. ASSUME NEW s \in SUBSET D PROVE g[s] = Eq(g)[s]
      <3>1. CASE s = {}
        BY <1>2, <3>1 DEF IsFold
      <3>2. CASE s # {}
        <4>1. Chosen(D)[s] = CHOOSE x \in s : TRUE
          BY <3>2 DEF Chosen
        <4>2. PICK x : x = Chosen(D)[s]
          OBVIOUS
        <4>3. x \in D /\ s \ {x} \in SUBSET D
          BY <3>2, <4>2, ChosenIsIn
        <4>4. g[s] = f[x][g[s \ {x}]]
          <5> HIDE DEF f
          <5> QED BY <1>2, <3>2, <4>2 DEF IsFold
        <4>5. g[s \ {x}] \in Nat
          BY <1>2, <4>3 DEF IsFold
        <4>6. f[x][g[s \ {x}]] = factors[x] * g[s \ {x}]
          BY <4>3, <4>5
        <4>7. Eq(g)[s] = factors[x] * g[s \ {x}]
          BY <3>2, <4>1, <4>2
        <4>8. QED
          BY <4>4, <4>6, <4>7
      <3>3. QED
        BY <3>1, <3>2
    <2>2. g = [s \in SUBSET D |-> g[s]]
      BY <1>2 DEF IsFold
    <2>3. Eq(g) = [s \in SUBSET D |-> Eq(g)[s]]
      OBVIOUS
    <2> HIDE DEF Eq
    <2>4. QED
      BY <2>1, <2>2, <2>3
  <1>4. iter = Eq(iter)
    BY <1>3
  <1>5. Product(factors) = iter[D]
    BY DEF Product, FoldFunction, FoldFunctionOnSet, MapThenFoldSet
  <1>6. iter[{}] = 1
    <2>1. iter[{}] = Eq(iter)[{}]
      <3> HIDE DEF Eq, iter
      <3> QED BY <1>4
    <2>2. {} \in SUBSET D
      OBVIOUS
    <2>3. QED
      BY <2>1, <2>2
  <1>7. ASSUME NEW s \in (SUBSET D) \ {{}}
        PROVE  iter[s] = factors[Chosen(D)[s]] * iter[s \ {Chosen(D)[s]}]
    <2>1. iter[s] = Eq(iter)[s]
      <3> HIDE DEF Eq, iter
      <3> QED BY <1>4
    <2>2. Chosen(D)[s] = CHOOSE x \in s : TRUE
      BY DEF Chosen
    <2>3. s \in SUBSET D /\ s # {}
      OBVIOUS
    <2> HIDE DEF iter
    <2>4. QED
      BY <2>1, <2>2, <2>3
  <1> HIDE DEF iter, Eq
  <1>8. \A s \in SUBSET D : iter[s] \in Nat
    <2> DEFINE T == {s \in SUBSET D : iter[s] \in Nat}
    <2>1. {} \in T
      BY <1>6
    <2>2. ASSUME NEW A \in (SUBSET D) \ {{}}, A \ {Chosen(D)[A]} \in T PROVE A \in T
      <3>1. Chosen(D)[A] \in D
        BY ChosenIsIn
      <3>2. factors[Chosen(D)[A]] \in Nat /\ iter[A \ {Chosen(D)[A]}] \in Nat
        BY <2>2, <3>1
      <3>3. iter[A] = factors[Chosen(D)[A]] * iter[A \ {Chosen(D)[A]}]
        BY <1>7
      <3>a. \A m, n \in Nat : m * n \in Nat
        OBVIOUS
      <3>b. iter[A] \in Nat
        BY <3>2, <3>3, <3>a
      <3>4. QED
        BY <3>b
    <2>3. \A A \in SUBSET D : A \in T
      <3> HIDE DEF T
      <3> QED BY <2>1, <2>2, InOrder
    <2>4. QED
      BY <2>3
  <1>9. Partial(iter, D, factors)
    BY <1>6, <1>7, <1>8 DEF Partial
  <1>10. QED
    BY <1>5, <1>9

\* A product of naturals is a natural, and grows with its factors.
LEMMA ProductsGrow ==
  ASSUME NEW D, IsFiniteSet(D), NEW f \in [D -> Nat], NEW g \in [D -> Nat],
         \A e \in D : f[e] <= g[e]
  PROVE  Product(f) \in Nat /\ Product(g) \in Nat /\ Product(f) <= Product(g)
  <1>1. PICK a : Partial(a, D, f) /\ Product(f) = a[D]
    BY ProductIsPartial
  <1>2. PICK b : Partial(b, D, g) /\ Product(g) = b[D]
    BY ProductIsPartial
  <1> DEFINE T == {s \in SUBSET D : a[s] <= b[s]}
  <1>3. {} \in T
    BY <1>1, <1>2 DEF Partial
  <1>4. ASSUME NEW A \in (SUBSET D) \ {{}}, A \ {Chosen(D)[A]} \in T PROVE A \in T
    <2>1. PICK x, B : x = Chosen(D)[A] /\ B = A \ {x}
      OBVIOUS
    <2>2. x \in D /\ B \in SUBSET D
      BY <2>1, ChosenIsIn
    <2>3. f[x] \in Nat /\ g[x] \in Nat /\ f[x] <= g[x]
      BY <2>2
    <2>4. a[B] \in Nat /\ b[B] \in Nat /\ a[B] <= b[B]
      BY <1>1, <1>2, <1>4, <2>1, <2>2 DEF Partial
    <2>5. a[A] = f[x] * a[B] /\ b[A] = g[x] * b[B]
      BY <1>1, <1>2, <2>1 DEF Partial
    <2>6. f[x] * a[B] <= g[x] * b[B]
      BY <2>3, <2>4, TimesGrows
    <2>7. QED
      BY <2>5, <2>6
  <1>5. \A A \in SUBSET D : A \in T
    <2> HIDE DEF T
    <2> QED BY <1>3, <1>4, InOrder
  <1>6. QED
    BY <1>1, <1>2, <1>5 DEF Partial

\* p and q in place of one factor each.
LEMMA Regrouped ==
  ASSUME NEW a \in Nat, NEW b \in Nat, NEW c \in Nat
  PROVE  /\ a * b \in Nat
         /\ a * (b * c) = (a * b) * c
         /\ a * (b * c) = b * (a * c)
  OBVIOUS

\* If one factor shrinks to p parts in q, and none grows, so does the product.
LEMMA ProductsShrink ==
  ASSUME NEW D, IsFiniteSet(D), NEW f \in [D -> Nat], NEW g \in [D -> Nat],
         \A e \in D : f[e] <= g[e],
         NEW p \in Nat, NEW q \in Nat, NEW z \in D, q * f[z] <= p * g[z]
  PROVE  q * Product(f) <= p * Product(g)
  <1>1. PICK a : Partial(a, D, f) /\ Product(f) = a[D]
    BY ProductIsPartial
  <1>2. PICK b : Partial(b, D, g) /\ Product(g) = b[D]
    BY ProductIsPartial
  <1> DEFINE T == {s \in SUBSET D : /\ a[s] <= b[s]
                                    /\ z \in s => q * a[s] <= p * b[s]}
  <1>3. {} \in T
    BY <1>1, <1>2 DEF Partial
  <1>4. ASSUME NEW A \in (SUBSET D) \ {{}}, A \ {Chosen(D)[A]} \in T PROVE A \in T
    <2>1. PICK x, B : x = Chosen(D)[A] /\ B = A \ {x}
      OBVIOUS
    <2>2. x \in D /\ B \in SUBSET D
      BY <2>1, ChosenIsIn
    <2>3. f[x] \in Nat /\ g[x] \in Nat /\ f[x] <= g[x]
      BY <2>2
    <2>4. /\ a[B] \in Nat /\ b[B] \in Nat /\ a[B] <= b[B]
          /\ z \in B => q * a[B] <= p * b[B]
      BY <1>1, <1>2, <1>4, <2>1, <2>2 DEF Partial
    <2>5. a[A] = f[x] * a[B] /\ b[A] = g[x] * b[B]
      BY <1>1, <1>2, <2>1 DEF Partial
    <2>6. f[x] * a[B] <= g[x] * b[B]
      BY <2>3, <2>4, TimesGrows
    <2>7. ASSUME z \in A PROVE q * (f[x] * a[B]) <= p * (g[x] * b[B])
      <3>1. CASE z = x
        <4>1. q * f[x] \in Nat /\ p * g[x] \in Nat /\ q * f[x] <= p * g[x]
          BY <2>3, <3>1, Regrouped
        <4>2. (q * f[x]) * a[B] <= (p * g[x]) * b[B]
          BY <2>4, <4>1, TimesGrows
        <4>3. QED
          BY <2>3, <2>4, <4>2, Regrouped
      <3>2. CASE z # x
        <4>1. z \in B
          BY <2>1, <2>7, <3>2
        <4>2. q * a[B] \in Nat /\ p * b[B] \in Nat /\ q * a[B] <= p * b[B]
          BY <2>4, <4>1, Regrouped
        <4>3. f[x] * (q * a[B]) <= g[x] * (p * b[B])
          BY <2>3, <4>2, TimesGrows
        <4>4. QED
          BY <2>3, <2>4, <4>3, Regrouped
      <3>3. QED
        BY <3>1, <3>2
    <2>8. QED
      BY <2>5, <2>6, <2>7
  <1>5. \A A \in SUBSET D : A \in T
    <2> HIDE DEF T
    <2> QED BY <1>3, <1>4, InOrder
  <1>6. QED
    BY <1>1, <1>2, <1>5

\* A product of positive numbers is positive.
LEMMA ProductsArePositive ==
  ASSUME NEW D, IsFiniteSet(D), NEW f \in [D -> Nat], \A e \in D : f[e] >= 1
  PROVE  Product(f) \in Nat /\ Product(f) >= 1
  <1>1. PICK a : Partial(a, D, f) /\ Product(f) = a[D]
    BY ProductIsPartial
  <1> DEFINE T == {s \in SUBSET D : a[s] >= 1}
  <1>2. {} \in T
    BY <1>1 DEF Partial
  <1>3. ASSUME NEW A \in (SUBSET D) \ {{}}, A \ {Chosen(D)[A]} \in T PROVE A \in T
    <2>1. PICK x, B : x = Chosen(D)[A] /\ B = A \ {x}
      OBVIOUS
    <2>2. x \in D /\ B \in SUBSET D
      BY <2>1, ChosenIsIn
    <2>3. f[x] \in Nat /\ 1 <= f[x] /\ a[B] \in Nat /\ 1 <= a[B]
      BY <1>1, <1>3, <2>1, <2>2 DEF Partial
    <2>4. a[A] = f[x] * a[B]
      BY <1>1, <2>1 DEF Partial
    <2>5. 1 * 1 <= f[x] * a[B]
      BY <2>3, TimesGrows
    <2>6. QED
      BY <2>4, <2>5
  <1>4. \A A \in SUBSET D : A \in T
    <2> HIDE DEF T
    <2> QED BY <1>2, <1>3, InOrder
  <1>5. QED
    BY <1>1, <1>4 DEF Partial

\* Heavier weights leave less doubt, and none leaves more than everything.
LEMMA DoubtShrinks ==
  ASSUME NEW D, IsFiniteSet(D), NEW parts \in Nat,
         NEW s \in [D -> 0 .. parts], NEW t \in [D -> 0 .. parts],
         \A e \in D : s[e] <= t[e]
  PROVE  /\ Certainty(D, parts) \in Nat
         /\ Doubt(s, parts) \in Nat /\ Doubt(t, parts) \in Nat
         /\ Doubt(t, parts) <= Doubt(s, parts)
         /\ Doubt(s, parts) <= Certainty(D, parts)
  <1> DEFINE rest(u) == [e \in D |-> parts - u[e]]
             whole == [e \in D |-> parts]
  <1>1. /\ rest(s) \in [D -> Nat]
        /\ rest(t) \in [D -> Nat]
        /\ whole \in [D -> Nat]
    OBVIOUS
  <1>2. \A e \in D : rest(t)[e] <= rest(s)[e] /\ rest(s)[e] <= whole[e]
    OBVIOUS
  <1> HIDE DEF rest, whole
  <1>3. /\ Product(rest(s)) \in Nat /\ Product(rest(t)) \in Nat /\ Product(whole) \in Nat
        /\ Product(rest(t)) <= Product(rest(s))
        /\ Product(rest(s)) <= Product(whole)
    BY <1>1, <1>2, ProductsGrow
  <1>4. /\ Certainty(D, parts) = Product(whole)
        /\ Doubt(s, parts) = Product(rest(s))
        /\ Doubt(t, parts) = Product(rest(t))
    <2>1. DOMAIN s = D /\ DOMAIN t = D
      OBVIOUS
    <2>2. QED
      BY <2>1 DEF Certainty, Doubt, rest, whole
  <1>5. QED
    BY <1>3, <1>4

\* One weight leaves at most the share of doubt that it leaves by itself.
LEMMA DoubtOfOne ==
  ASSUME NEW D, IsFiniteSet(D), NEW parts \in Nat,
         NEW s \in [D -> 0 .. parts], NEW z \in D, NEW w \in 0..parts, w <= s[z]
  PROVE  parts * Doubt(s, parts) <= (parts - w) * Certainty(D, parts)
  <1> DEFINE rest == [e \in D |-> parts - s[e]]
             whole == [e \in D |-> parts]
  <1>1. rest \in [D -> Nat] /\ whole \in [D -> Nat] /\ parts - w \in Nat
    OBVIOUS
  <1>2. \A e \in D : rest[e] <= whole[e]
    OBVIOUS
  <1>3. parts * rest[z] <= (parts - w) * whole[z]
    <2>1. parts - s[z] \in Nat /\ parts - s[z] <= parts - w
      OBVIOUS
    <2>2. parts * (parts - s[z]) <= parts * (parts - w)
      BY <1>1, <2>1, TimesGrows
    <2>3. parts * (parts - w) = (parts - w) * parts
      BY <1>1
    <2>4. rest[z] = parts - s[z] /\ whole[z] = parts
      OBVIOUS
    <2>5. QED
      BY <2>2, <2>3, <2>4
  <1>4. /\ Certainty(D, parts) = Product(whole)
        /\ Doubt(s, parts) = Product(rest)
    <2>1. DOMAIN s = D
      OBVIOUS
    <2>2. QED
      BY <2>1 DEF Certainty, Doubt
  <1> HIDE DEF rest, whole
  <1>5. parts * Product(rest) <= (parts - w) * Product(whole)
    BY <1>1, <1>2, <1>3, ProductsShrink
  <1>6. QED
    BY <1>4, <1>5

-----------------------------------------------------------------------------
(* The rules.                                                              *)

\* An empty draft and an empty registry have their types.
LEMMA RulesTypeInit == RulesInit => RulesTypeOK
  BY DEF RulesInit, RulesTypeOK, Checker

\* No step breaks a type.
LEMMA RulesTypeNext == RulesTypeOK /\ [RulesNext]_rulesVars => RulesTypeOK'
  <1> SUFFICES ASSUME RulesTypeOK, [RulesNext]_rulesVars
               PROVE  RulesTypeOK'
    OBVIOUS
  <1>1. ASSUME NEW e \in Identifier, NEW v \in EvidenceId, FindEntity(e, v)
        PROVE  RulesTypeOK'
    BY <1>1 DEF FindEntity, RulesTypeOK
  <1>2. ASSUME NEW g \in Relation, NEW v \in EvidenceId, FindRelationship(g, v)
        PROVE  RulesTypeOK'
    BY <1>2 DEF FindRelationship, RulesTypeOK
  <1>3. ASSUME NEW r \in RuleId, NEW c \in {"empty", "lookup"},
               NEW overwrite \in BOOLEAN, Register(r, c, overwrite)
        PROVE  RulesTypeOK'
    <2>1. c \in Checker
      BY DEF Checker
    <2>2. QED
      BY <1>3, <2>1 DEF Register, RulesTypeOK, draft
  <1>4. ASSUME NEW c \in {"empty", "lookup"}, NEW overwrite \in BOOLEAN,
               RegisterDefaults(c, overwrite)
        PROVE  RulesTypeOK'
    <2> DEFINE IfAbsent(r) == IF r \in Registered THEN <<>> ELSE <<r>>
    <2>1. \A r \in RuleId : IfAbsent(r) \in Seq(RuleId)
      OBVIOUS
    <2>2. c \in Checker
      BY DEF Checker
    <2>3. rules' \in Seq(RuleId)
      <3>1. rules' = rules \o IfAbsent("high_confidence_auto_merge")
                           \o IfAbsent("review_band")
                           \o IfAbsent("no_overlap_promotion")
                           \o IfAbsent("watchlist")
        BY <1>4 DEF RegisterDefaults
      <3> HIDE DEF IfAbsent
      <3>2. /\ "high_confidence_auto_merge" \in RuleId
            /\ "review_band" \in RuleId
            /\ "no_overlap_promotion" \in RuleId
            /\ "watchlist" \in RuleId
        BY DEF RuleId
      <3>3. QED
        BY <2>1, <3>1, <3>2 DEF RulesTypeOK
    <2>4. QED
      BY <1>4, <2>2, <2>3 DEF RegisterDefaults, RulesTypeOK, draft
  <1>5. CASE ClearRules
    BY <1>5 DEF ClearRules, RulesTypeOK, Checker, draft
  <1>6. CASE CheckerChanges
    BY <1>6 DEF CheckerChanges, RulesTypeOK, Checker, draft
  <1>7. CASE UNCHANGED rulesVars
    BY <1>7 DEF rulesVars, RulesTypeOK
  <1>8. QED
    BY <1>1, <1>2, <1>3, <1>4, <1>5, <1>6, <1>7 DEF RulesNext

\* Every variable keeps its type.
THEOREM RulesTypes == RulesSpec => []RulesTypeOK
  <1>1. QED
    BY RulesTypeInit, RulesTypeNext, PTL DEF RulesSpec

\* No rule proposes a rejection, so that a review is the most cautious of all
\* proposals.
LEMMA ReviewIsFirst ==
  ASSUME NEW r \in RuleId
  PROVE  /\ Priority[Proposal[r]] \in {1, 2, 3}
         /\ Priority[Proposal[r]] = 1 <=> Proposal[r] = "queue_for_review"
  BY DEF RuleId, Proposal, Priority

\* Whatever else fires, a rule that proposes a review decides.
LEMMA ReviewWins ==
  ASSUME rules \in Seq(RuleId), NEW fired \in SUBSET DOMAIN rules,
         NEW n \in fired, Proposal[rules[n]] = "queue_for_review"
  PROVE  Proposal[Winner(fired)] = "queue_for_review"
  <1> DEFINE reviews == {i \in fired : Proposal[rules[i]] = "queue_for_review"}
  <1>1. /\ \A i \in fired : rules[i] \in RuleId
        /\ fired \subseteq Nat
    OBVIOUS
  <1>2. reviews \in SUBSET Nat /\ n \in reviews
    BY <1>1
  <1>3. PICK j \in reviews : \A i \in reviews : j <= i
    BY <1>2, LeastNatural
  <1>4. \A i \in fired :
          /\ Priority[Proposal[rules[i]]] \in {1, 2, 3}
          /\ Priority[Proposal[rules[i]]] = 1 <=>
               Proposal[rules[i]] = "queue_for_review"
    BY <1>1, ReviewIsFirst
  <1>5. \A i \in fired : Precedes(j, i)
    BY <1>3, <1>4 DEF Precedes
  <1>6. PICK i \in fired : /\ \A k \in fired : Precedes(i, k)
                           /\ Winner(fired) = rules[i]
    BY <1>3, <1>5 DEF Winner
  <1>7. Priority[Proposal[rules[i]]] <= Priority[Proposal[rules[j]]]
    BY <1>3, <1>4, <1>6 DEF Precedes
  <1>8. QED
    BY <1>3, <1>4, <1>6, <1>7

\* A watched entity that both identities have goes to a reviewer, whatever the
\* score and the order of the rules.
THEOREM WatchedAreReviewed == RulesSpec => []WatchedIsReviewed
  <1>1. RulesTypeOK => WatchedIsReviewed
    <2> SUFFICES ASSUME RulesTypeOK, "watchlist" \in Registered,
                        checker = "lookup",
                        {p[1] : p \in Matched} \intersect Watched # {}
                 PROVE  Verdict = "queue_for_review"
      BY DEF WatchedIsReviewed
    <2> DEFINE fired == {i \in DOMAIN rules : Fires(rules[i], Correlation)}
    <2>1. PICK n \in DOMAIN rules : rules[n] = "watchlist"
      BY DEF Registered, Range
    <2>2. Correlation.matched = {p[1] : p \in Matched}
      BY DEF Correlation
    <2>3. n \in fired
      BY <2>1, <2>2 DEF Fires
    <2>4. Proposal[rules[n]] = "queue_for_review"
      BY <2>1 DEF Proposal
    <2>5. Proposal[Winner(fired)] = "queue_for_review"
      <3> HIDE DEF fired
      <3>1. fired \in SUBSET DOMAIN rules
        BY DEF fired
      <3>2. QED
        BY <2>3, <2>4, <3>1, ReviewWins DEF RulesTypeOK
    <2>6. QED
      BY <2>3, <2>5 DEF Verdict
  <1>2. QED
    BY <1>1, RulesTypes, PTL

-----------------------------------------------------------------------------
(* Scores.                                                                 *)

\* Full certainty is a positive number of parts, for any number of evidences.
LEMMA WholeIsPositive == Whole \in Nat /\ Whole >= 1
  <1> DEFINE whole == [v \in EvidenceId |-> 100]
  <1>1. IsFiniteSet(EvidenceId) /\ whole \in [EvidenceId -> Nat]
        /\ \A e \in EvidenceId : whole[e] >= 1
    BY EvidenceAssumption
  <1>2. Whole = Product(whole)
    BY DEF Whole, Certainty
  <1> HIDE DEF whole
  <1>3. QED
    BY <1>1, <1>2, ProductsArePositive

\* What a signal is: the weights of each tier are bounded from below.
WellFormed(S) ==
  \A s \in S : /\ s.evidence \in EvidenceId
               /\ s.tier \in 1..3
               /\ s.weight \in 0..100
               /\ s.tier = 1 => s.weight >= 90
               /\ s.tier = 2 => s.weight >= 45

\* No signal of the first tier weighs less than 90, of the second than 45.
LEMMA WeightsOfTiers ==
  ASSUME NEW t \in DOMAIN SignalOfType
  PROVE  LET s == SignalOfType[t]
         IN  /\ TierOf(s) \in 1..3
             /\ Weight[s] \in 0..100
             /\ TierOf(s) = 1 => Weight[s] >= 90
             /\ TierOf(s) = 2 => Weight[s] >= 45
  BY DEF SignalOfType, TierOf, Tier1, Tier2, Weight

\* The signals of a draft are ones a plugin result can make.
LEMMA SignalsAreWellFormed ==
  ASSUME RulesTypeOK
  PROVE  WellFormed(Signals)
  <1>1. ASSUME NEW p \in Matched
        PROVE  LET signal == SignalOfType[TypeOf[p[1]]]
                   s == [evidence |-> p[2], tier |-> TierOf(signal), weight |-> Weight[signal]]
               IN  WellFormed({s})
    <2>1. p[2] \in EvidenceId /\ TypeOf[p[1]] \in DOMAIN SignalOfType
      BY DEF RulesTypeOK, Matched
    <2> DEFINE signal == SignalOfType[TypeOf[p[1]]]
    <2>2. /\ TierOf(signal) \in 1..3
          /\ Weight[signal] \in 0..100
          /\ TierOf(signal) = 1 => Weight[signal] >= 90
          /\ TierOf(signal) = 2 => Weight[signal] >= 45
      BY <2>1, WeightsOfTiers
    <2> HIDE DEF signal
    <2>3. WellFormed({[evidence |-> p[2], tier |-> TierOf(signal),
                       weight |-> Weight[signal]]})
      BY <2>1, <2>2 DEF WellFormed
    <2>4. QED
      BY <2>3 DEF signal
  <1>2. WellFormed(EntitySignals)
    BY <1>1 DEF EntitySignals, WellFormed
  <1>3. WellFormed(RelationSignals)
    <2>1. \A p \in {q \in edges : q[1] \in GlobalRelations} : p[2] \in EvidenceId
      BY DEF RulesTypeOK
    <2>2. Weight.domain_owner = 45
      BY DEF Weight
    <2>3. QED
      BY <2>1, <2>2 DEF RelationSignals, WellFormed
  <1>4. QED
    BY <1>2, <1>3 DEF Signals, WellFormed

\* The largest number of a bounded set, and the smaller of two.
LEMMA MaxOfBounded ==
  ASSUME NEW n \in Nat, NEW T \in SUBSET (0..n), T # {}
  PROVE  Max(T) \in T /\ \A y \in T : y <= Max(T)
  <1> DEFINE U == {n - y : y \in T}
  <1>1. U \in SUBSET Nat /\ U # {}
    <2>1. \A y \in T : n - y \in Nat
      OBVIOUS
    <2>2. PICK y \in T : TRUE
      OBVIOUS
    <2>3. n - y \in U
      OBVIOUS
    <2>4. QED
      BY <2>1, <2>3
  <1>2. PICK u \in U : \A v \in U : u <= v
    <2> HIDE DEF U
    <2> QED BY <1>1, LeastNatural
  <1>3. PICK x \in T : u = n - x
    BY <1>2
  <1>4. \A y \in T : x >= y
    <2> TAKE y \in T
    <2>1. n - x <= n - y
      BY <1>2, <1>3
    <2>2. QED
      BY <2>1
  <1>5. \E m \in T : \A y \in T : m >= y
    BY <1>3, <1>4
  <1>6. Max(T) \in T /\ \A y \in T : Max(T) >= y
    BY <1>5 DEF Max
  <1>7. QED
    BY <1>6

\* The smaller of two numbers.
LEMMA MinOfTwo ==
  ASSUME NEW a \in Nat, NEW b \in Nat
  PROVE  Min({a, b}) = IF a <= b THEN a ELSE b
  <1>1. \E m \in {a, b} : \A y \in {a, b} : m <= y
    OBVIOUS
  <1>2. Min({a, b}) \in {a, b} /\ \A y \in {a, b} : Min({a, b}) <= y
    BY <1>1 DEF Min
  <1>3. QED
    BY <1>2

\* The strongest weight of an evidence is a weight, and none beats it.
LEMMA StrongestIs ==
  ASSUME NEW S, WellFormed(S), NEW v
  PROVE  /\ Strongest(S, v) \in 0..100
         /\ \A s \in S : s.evidence = v => s.weight <= Strongest(S, v)
         /\ \/ Strongest(S, v) = 0
            \/ \E s \in S : s.evidence = v /\ s.weight = Strongest(S, v)
  <1> DEFINE T == {0} \union {s.weight : s \in {r \in S : r.evidence = v}}
  <1>1. T \in SUBSET (0..100) /\ T # {}
    BY DEF WellFormed
  <1>2. Max(T) \in T /\ \A y \in T : y <= Max(T)
    <2> HIDE DEF T
    <2>1. 100 \in Nat
      OBVIOUS
    <2>2. QED
      BY <1>1, <2>1, MaxOfBounded
  <1>3. Strongest(S, v) = Max(T)
    BY DEF Strongest
  <1> DEFINE m == Max(T)
  <1>4. m \in T /\ (\A y \in T : y <= m) /\ Strongest(S, v) = m
    BY <1>2, <1>3
  <1> HIDE DEF m
  <1>5. QED
    BY <1>1, <1>4

\* It grows with the signals.
LEMMA StrongestGrows ==
  ASSUME NEW S, NEW R, WellFormed(R), S \subseteq R, NEW v
  PROVE  WellFormed(S) /\ Strongest(S, v) <= Strongest(R, v)
  <1>1. WellFormed(S)
    BY DEF WellFormed
  <1>2. Strongest(S, v) \in 0..100 /\ Strongest(R, v) \in 0..100
    BY <1>1, StrongestIs
  <1>3. \/ Strongest(S, v) = 0
        \/ \E s \in S : s.evidence = v /\ s.weight = Strongest(S, v)
    BY <1>1, StrongestIs
  <1>4. \A s \in R : s.evidence = v => s.weight <= Strongest(R, v)
    BY StrongestIs
  <1>5. QED
    BY <1>1, <1>2, <1>3, <1>4

\* More signals never lower the score of a tier before its cap.
LEMMA RawScoresGrow ==
  ASSUME NEW S, NEW R, WellFormed(R), S \subseteq R
  PROVE  /\ RawScore(S) \in Nat /\ RawScore(R) \in Nat
         /\ RawScore(S) <= RawScore(R)
         /\ RawScore(R) <= Unit
  <1> DEFINE of(Q) == [v \in EvidenceId |-> Strongest(Q, v)]
  <1>1. /\ of(S) \in [EvidenceId -> 0 .. 100]
        /\ of(R) \in [EvidenceId -> 0 .. 100]
        /\ \A v \in EvidenceId : of(S)[v] <= of(R)[v]
    BY StrongestIs, StrongestGrows
  <1>2. IsFiniteSet(EvidenceId) /\ 100 \in Nat
    BY EvidenceAssumption
  <1> DEFINE raw(Q) == 1000 * (Whole - Doubt(of(Q), 100))
  <1>3. /\ raw(S) \in Nat /\ raw(R) \in Nat
        /\ raw(S) <= raw(R)
        /\ raw(R) <= 1000 * Whole
    <2> DEFINE a == of(S)
               b == of(R)
    <2>1. /\ a \in [EvidenceId -> 0 .. 100]
          /\ b \in [EvidenceId -> 0 .. 100]
          /\ \A v \in EvidenceId : a[v] <= b[v]
      BY <1>1
    <2> HIDE DEF a, b
    <2>2. /\ Certainty(EvidenceId, 100) \in Nat
          /\ Doubt(a, 100) \in Nat /\ Doubt(b, 100) \in Nat
          /\ Doubt(b, 100) <= Doubt(a, 100)
          /\ Doubt(a, 100) <= Certainty(EvidenceId, 100)
      BY <1>2, <2>1, DoubtShrinks
    <2>3. /\ Whole \in Nat
          /\ Doubt(a, 100) \in Nat /\ Doubt(b, 100) \in Nat
          /\ Doubt(b, 100) <= Doubt(a, 100)
          /\ Doubt(a, 100) <= Whole
      BY <2>2 DEF Whole
    <2>4. raw(S) = 1000 * (Whole - Doubt(a, 100)) /\ raw(R) = 1000 * (Whole - Doubt(b, 100))
      BY DEF a, b
    <2> HIDE DEF raw
    <2>5. QED
      BY <2>3, <2>4
  <1>4. \A Q : RawScore(Q) = IF Q = {} THEN 0 ELSE raw(Q)
    BY DEF RawScore
  <1>5. Unit = 1000 * Whole
    BY DEF Unit
  <1> HIDE DEF raw
  <1>6. R = {} => S = {}
    OBVIOUS
  <1>7. QED
    BY <1>3, <1>4, <1>5, <1>6, WholeIsPositive

\* One signal alone brings its weight.
LEMMA RawScoreOfOne ==
  ASSUME NEW S, WellFormed(S), NEW s \in S, NEW w \in 0..100, w <= s.weight
  PROVE  RawScore(S) >= 10 * w * Whole
  <1> DEFINE all == [v \in EvidenceId |-> Strongest(S, v)]
             z == s.evidence
  <1>1. /\ all \in [EvidenceId -> 0 .. 100]
        /\ z \in EvidenceId
        /\ s.weight \in 0..100
    BY StrongestIs DEF WellFormed
  <1>2. w <= all[z]
    BY <1>1, StrongestIs
  <1>3. IsFiniteSet(EvidenceId) /\ 100 \in Nat
    BY EvidenceAssumption
  <1>4. RawScore(S) = 1000 * (Whole - Doubt(all, 100))
    BY DEF RawScore
  <1> HIDE DEF all, z
  <1>5. 100 * Doubt(all, 100) <= (100 - w) * Certainty(EvidenceId, 100)
    BY <1>1, <1>2, <1>3, DoubtOfOne
  <1>6. 100 * Doubt(all, 100) <= (100 - w) * Whole
    BY <1>5 DEF Whole
  <1>7. Doubt(all, 100) \in Nat
    <2>1. Doubt(all, 100) \in Nat
      BY <1>1, <1>3, DoubtShrinks
    <2>2. QED
      BY <2>1
  <1>8. (100 - w) * Whole = 100 * Whole - w * Whole
    BY WholeIsPositive
  <1>9. w * Whole \in Nat /\ 10 * w * Whole = 10 * (w * Whole)
    BY WholeIsPositive
  <1>10. QED
    BY <1>4, <1>6, <1>7, <1>8, <1>9, WholeIsPositive

OfTier(S, t) == {s \in S : s.tier = t}

\* What the tiers are capped at.
LEMMA CapIs ==
  ASSUME NEW t \in 1..3
  PROVE  /\ TierCap[t] = IF t = 1 THEN 1000 * Whole
                         ELSE IF t = 2 THEN 750 * Whole ELSE 450 * Whole
         /\ TierCap[t] \in Nat
  BY WholeIsPositive DEF TierCap, Unit

\* A tier's capped score grows with its signals, up to the cap.
LEMMA CappedGrows ==
  ASSUME NEW S, NEW R, WellFormed(R), S \subseteq R, NEW t \in 1..3
  PROVE  /\ Capped(S, t) \in Nat /\ Capped(R, t) \in Nat
         /\ Capped(S, t) <= Capped(R, t)
         /\ Capped(R, t) <= TierCap[t]
  <1>1. WellFormed(OfTier(R, t)) /\ OfTier(S, t) \subseteq OfTier(R, t)
    BY DEF WellFormed, OfTier
  <1>2. /\ RawScore(OfTier(S, t)) \in Nat /\ RawScore(OfTier(R, t)) \in Nat
        /\ RawScore(OfTier(S, t)) <= RawScore(OfTier(R, t))
    BY <1>1, RawScoresGrow
  <1>3. /\ Capped(S, t) = Min({RawScore(OfTier(S, t)), TierCap[t]})
        /\ Capped(R, t) = Min({RawScore(OfTier(R, t)), TierCap[t]})
    BY DEF Capped, OfTier
  <1>4. TierCap[t] \in Nat
    BY CapIs
  <1>5. /\ Capped(S, t) = IF RawScore(OfTier(S, t)) <= TierCap[t]
                          THEN RawScore(OfTier(S, t)) ELSE TierCap[t]
        /\ Capped(R, t) = IF RawScore(OfTier(R, t)) <= TierCap[t]
                          THEN RawScore(OfTier(R, t)) ELSE TierCap[t]
    BY <1>2, <1>3, <1>4, MinOfTwo
  <1>6. QED
    BY <1>2, <1>4, <1>5

\* A signal of tier 1 or 2 makes the score of its tier.
LEMMA CappedOfOne ==
  ASSUME NEW S, WellFormed(S), NEW s \in S
  PROVE  /\ s.tier = 1 => Capped(S, 1) >= 900 * Whole
         /\ s.tier = 2 => Capped(S, 2) >= 450 * Whole
  <1>1. ASSUME NEW t \in {1, 2}, NEW w \in {45, 90}, s.tier = t, w <= s.weight,
               10 * w * Whole <= TierCap[t]
        PROVE  Capped(S, t) >= 10 * w * Whole
    <2>1. WellFormed(OfTier(S, t)) /\ s \in OfTier(S, t) /\ w \in 0..100 /\ t \in 1..3
      BY <1>1 DEF WellFormed, OfTier
    <2>2. RawScore(OfTier(S, t)) >= 10 * w * Whole
      BY <1>1, <2>1, RawScoreOfOne
    <2>3. RawScore(OfTier(S, t)) \in Nat /\ TierCap[t] \in Nat
      BY <2>1, RawScoresGrow, CapIs
    <2>4. Capped(S, t) = Min({RawScore(OfTier(S, t)), TierCap[t]})
      BY DEF Capped, OfTier
    <2>5. Capped(S, t) = IF RawScore(OfTier(S, t)) <= TierCap[t]
                         THEN RawScore(OfTier(S, t)) ELSE TierCap[t]
      BY <2>3, <2>4, MinOfTwo
    <2>6. QED
      BY <1>1, <2>2, <2>5
  <1>2. TierCap[1] = 1000 * Whole /\ TierCap[2] = 750 * Whole
    BY CapIs
  <1>3. /\ 10 * 90 * Whole = 900 * Whole /\ 10 * 45 * Whole = 450 * Whole
        /\ 900 * Whole <= 1000 * Whole /\ 450 * Whole <= 750 * Whole
    BY WholeIsPositive
  <1>4. ASSUME s.tier = 1 PROVE Capped(S, 1) >= 900 * Whole
    <2>1. 90 <= s.weight
      BY <1>4 DEF WellFormed
    <2>2. 10 * 90 * Whole <= TierCap[1]
      BY <1>2, <1>3
    <2>3. Capped(S, 1) >= 10 * 90 * Whole
      BY <1>1, <1>4, <2>1, <2>2
    <2>4. QED
      BY <1>3, <2>3
  <1>5. ASSUME s.tier = 2 PROVE Capped(S, 2) >= 450 * Whole
    <2>1. 45 <= s.weight
      BY <1>5 DEF WellFormed
    <2>2. 10 * 45 * Whole <= TierCap[2]
      BY <1>2, <1>3
    <2>3. Capped(S, 2) >= 10 * 45 * Whole
      BY <1>1, <1>5, <2>1, <2>2
    <2>4. QED
      BY <1>3, <2>3
  <1>6. QED
    BY <1>4, <1>5

\* The decisive tier is the least of the signals' tiers, or the third.
LEMMA DecisiveTierIs ==
  ASSUME NEW S, WellFormed(S)
  PROVE  /\ DecisiveTier(S) \in 1..3
         /\ \A s \in S : DecisiveTier(S) <= s.tier
         /\ DecisiveTier(S) = 3 \/ \E s \in S : s.tier = DecisiveTier(S)
  <1> DEFINE T == {3} \union {s.tier : s \in S}
             m == Min(T)
  <1>1. T \in SUBSET Nat /\ T # {}
    BY DEF WellFormed
  <1>2. \E x \in T : \A y \in T : x <= y
    <2> HIDE DEF T
    <2> QED BY <1>1, LeastNatural
  <1>3. m \in T /\ \A y \in T : m <= y
    <2>1. m = CHOOSE x \in T : \A y \in T : x <= y
      BY DEF Min
    <2> HIDE DEF T, m
    <2>2. QED
      BY <1>2, <2>1
  <1>4. DecisiveTier(S) = m
    BY DEF DecisiveTier
  <1>5. \A s \in S : s.tier \in 1..3
    BY DEF WellFormed
  <1> HIDE DEF m
  <1>6. QED
    BY <1>3, <1>4, <1>5

\* The scores that a decisive tier allows do not overlap.
ScoreBand(S) ==
  /\ ScoreOf(S) \in Nat
  /\ DecisiveTier(S) = 1 => ScoreOf(S) >= 900 * Whole
  /\ DecisiveTier(S) = 2 => ScoreOf(S) >= 450 * Whole /\ ScoreOf(S) <= 795 * Whole
  /\ DecisiveTier(S) = 3 => ScoreOf(S) <= 450 * Whole

\* A score is the decisive tier's plus the boosts of the weaker ones.
LEMMA ScoreIs ==
  ASSUME NEW S, WellFormed(S)
  PROVE  LET d == DecisiveTier(S)
             sum == Capped(S, d) + Boost(S, 2) + Boost(S, 3)
         IN  /\ Boost(S, 2) \in Nat /\ Boost(S, 3) \in Nat
             /\ sum \in Nat
             /\ ScoreOf(S) = IF Unit <= sum THEN Unit ELSE sum
  <1> DEFINE d == DecisiveTier(S)
             sum == Capped(S, d) + Boost(S, 2) + Boost(S, 3)
  <1>1. d \in 1..3
    BY DecisiveTierIs
  <1>2. \A t \in 1..3 : Capped(S, t) \in Nat
    BY CappedGrows
  <1>3. \A t \in 1..3 : Boost(S, t) \in Nat
    BY <1>2 DEF Boost
  <1>4. sum \in Nat
    BY <1>1, <1>2, <1>3
  <1>5. Unit \in Nat
    BY WholeIsPositive DEF Unit
  <1>6. ScoreOf(S) = Min({Unit, sum})
    BY DEF ScoreOf
  <1>7. ScoreOf(S) = IF Unit <= sum THEN Unit ELSE sum
    <2> HIDE DEF sum
    <2> QED BY <1>4, <1>5, <1>6, MinOfTwo
  <1>8. QED
    BY <1>3, <1>4, <1>7

\* Every score lies in the band of its decisive tier.
LEMMA ScoresAreBanded ==
  ASSUME NEW S, WellFormed(S)
  PROVE  ScoreBand(S)
  <1> DEFINE d == DecisiveTier(S)
             sum == Capped(S, d) + Boost(S, 2) + Boost(S, 3)
  <1>1. /\ Boost(S, 2) \in Nat /\ Boost(S, 3) \in Nat
        /\ sum \in Nat
        /\ ScoreOf(S) = IF Unit <= sum THEN Unit ELSE sum
    BY ScoreIs
  <1>2. Unit = 1000 * Whole /\ Whole \in Nat /\ Whole >= 1
    BY WholeIsPositive DEF Unit
  <1>3. /\ Capped(S, 1) \in Nat /\ Capped(S, 2) \in Nat /\ Capped(S, 3) \in Nat
        /\ Capped(S, 2) <= 750 * Whole /\ Capped(S, 3) <= 450 * Whole
    BY CappedGrows, CapIs
  <1>4. d \in 1..3 /\ (d = 3 \/ \E s \in S : s.tier = d)
    BY DecisiveTierIs
  <1>5. CASE d = 1
    <2>1. Capped(S, 1) >= 900 * Whole
      BY <1>4, <1>5, CappedOfOne
    <2>2. sum >= 900 * Whole
      BY <1>1, <1>2, <1>3, <1>5, <2>1
    <2>3. ScoreOf(S) \in Nat /\ ScoreOf(S) >= 900 * Whole
      <3> HIDE DEF sum
      <3> QED BY <1>1, <1>2, <2>2
    <2>4. QED
      BY <1>5, <2>3 DEF ScoreBand
  <1>6. CASE d = 2
    <2>1. Capped(S, 2) >= 450 * Whole
      BY <1>4, <1>6, CappedOfOne
    <2>2. Boost(S, 2) = 0 /\ Boost(S, 3) <= 45 * Whole
      BY <1>2, <1>3, <1>6 DEF Boost
    <2>3. sum >= 450 * Whole /\ sum <= 795 * Whole
      BY <1>1, <1>2, <1>3, <1>6, <2>1, <2>2
    <2>4. /\ ScoreOf(S) \in Nat /\ ScoreOf(S) >= 450 * Whole
          /\ ScoreOf(S) <= 795 * Whole
      <3> HIDE DEF sum
      <3> QED BY <1>1, <1>2, <2>3
    <2>5. QED
      BY <1>6, <2>4 DEF ScoreBand
  <1>7. CASE d = 3
    <2>1. Boost(S, 2) = 0 /\ Boost(S, 3) = 0
      BY <1>7 DEF Boost
    <2>2. sum <= 450 * Whole
      BY <1>1, <1>2, <1>3, <1>7, <2>1
    <2>3. ScoreOf(S) \in Nat /\ ScoreOf(S) <= 450 * Whole
      <3> HIDE DEF sum
      <3> QED BY <1>1, <1>2, <2>2
    <2>4. QED
      BY <1>7, <2>3 DEF ScoreBand
  <1>8. QED
    BY <1>4, <1>5, <1>6, <1>7

\* More signals, a higher score.
LEMMA ScoresGrow ==
  ASSUME NEW S, NEW R, WellFormed(R), S \subseteq R
  PROVE  ScoreOf(R) >= ScoreOf(S)
  <1>1. WellFormed(S)
    BY DEF WellFormed
  <1>2. ScoreBand(S) /\ ScoreBand(R)
    BY <1>1, ScoresAreBanded
  <1>3. /\ DecisiveTier(S) \in 1..3 /\ DecisiveTier(R) \in 1..3
        /\ DecisiveTier(R) <= DecisiveTier(S)
    <2>1. /\ DecisiveTier(S) \in 1..3
          /\ DecisiveTier(S) = 3 \/ \E s \in S : s.tier = DecisiveTier(S)
      BY <1>1, DecisiveTierIs
    <2>2. DecisiveTier(R) \in 1..3 /\ \A s \in R : DecisiveTier(R) <= s.tier
      BY DecisiveTierIs
    <2>3. QED
      BY <2>1, <2>2
  <1>4. CASE DecisiveTier(R) < DecisiveTier(S)
    BY <1>2, <1>3, <1>4, WholeIsPositive DEF ScoreBand
  <1>5. CASE DecisiveTier(R) = DecisiveTier(S)
    <2> DEFINE d == DecisiveTier(S)
               less == Capped(S, d) + Boost(S, 2) + Boost(S, 3)
               more == Capped(R, d) + Boost(R, 2) + Boost(R, 3)
    <2>1. \A t \in 1..3 : /\ Capped(S, t) \in Nat /\ Capped(R, t) \in Nat
                          /\ Capped(S, t) <= Capped(R, t)
      BY CappedGrows
    <2>2. \A t \in 1..3 : Boost(S, t) <= Boost(R, t)
      BY <1>5, <2>1 DEF Boost
    <2>3. /\ less \in Nat
          /\ ScoreOf(S) = IF Unit <= less THEN Unit ELSE less
          /\ Boost(S, 2) \in Nat /\ Boost(S, 3) \in Nat
      BY <1>1, ScoreIs
    <2>4. /\ more \in Nat
          /\ ScoreOf(R) = IF Unit <= more THEN Unit ELSE more
          /\ Boost(R, 2) \in Nat /\ Boost(R, 3) \in Nat
      BY <1>5, ScoreIs
    <2>5. less <= more
      <3>1. /\ Capped(S, d) \in Nat /\ Capped(R, d) \in Nat
            /\ Capped(S, d) <= Capped(R, d)
        BY <1>3, <2>1
      <3>2. Boost(S, 2) <= Boost(R, 2) /\ Boost(S, 3) <= Boost(R, 3)
        BY <2>2
      <3>3. QED
        BY <2>3, <2>4, <3>1, <3>2
    <2>6. Unit \in Nat
      BY WholeIsPositive DEF Unit
    <2> HIDE DEF less, more
    <2>7. QED
      BY <2>3, <2>4, <2>5, <2>6
  <1>6. QED
    BY <1>3, <1>4, <1>5

\* However many weaker signals a pair shares, it scores high enough for an
\* automatic merge exactly if it shares a strong identifier.
THEOREM StrongScoresAreTierOne == RulesSpec => []StrongScoreIsTierOne
  <1>1. RulesTypeOK => StrongScoreIsTierOne
    <2> SUFFICES ASSUME RulesTypeOK PROVE StrongScoreIsTierOne
      OBVIOUS
    <2>1. WellFormed(Signals)
      BY SignalsAreWellFormed
    <2>2. ScoreBand(Signals) /\ Score = ScoreOf(Signals)
      BY <2>1, ScoresAreBanded DEF Score, Correlation
    <2>3. /\ DecisiveTier(Signals) \in 1..3
          /\ \A s \in Signals : DecisiveTier(Signals) <= s.tier
          /\ DecisiveTier(Signals) = 3 \/ \E s \in Signals : s.tier = DecisiveTier(Signals)
      BY <2>1, DecisiveTierIs
    <2>4. Score >= Threshold <=> DecisiveTier(Signals) = 1
      BY <2>2, <2>3, WholeIsPositive DEF ScoreBand, Threshold
    <2>5. DecisiveTier(Signals) = 1 <=> \E s \in Signals : s.tier = 1
      <3>1. \A s \in Signals : s.tier \in 1..3
        BY <2>1 DEF WellFormed
      <3>2. QED
        BY <2>3, <3>1
    <2>6. (\E s \in Signals : s.tier = 1) <=>
            \E p \in Matched : TierOf(SignalOfType[TypeOf[p[1]]]) = 1
      <3>1. \A s \in RelationSignals : s.tier = 3
        BY DEF RelationSignals
      <3>2. ASSUME NEW p \in Matched
            PROVE  \E s \in EntitySignals : s.tier = TierOf(SignalOfType[TypeOf[p[1]]])
        <4> DEFINE s == [evidence |-> p[2],
                         tier |-> TierOf(SignalOfType[TypeOf[p[1]]]),
                         weight |-> Weight[SignalOfType[TypeOf[p[1]]]]]
        <4>1. s \in EntitySignals
          BY DEF EntitySignals
        <4>2. s.tier = TierOf(SignalOfType[TypeOf[p[1]]])
          OBVIOUS
        <4>3. QED
          BY <4>1, <4>2
      <3>3. ASSUME NEW s \in EntitySignals
            PROVE  \E p \in Matched : s.tier = TierOf(SignalOfType[TypeOf[p[1]]])
        <4>1. PICK p \in Matched :
                s = [evidence |-> p[2],
                     tier |-> TierOf(SignalOfType[TypeOf[p[1]]]),
                     weight |-> Weight[SignalOfType[TypeOf[p[1]]]]]
          BY DEF EntitySignals
        <4>2. s.tier = TierOf(SignalOfType[TypeOf[p[1]]])
          BY <4>1
        <4>3. QED
          BY <4>2
      <3>4. QED
        BY <3>1, <3>2, <3>3 DEF Signals
    <2>7. QED
      BY <2>4, <2>5, <2>6 DEF StrongScoreIsTierOne
  <1>2. QED
    BY <1>1, RulesTypes, PTL

\* A draft only grows.
LEMMA DraftsGrow ==
  ASSUME RulesTypeOK, RulesNext
  PROVE  UNCHANGED draft \/ Signals \subseteq Signals'
  <1>1. ASSUME found \subseteq found', edges \subseteq edges'
        PROVE  Signals \subseteq Signals'
    <2>1. Matched \subseteq Matched'
      BY <1>1 DEF Matched
    <2>2. EntitySignals \subseteq EntitySignals'
      BY <2>1 DEF EntitySignals
    <2>3. RelationSignals \subseteq RelationSignals'
      BY <1>1 DEF RelationSignals
    <2>4. QED
      BY <2>2, <2>3 DEF Signals
  <1>2. ASSUME NEW e \in Identifier, NEW v \in EvidenceId, FindEntity(e, v)
        PROVE  Signals \subseteq Signals'
    BY <1>1, <1>2 DEF FindEntity
  <1>3. ASSUME NEW g \in Relation, NEW v \in EvidenceId, FindRelationship(g, v)
        PROVE  Signals \subseteq Signals'
    BY <1>1, <1>3 DEF FindRelationship
  <1>4. CASE \/ \E r \in RuleId, c \in {"empty", "lookup"}, overwrite \in BOOLEAN :
                  Register(r, c, overwrite)
             \/ \E c \in {"empty", "lookup"}, overwrite \in BOOLEAN :
                  RegisterDefaults(c, overwrite)
             \/ ClearRules
             \/ CheckerChanges
    BY <1>4 DEF Register, RegisterDefaults, ClearRules, CheckerChanges
  <1>5. QED
    BY <1>2, <1>3, <1>4 DEF RulesNext

\* New evidence never lowers a score, whichever tier it decides.
THEOREM MoreEvidenceCounts == RulesSpec => MoreEvidenceNeverLowersScore
  <1>1. RulesTypeOK => WellFormed(Signals)
    BY SignalsAreWellFormed
  <1>2. RulesTypeOK /\ WellFormed(Signals)' /\ [RulesNext]_rulesVars =>
          [UNCHANGED draft \/ \A more \in {Signals'} : ScoreOf(more) >= Score]_rulesVars
    <2> SUFFICES ASSUME RulesTypeOK, WellFormed(Signals)', RulesNext
                 PROVE  UNCHANGED draft \/ \A more \in {Signals'} : ScoreOf(more) >= Score
      OBVIOUS
    <2>1. PICK S, R : S = Signals /\ R = Signals'
      OBVIOUS
    <2>2. CASE S \subseteq R
      <3>1. WellFormed(R)
        BY <2>1 DEF WellFormed
      <3>2. ScoreOf(R) >= ScoreOf(S)
        BY <2>2, <3>1, ScoresGrow
      <3>3. Score = ScoreOf(S)
        BY <2>1 DEF Score, Correlation
      <3>4. QED
        BY <2>1, <3>2, <3>3
    <2>3. QED
      BY <2>1, <2>2, DraftsGrow
  <1>3. RulesSpec =>
          [][UNCHANGED draft \/ \A more \in {Signals'} : ScoreOf(more) >= Score]_rulesVars
    BY <1>1, <1>2, RulesTypes, PTL DEF RulesSpec
  <1>4. QED
    BY <1>3 DEF MoreEvidenceNeverLowersScore

-----------------------------------------------------------------------------
(* The entity service.                                                     *)

Weights == weight \in [IdentityId -> [EntityKey -> 0 .. 10]]

\* Links that are added keep those that are there.
LEMMA LinksAreAdded ==
  ASSUME Weights, NEW i \in IdentityId, NEW S \in SUBSET EntityKey,
         NEW table \in SignalTables,
         weight' = [weight EXCEPT ![i] = WithLinks(i, S, table)]
  PROVE  /\ Weights'
         /\ \A j \in IdentityId, e \in EntityKey : weight'[j][e] >= weight[j][e]
  <1>1. table \in [EntityKey -> 1 .. 10]
    BY ServiceAssumption DEF ServiceAssumption
  <1>2. WithLinks(i, S, table) \in [EntityKey -> 0 .. 10]
    BY <1>1 DEF Weights, WithLinks
  <1>3. \A e \in EntityKey : WithLinks(i, S, table)[e] >= weight[i][e]
    BY <1>1 DEF Weights, WithLinks
  <1>4. QED
    BY <1>2, <1>3 DEF Weights

\* A merge moves every weight of the source to the target, at least.
LEMMA WeightsAreMerged ==
  ASSUME Weights, NEW source \in IdentityId, NEW target \in IdentityId,
         MergeIdentityInto(source, target)
  PROVE  /\ Weights'
         /\ \A e \in EntityKey : /\ weight'[target][e] >= weight[target][e]
                                 /\ weight'[target][e] >= weight[source][e]
         /\ \A j \in IdentityId \ {source, target} : weight'[j] = weight[j]
  <1> DEFINE none == [e \in EntityKey |-> 0]
             both == [e \in EntityKey |->
                        KeptWeight(weight[target][e], weight[source][e])]
  <1>1. none \in [EntityKey -> 0 .. 10]
    OBVIOUS
  <1>2. both \in [EntityKey -> 0 .. 10]
    BY DEF Weights, KeptWeight
  <1>3. \A e \in EntityKey : /\ both[e] >= weight[target][e]
                             /\ both[e] >= weight[source][e]
    BY DEF Weights, KeptWeight
  <1>4. source # target
    BY DEF MergeIdentityInto
  <1>5. weight' = [weight EXCEPT ![source] = none, ![target] = both]
    <2>1. weight' = [weight EXCEPT
            ![source] = [e \in EntityKey |-> 0],
            ![target] = [e \in EntityKey |-> KeptWeight(@[e], weight[source][e])]]
      BY DEF MergeIdentityInto
    <2>2. QED
      BY <1>4, <2>1 DEF Weights
  <1> HIDE DEF none, both
  <1>6. QED
    BY <1>1, <1>2, <1>3, <1>4, <1>5 DEF Weights

\* Signals of one step.
SignalsKept ==
  \A i \in IdentityId, e \in EntityKey :
    \E j \in IdentityId : weight'[j][e] >= weight[i][e]

\* No call of the service loses the best signal of an entity.
LEMMA ServiceKeeps ==
  ASSUME Weights, stored \in SUBSET EntityKey, [ServiceNext]_serviceVars
  PROVE  Weights' /\ SignalsKept /\ stored' \in SUBSET EntityKey
  <1>1. CASE /\ \E i \in IdentityId, S \in SUBSET EntityKey :
                  \E table \in SignalTables :
                    weight' = [weight EXCEPT ![i] = WithLinks(i, S, table)]
             /\ UNCHANGED stored
    BY <1>1, LinksAreAdded DEF SignalsKept
  <1>2. CASE UNCHANGED weight /\ stored' \in SUBSET EntityKey
    BY <1>2 DEF Weights, SignalsKept
  <1>3. ASSUME NEW source \in IdentityId, NEW target \in IdentityId,
               MergeIdentityInto(source, target)
        PROVE  Weights' /\ SignalsKept /\ stored' \in SUBSET EntityKey
    <2>1. UNCHANGED stored
      BY <1>3 DEF MergeIdentityInto, entityTables
    <2>2. /\ Weights'
          /\ \A e \in EntityKey : /\ weight'[target][e] >= weight[target][e]
                                  /\ weight'[target][e] >= weight[source][e]
          /\ \A j \in IdentityId \ {source, target} : weight'[j] = weight[j]
      BY <1>3, WeightsAreMerged
    <2>3. SignalsKept
      <3> SUFFICES ASSUME NEW i \in IdentityId, NEW e \in EntityKey
                   PROVE  \E j \in IdentityId : weight'[j][e] >= weight[i][e]
        BY DEF SignalsKept
      <3>1. CASE i \in {source, target}
        BY <2>2, <3>1
      <3>2. CASE i \notin {source, target}
        <4>1. weight'[i][e] = weight[i][e] /\ weight[i][e] \in Nat
          BY <2>2, <3>2 DEF Weights
        <4>2. QED
          BY <4>1
      <3>3. QED
        BY <3>1, <3>2
    <2>4. QED
      BY <2>1, <2>2, <2>3
  <1>4. ASSUME NEW S \in (SUBSET stored) \ {{}}, NEW table \in SignalTables,
               MergeIntoIdentity(S, table) \/ CreateIdentity(S, table)
        PROVE  Weights' /\ SignalsKept /\ stored' \in SUBSET EntityKey
    <2>1. Best(S) \subseteq IdentityId /\ S \in SUBSET EntityKey
      BY DEF Best, Candidates, Existing
    <2>2. QED
      BY <1>1, <1>4, <2>1 DEF MergeIntoIdentity, CreateIdentity, entityTables
  <1>5. CASE \/ \E e \in EntityKey : UpsertCanonical(e)
             \/ \E e \in EntityKey, i \in InvId : LinkToInvestigation(e, i)
             \/ UNCHANGED serviceVars
    BY <1>2, <1>5 DEF UpsertCanonical, LinkToInvestigation, serviceVars,
                      identityTables, entityTables
  <1>6. QED
    BY <1>3, <1>4, <1>5 DEF ServiceNext

\* Through any merges, into tombstones and back as well, the best signal an
\* entity has in some identity is never lost.
THEOREM SignalsSurvive == ServiceSpec => SignalsAreKept
  <1> DEFINE Held == Weights /\ stored \in SUBSET EntityKey
  <1>1. ServiceInit => Held
    BY DEF ServiceInit, Weights
  <1>2. Held /\ [ServiceNext]_serviceVars => Held'
    BY ServiceKeeps
  <1>3. Held /\ [ServiceNext]_serviceVars =>
          [\A i \in IdentityId, e \in EntityKey :
             \E j \in IdentityId : weight'[j][e] >= weight[i][e]]_serviceVars
    BY ServiceKeeps DEF SignalsKept
  <1> HIDE DEF Held
  <1>4. ServiceSpec =>
          [][\A i \in IdentityId, e \in EntityKey :
               \E j \in IdentityId : weight'[j][e] >= weight[i][e]]_serviceVars
    BY <1>1, <1>2, <1>3, PTL DEF ServiceSpec
  <1>5. QED
    BY <1>4 DEF SignalsAreKept

\* A confidence is a natural, and grows with the signals.
LEMMA ConfidencesGrow ==
  ASSUME NEW s \in [EntityKey -> 0 .. 10], NEW t \in [EntityKey -> 0 .. 10],
         \A e \in EntityKey : s[e] <= t[e]
  PROVE  /\ NoisyOrOf(s) \in Nat /\ NoisyOrOf(t) \in Nat
         /\ NoisyOrOf(s) <= NoisyOrOf(t)
  <1>1. IsFiniteSet(EntityKey) /\ 10 \in Nat
    BY ServiceAssumption
  <1>2. /\ Certain \in Nat /\ Doubt(s, 10) \in Nat /\ Doubt(t, 10) \in Nat
        /\ Doubt(t, 10) <= Doubt(s, 10)
        /\ Doubt(s, 10) <= Certain
    BY <1>1, DoubtShrinks DEF Certain
  <1>3. QED
    BY <1>2 DEF NoisyOrOf

\* A confidence that confirms an identity does so when it grows.
LEMMA ConfirmingGrows ==
  ASSUME NEW c \in Nat, NEW d \in Nat, c <= d, Confirming(c)
  PROVE  Confirming(d)
  <1>1. Certain \in Nat
    <2> DEFINE whole == [e \in EntityKey |-> 10]
    <2>1. IsFiniteSet(EntityKey) /\ whole \in [EntityKey -> Nat]
          /\ \A e \in EntityKey : whole[e] >= 1
      BY ServiceAssumption
    <2>2. Certain = Product(whole)
      BY DEF Certain, Certainty
    <2> HIDE DEF whole
    <2>3. QED
      BY <2>1, <2>2, ProductsArePositive
  <1>2. QED
    BY <1>1 DEF Confirming

\* A recomputation, by a call that takes nothing from the identity and touches
\* no other one but a tombstone.
LEMMA Recomputed ==
  ASSUME ServiceTypeOK, ConfidenceIsEarned, Weights',
         autoflush' = autoflush, NEW i \in IdentityId,
         NEW was \in [IdentityId -> {"none", "tentative", "confirmed", "merged"}],
         was[i] = status[i] \/ (status[i] = "none" /\ was[i] = "tentative"),
         \A j \in IdentityId \ {i} :
           was[j] = "merged" \/ (was[j] = status[j] /\ weight'[j] = weight[j]),
         \A e \in EntityKey : weight[i][e] <= weight'[i][e],
         Recompute(i, was)
  PROVE  /\ confidence' \in [IdentityId -> Nat]
         /\ status' \in [IdentityId -> {"none", "tentative", "confirmed", "merged"}]
         /\ ConfidenceIsEarned'
  <1> DEFINE c == NoisyOrOf(Visible(i))
             before == NoisyOrOf(weight[i])
             after == NoisyOrOf(weight'[i])
  <1>0. /\ autoflush \in BOOLEAN
        /\ weight[i] \in [EntityKey -> 0 .. 10]
        /\ weight'[i] \in [EntityKey -> 0 .. 10]
        /\ confidence \in [IdentityId -> Nat]
        /\ status \in [IdentityId -> {"none", "tentative", "confirmed", "merged"}]
    BY DEF ServiceTypeOK, Weights
  <1>1. before \in Nat /\ after \in Nat /\ before <= after
    BY <1>0, ConfidencesGrow
  <1>2. /\ c = IF autoflush THEN after ELSE before
        /\ confidence' = [confidence EXCEPT ![i] = c]
        /\ status' = [was EXCEPT ![i] =
                        IF was[i] = "tentative" /\ Confirming(c) THEN "confirmed"
                        ELSE was[i]]
    BY DEF Recompute, Visible
  <1>a. /\ status[i] \notin {"none", "merged"} =>
             /\ confidence[i] <= before
             /\ status[i] = "confirmed" <=> Confirming(confidence[i])
        /\ confidence[i] \in Nat
    BY <1>0 DEF ConfidenceIsEarned, Existing
  <1> HIDE DEF c, before, after
  <1>3. c \in Nat /\ c <= after /\ (autoflush => c = after) /\ before <= c
    BY <1>0, <1>1, <1>2
  <1>4. /\ confidence' \in [IdentityId -> Nat]
        /\ status' \in [IdentityId -> {"none", "tentative", "confirmed", "merged"}]
        /\ confidence'[i] = c
        /\ status'[i] = IF was[i] = "tentative" /\ Confirming(c) THEN "confirmed"
                        ELSE was[i]
        /\ \A j \in IdentityId \ {i} : confidence'[j] = confidence[j] /\ status'[j] = was[j]
    BY <1>0, <1>2, <1>3
  <1>5. ASSUME status'[i] \notin {"none", "merged"}
        PROVE  status'[i] = "confirmed" <=> Confirming(c)
    <2>1. was[i] \in {"tentative", "confirmed"}
      BY <1>4, <1>5
    <2>2. CASE was[i] = "tentative"
      BY <1>4, <2>2
    <2>3. CASE was[i] = "confirmed"
      <3>1. status[i] = "confirmed"
        BY <2>3
      <3>2. Confirming(confidence[i]) /\ confidence[i] <= c
        BY <1>1, <1>3, <1>a, <3>1
      <3>3. Confirming(c)
        BY <1>3, <1>a, <3>2, ConfirmingGrows
      <3>4. QED
        BY <1>4, <2>3, <3>3
    <2>4. QED
      BY <2>1, <2>2, <2>3
  <1>6. ASSUME NEW j \in IdentityId, status'[j] \notin {"none", "merged"}
        PROVE  /\ confidence'[j] <= NoisyOrOf(weight'[j])
               /\ autoflush => confidence'[j] = NoisyOrOf(weight'[j])
               /\ status'[j] = "confirmed" <=> Confirming(confidence'[j])
    <2>1. CASE j = i
      BY <1>3, <1>4, <1>5, <1>6, <2>1 DEF after
    <2>2. CASE j # i
      <3>1. /\ status'[j] = status[j] /\ weight'[j] = weight[j]
            /\ confidence'[j] = confidence[j]
        BY <1>4, <1>6, <2>2
      <3>2. QED
        BY <1>6, <3>1 DEF ConfidenceIsEarned, Existing
    <2>3. QED
      BY <2>1, <2>2
  <1>7. ConfidenceIsEarned'
    BY <1>6 DEF ConfidenceIsEarned, Existing
  <1>8. QED
    BY <1>4, <1>7

\* No identity has a confidence before the first call.
LEMMA ServiceInitially == ServiceInit => ServiceTypeOK /\ ConfidenceIsEarned
  BY DEF ServiceInit, ServiceTypeOK, ConfidenceIsEarned, Existing

\* Every call of the service leaves confidences that the links earn.
LEMMA ServiceStep ==
  ASSUME ServiceTypeOK, ConfidenceIsEarned, [ServiceNext]_serviceVars
  PROVE  ServiceTypeOK' /\ ConfidenceIsEarned'
  <1> DEFINE Statuses == {"none", "tentative", "confirmed", "merged"}
  <1>0. /\ autoflush \in BOOLEAN
        /\ stored \in SUBSET EntityKey
        /\ entityLinks \in [EntityKey -> SUBSET InvId]
        /\ inCount \in [EntityKey -> Nat]
        /\ Weights
        /\ status \in [IdentityId -> Statuses]
    BY DEF ServiceTypeOK, Weights
  <1>1. CASE UNCHANGED <<autoflush, identityTables>>
    <2>1. /\ stored' \in SUBSET EntityKey
          /\ entityLinks' \in [EntityKey -> SUBSET InvId]
          /\ inCount' \in [EntityKey -> Nat]
      <3>1. CASE UNCHANGED entityTables
        BY <1>0, <3>1 DEF entityTables
      <3>2. ASSUME NEW e \in EntityKey, UpsertCanonical(e)
            PROVE  /\ stored' \in SUBSET EntityKey
                   /\ entityLinks' \in [EntityKey -> SUBSET InvId]
                   /\ inCount' \in [EntityKey -> Nat]
        BY <1>0, <3>2 DEF UpsertCanonical
      <3>3. ASSUME NEW e \in EntityKey, NEW i \in InvId, LinkToInvestigation(e, i)
            PROVE  /\ stored' \in SUBSET EntityKey
                   /\ entityLinks' \in [EntityKey -> SUBSET InvId]
                   /\ inCount' \in [EntityKey -> Nat]
        BY <1>0, <3>3 DEF LinkToInvestigation
      <3>4. QED
        BY <3>1, <3>2, <3>3 DEF ServiceNext, MergeIntoIdentity, CreateIdentity,
                                MergeIdentityInto, serviceVars
    <2>2. QED
      BY <1>1, <2>1 DEF ServiceTypeOK, ConfidenceIsEarned, Existing, identityTables
  <1>2. ASSUME UNCHANGED <<autoflush, entityTables>>, Weights',
               confidence' \in [IdentityId -> Nat], status' \in [IdentityId -> Statuses]
        PROVE  ServiceTypeOK'
    BY <1>2 DEF ServiceTypeOK, Weights, entityTables
  <1>3. ASSUME NEW S \in (SUBSET stored) \ {{}}, NEW table \in SignalTables,
               MergeIntoIdentity(S, table) \/ CreateIdentity(S, table)
        PROVE  ServiceTypeOK' /\ ConfidenceIsEarned'
    <2>1. PICK i \in IdentityId, was \in [IdentityId -> Statuses] :
            /\ weight' = [weight EXCEPT ![i] = WithLinks(i, S, table)]
            /\ Recompute(i, was)
            /\ was[i] = status[i] \/ (status[i] = "none" /\ was[i] = "tentative")
            /\ \A j \in IdentityId \ {i} : was[j] = status[j]
      <3>1. CASE MergeIntoIdentity(S, table)
        <4>1. PICK i \in Best(S) :
                /\ weight' = [weight EXCEPT ![i] = WithLinks(i, S, table)]
                /\ Recompute(i, status)
          BY <3>1 DEF MergeIntoIdentity
        <4>2. i \in IdentityId
          BY DEF Best, Candidates, Existing
        <4>3. QED
          BY <1>0, <4>1, <4>2
      <3>2. CASE CreateIdentity(S, table)
        <4>1. PICK i \in IdentityId \ Existing :
                /\ weight' = [weight EXCEPT ![i] = WithLinks(i, S, table)]
                /\ Recompute(i, [status EXCEPT ![i] = "tentative"])
          BY <3>2 DEF CreateIdentity
        <4>2. status[i] = "none"
          BY <4>1 DEF Existing
        <4>3. PICK was : was = [status EXCEPT ![i] = "tentative"]
          OBVIOUS
        <4>4. /\ was \in [IdentityId -> Statuses]
              /\ was[i] = "tentative"
              /\ \A j \in IdentityId \ {i} : was[j] = status[j]
          BY <1>0, <4>3
        <4>5. Recompute(i, was)
          BY <4>1, <4>3
        <4>6. QED
          BY <4>1, <4>2, <4>4, <4>5
      <3>3. QED
        BY <1>3, <3>1, <3>2
    <2>2. UNCHANGED <<autoflush, entityTables>> /\ S \in SUBSET EntityKey
      BY <1>0, <1>3 DEF MergeIntoIdentity, CreateIdentity
    <2>3. Weights' /\ \A j \in IdentityId, e \in EntityKey : weight'[j][e] >= weight[j][e]
      BY <1>0, <2>1, <2>2, LinksAreAdded
    <2>4. /\ \A j \in IdentityId \ {i} : weight'[j] = weight[j]
          /\ \A e \in EntityKey : weight[i][e] <= weight'[i][e]
      BY <1>0, <2>1, <2>3 DEF Weights
    <2>5. /\ confidence' \in [IdentityId -> Nat]
          /\ status' \in [IdentityId -> Statuses]
          /\ ConfidenceIsEarned'
      BY <2>1, <2>2, <2>3, <2>4, Recomputed
    <2>6. QED
      BY <1>2, <2>2, <2>3, <2>5
  <1>4. ASSUME NEW source \in IdentityId, NEW target \in IdentityId,
               MergeIdentityInto(source, target)
        PROVE  ServiceTypeOK' /\ ConfidenceIsEarned'
    <2>1. PICK was : was = [status EXCEPT ![source] = "merged"]
      OBVIOUS
    <2>2. /\ Recompute(target, was) /\ source # target
          /\ UNCHANGED <<autoflush, entityTables>>
      BY <1>4, <2>1 DEF MergeIdentityInto
    <2>3. /\ was \in [IdentityId -> Statuses]
          /\ was[target] = status[target]
          /\ was[source] = "merged"
          /\ \A j \in IdentityId \ {source} : was[j] = status[j]
      BY <1>0, <2>1, <2>2
    <2>4. /\ Weights'
          /\ \A e \in EntityKey : weight'[target][e] >= weight[target][e]
          /\ \A j \in IdentityId \ {source, target} : weight'[j] = weight[j]
      BY <1>0, <1>4, WeightsAreMerged
    <2>5. \A e \in EntityKey : weight[target][e] <= weight'[target][e]
      BY <1>0, <2>4 DEF Weights
    <2>6. \A j \in IdentityId \ {target} :
            was[j] = "merged" \/ (was[j] = status[j] /\ weight'[j] = weight[j])
      BY <2>3, <2>4
    <2>7. /\ confidence' \in [IdentityId -> Nat]
          /\ status' \in [IdentityId -> Statuses]
          /\ ConfidenceIsEarned'
      BY <2>2, <2>3, <2>4, <2>5, <2>6, Recomputed
    <2>8. QED
      BY <1>2, <2>2, <2>4, <2>7
  <1>5. CASE \/ \E e \in EntityKey : UpsertCanonical(e)
             \/ \E e \in EntityKey, i \in InvId : LinkToInvestigation(e, i)
             \/ UNCHANGED serviceVars
    <2>1. UNCHANGED <<autoflush, identityTables>>
      BY <1>5 DEF UpsertCanonical, LinkToInvestigation, serviceVars
    <2>2. QED
      BY <1>1, <2>1
  <1>6. QED
    BY <1>3, <1>4, <1>5 DEF ServiceNext

\* For any entities, weights and order of calls, the confidence of a living
\* identity is that of its links with autoflush, and never above it without.
THEOREM ConfidencesAreEarned == ServiceSpec => [](ServiceTypeOK /\ ConfidenceIsEarned)
  <1>1. QED
    BY ServiceInitially, ServiceStep, PTL DEF ServiceSpec
=============================================================================

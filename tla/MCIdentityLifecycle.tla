------------------------ MODULE MCIdentityLifecycle ------------------------
(* Instances of IdentityLifecycle for TLC.                                 *)
EXTENDS IdentityLifecycle, TLC, FiniteSetsExt

CONSTANTS email, handle, city, home, away, s1, i1, i2, i3, d1, d2, d3

\* email and handle were seen in the home investigation, city and handle in
\* another one.  A second source may see the handle at home: it then reaches the
\* threshold together with the city, which it does not with one source.
MCInvestigationsOf ==
  email :> {home} @@ handle :> {home, away} @@ city :> {away}

MCObservable == {<<handle, home, s1>>}

\* _compute_entity_weight in hundredths, with one source and with two: an email
\* is tier 1 and not boosted; a username is tier 2, a city tier 3, and both are
\* by 1 + ln(2).
Weight(e, basis) ==
  LET boosted == \E s \in Source : <<e, s>> \in basis
  IN  CASE <<e, None>> \notin basis -> 0
        [] e = email               -> 85
        [] e = handle              -> IF boosted THEN 84 ELSE 50
        [] e = city                -> IF boosted THEN 33 ELSE 20

\* _recompute_confidence: 1 - product(1 - w) >= IDENTITY_PROMOTION_THRESHOLD.
NoisyOrPromotes(basis) ==
  LET missed == MapThenFoldSet(LAMBDA x, y : x * y, 1,
                               LAMBDA e : 100 - Weight(e, basis),
                               LAMBDA T : CHOOSE e \in T : TRUE, Entity)
  IN missed <= 15 * 100 ^ (Cardinality(Entity) - 1)

MCPromoting == {B \in SUBSET Basis : NoisyOrPromotes(B)}

Symmetry == Permutations(Identity) \union Permutations(Decision)
=============================================================================

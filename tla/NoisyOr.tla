------------------------------ MODULE NoisyOr ------------------------------
(***************************************************************************)
(* The noisy-or of weights, which the correlation engine and the entity    *)
(* service both compute: src/argus/canonical/correlation.py and            *)
(* src/argus/canonical/services/canonical_entity.py.                       *)
(*                                                                         *)
(* A weight is a number of parts of a certainty (tenths or hundredths).    *)
(* What has no weight counts zero, so that the confidences over one set of *)
(* sources are on one scale and need no fractions.                         *)
(***************************************************************************)
EXTENDS Integers, FiniteSets, Functions

Product(factors) == LET Times(a, b) == a * b
                    IN  FoldFunction(Times, 1, factors)

\* A confidence of one, over the sources S.
Certainty(S, parts) == Product([x \in S |-> parts])

\* product(1 - weight): what the noisy-or leaves of a certainty.
Doubt(weights, parts) == Product([x \in DOMAIN weights |-> parts - weights[x]])
=============================================================================

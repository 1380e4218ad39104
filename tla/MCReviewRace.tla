---------------------------- MODULE MCReviewRace ----------------------------
(* Instances of ReviewRace for TLC.                                        *)
EXTENDS MCIdentityLifecycle, ReviewRace

CONSTANTS q1, q2

RaceSymmetry == Permutations(Identity) \union Permutations(Request)
=============================================================================

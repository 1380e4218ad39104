--------------------------- MODULE MCReviewReplay ---------------------------
(* Instances of ReviewReplay for TLC.                                      *)
EXTENDS MCReviewRace, ReviewReplay
=============================================================================

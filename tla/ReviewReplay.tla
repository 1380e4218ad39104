---------------------------- MODULE ReviewReplay ----------------------------
(***************************************************************************)
(* Racing reviewers and the replay engine over one database: a replay runs *)
(* in a transaction of its own, so it comes between two handlers, and      *)
(* between the check of a review and its commit.                           *)
(***************************************************************************)
EXTENDS ReviewRace, Replay

RaceReplayNext == RaceNext \/ (ReplayAll /\ UNCHANGED requests)

RaceReplaySpec == RaceInit /\ [][RaceReplayNext]_allVars
=============================================================================

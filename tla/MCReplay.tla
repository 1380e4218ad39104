------------------------------ MODULE MCReplay ------------------------------
(* Instances of Replay for TLC.                                            *)
EXTENDS MCIdentityLifecycle, Replay
=============================================================================

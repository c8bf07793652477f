-------------------- MODULE MCSubscribeBackgroundService --------------------
(***************************************************************************)
(* Symmetry for the runs of SubscribeBackgroundService without liveness.   *)
(***************************************************************************)
EXTENDS SubscribeBackgroundService, TLC

MCSymmetry == Permutations(Handlers)
=============================================================================

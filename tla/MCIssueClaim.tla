---------------------------- MODULE MCIssueClaim ----------------------------
(* Instances of IssueClaim for TLC.                                         *)
EXTENDS IssueClaim, TLC

WorkerSymmetry == Permutations(Workers)
=============================================================================

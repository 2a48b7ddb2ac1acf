----------------------------- MODULE MCDemandLoop -----------------------------
(* Instances of DemandLoop. *)
EXTENDS DemandLoop, TLC

CONSTANTS p1, p2, w1, w2, w3

OneProject == <<p1>>

TwoProjects == <<p1, p2>>

WorkerSymmetry == Permutations(Workers)
=============================================================================

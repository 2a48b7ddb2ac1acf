----------------------------- MODULE MCClaimSweep -----------------------------
(* Instances of ClaimSweep. *)
EXTENDS ClaimSweep

CONSTANTS w1, w2, crashed
=============================================================================

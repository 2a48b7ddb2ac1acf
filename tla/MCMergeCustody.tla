---------------------------- MODULE MCMergeCustody ----------------------------
(* Instances of MergeCustody. *)
EXTENDS MergeCustody

CONSTANTS pr1, pr2, t1, t2, c1, c2
=============================================================================

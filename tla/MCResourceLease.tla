--------------------------- MODULE MCResourceLease ---------------------------
(* Instances of ResourceLease: requests that compete for one resource. *)
EXTENDS ResourceLease

CONSTANTS r1, r2, heavy

MCResource == [r \in Requests |-> heavy]
=============================================================================

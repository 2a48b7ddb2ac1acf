-------------------------- MODULE MCDaemonSingleton --------------------------
(* Instances of DaemonSingleton. *)
EXTENDS DaemonSingleton

CONSTANTS p1, p2, p3, user1, user2

OneUser == [p \in Procs |-> user1]

TwoUsers == [p \in Procs |-> IF p = p1 THEN user1 ELSE user2]
=============================================================================

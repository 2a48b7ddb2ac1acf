------------------------------- MODULE WriteOnce -------------------------------
(***************************************************************************)
(* What a durable outbox promises its callers: a write that is named by a  *)
(* key reaches the forge at most once, however often it is asked for, and  *)
(* a receipt is given only for a key that did reach it.                    *)
(***************************************************************************)
EXTENDS Naturals

CONSTANTS
    Requests,  \* the writes callers ask for
    KeyOf      \* the idempotency key each is asked for under

VARIABLES
    posts,    \* how often each write took effect on the forge
    receipts  \* the writes a caller holds a receipt for

vars == <<posts, receipts>>

SameKey(r) == {q \in Requests : KeyOf[q] = KeyOf[r]}

Init ==
    /\ posts = [r \in Requests |-> 0]
    /\ receipts = {}

Write(r) ==
    /\ \A q \in SameKey(r) : posts[q] = 0
    /\ posts' = [posts EXCEPT ![r] = 1]
    /\ UNCHANGED receipts

Receipt(r) ==
    /\ \E q \in SameKey(r) : posts[q] = 1
    /\ receipts' = receipts \cup {r}
    /\ UNCHANGED posts

Next == \E r \in Requests : Write(r) \/ Receipt(r)

Spec == Init /\ [][Next]_vars
=============================================================================

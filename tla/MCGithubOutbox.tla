---------------------------- MODULE MCGithubOutbox ----------------------------
(* Instances of GithubOutbox: a push, a pull request, a state transition, and    *)
(* another write that is asked for under the pull request's key.                 *)
EXTENDS GithubOutbox

CONSTANTS push, pull, other, move

MCKeyOf == [r \in Requests |-> IF r = other THEN pull ELSE r]

MCKind == [r \in Requests |->
             IF r = push THEN "push" ELSE IF r = move THEN "transition" ELSE "post"]
=============================================================================

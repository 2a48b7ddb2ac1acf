---- MODULE MCIssueLabels ----
(* An instance of IssueLabels. *)
EXTENDS IssueLabels

\* What zombie reconciliation assumes of an issue it did not read.
MCAssumed == {[known |-> {"running", "ready"}, t |-> request("human")]}

\* What humans do by hand that the engine must survive: quarantine, and undo it.
MCHumanLabels == {"quarantine"}
====

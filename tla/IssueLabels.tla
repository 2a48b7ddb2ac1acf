----------------------------- MODULE IssueLabels -----------------------------
(***************************************************************************)
(* The state labels of one issue under the actors that change them: engine *)
(* code that reads the labels, plans a transition and edits the issue      *)
(* (applyTransition, transitionLabels, the dependency promotions), the     *)
(* quarantine curator's periodic sweep (engine/issue-state-curator.ts),    *)
(* the humans and GitHub.                                                  *)
(*                                                                         *)
(* A plan is computed from the labels the call site knows, which it read   *)
(* or assumes; the edit is a later request.  Nothing keeps the issue as it *)
(* was in between, so edits overlap freely.                                *)
(***************************************************************************)
EXTENDS StateTransition

CONSTANTS
    Actors,        \* engine call sites that apply transitions
    Assumed,       \* the transitions call sites plan without reading the issue, each
                   \* from the labels it takes the issue to have
    HumanLabels,   \* labels a human may add or remove by hand
    RecheckLimit,  \* ISSUE_CURATOR_RECHECK_LIMIT
    MaxFaults      \* bound: failed edits, crashes, hand edits, changed blockers,
                   \* plans for a closed issue

ASSUME CuratorConstants ==
    /\ RecheckLimit \in Nat \ {0}
    /\ MaxFaults \in Nat
    /\ Assumed \subseteq [known : SUBSET Labels, t : Transition]
    /\ HumanLabels \subseteq Labels

VARIABLES
    labels,     \* the issue's labels on the tracker
    open,       \* whether the issue is open
    blocker,    \* whether its body has an active Current blocker
    plan,       \* the edit each actor has planned and not yet sent
    sweep,      \* the curator: where it is in its sweep
    listed,     \* the curator's copy of the issue: labels and blocker
    edit,       \* the edit the curator has planned
    checks,     \* failedChecks of the issue, in the sweep's memory
    stored,     \* failedChecks of the issue, in the curator's state file
    faults

curatorVars == <<sweep, listed, edit, checks, stored>>

issueVars == <<labels, open, blocker>>

vars == <<issueVars, plan, curatorVars, faults>>

TypeOK ==
    /\ labels \in SUBSET Labels
    /\ open \in BOOLEAN
    /\ blocker \in BOOLEAN
    /\ plan \in [Actors -> Plans]
    /\ sweep \in {"idle", "listed", "note", "release", "park", "reconcile", "close", "store"}
    /\ listed \in [labels : SUBSET Labels, blocker : BOOLEAN]
    /\ edit \in Plans
    /\ checks \in Nat
    /\ stored \in Nat
    /\ faults \in 0 .. MaxFaults

\* Nothing listed.
NoIssue == [labels |-> {}, blocker |-> FALSE]

request(kind) == [kind |-> kind, reason |-> "none", reqs |-> {}]

Fault == faults < MaxFaults /\ faults' = faults + 1

\* The labels the tracker has after an edit.
Edited(current, p) == (current \ p.remove) \cup p.add

ApplyEdit(p) == labels' = Edited(labels, p)

Init ==
    /\ \E role \in StateRoles : labels = {role}
    /\ open = TRUE
    /\ blocker = FALSE
    /\ plan = [a \in Actors |-> NoPlan]
    /\ sweep = "idle"
    /\ listed = NoIssue
    /\ edit = NoPlan
    /\ checks = 0
    /\ stored = 0
    /\ faults = 0

-----------------------------------------------------------------------------
(* Engine code: read, plan, edit.                                           *)

\* A call site plans a transition from the labels it read, or from those it
\* assumes; a refused plan performs no tracker call.  It does not look whether
\* the issue is open.
PlanTransition(a, t) ==
    /\ plan[a] = NoPlan
    /\ IF open THEN UNCHANGED faults ELSE Fault
    /\ \E known \in {labels} \cup {blind.known : blind \in {b \in Assumed : b.t = t}} :
         /\ ~isRefused(known, t)
         /\ plan' = [plan EXCEPT ![a] = planTransition(known, t)]
    /\ UNCHANGED <<issueVars, curatorVars>>

\* A plan that appends a diagnosis reads the body it will replace.
ReadBody(a) ==
    /\ plan[a].body = "unread"
    /\ plan' = [plan EXCEPT ![a].body = IF blocker THEN "blocked" ELSE "clear"]
    /\ UNCHANGED <<issueVars, curatorVars, faults>>

\* One edit covers the labels added and removed, and the body.
ApplyTransition(a) ==
    /\ plan[a] # NoPlan
    /\ plan[a].body # "unread"
    /\ ApplyEdit(plan[a])
    /\ blocker' = IF plan[a].body = "keep" THEN blocker ELSE plan[a].body = "blocked"
    /\ plan' = [plan EXCEPT ![a] = NoPlan]
    /\ UNCHANGED <<open, curatorVars, faults>>

ApplyTransitionFails(a) ==
    /\ plan[a] # NoPlan
    /\ Fault
    /\ plan' = [plan EXCEPT ![a] = NoPlan]
    /\ UNCHANGED <<issueVars, curatorVars>>

-----------------------------------------------------------------------------
(* The curator's sweep.                                                     *)

\* quarantineIncoherence of the issue as it was listed.
quarantineIncoherence(issue) ==
    \/ issue.blocker
    \/ issue.labels \cap (   {"ready", "human", "running", "needsTriage", "dependencyBlocked"}
                        \cup Reasons) # {}

\* runIssueStateCurator reads its state file and lists the open quarantined issues.
CuratorList ==
    /\ sweep = "idle"
    /\ checks' = stored
    /\ IF open /\ "quarantine" \in labels
          THEN /\ sweep' = "listed"
               /\ listed' = [labels |-> labels, blocker |-> blocker]
          ELSE /\ sweep' = "reconcile"
               /\ UNCHANGED listed
    /\ UNCHANGED <<issueVars, plan, edit, stored, faults>>

recheckSpent(n) == n >= RecheckLimit

\* A coherent issue is to be queued again, unless the planner refuses.
CuratorRelease ==
    /\ sweep = "listed"
    /\ ~quarantineIncoherence(listed)
    /\ IF isRefused(listed.labels, request("queue"))
          THEN sweep' = "reconcile" /\ listed' = NoIssue /\ UNCHANGED edit
          ELSE /\ sweep' = "note"
               /\ edit' = planTransition(listed.labels, request("queue"))
               /\ UNCHANGED listed
    /\ UNCHANGED <<issueVars, plan, checks, stored, faults>>

\* An incoherent one is counted and, at the limit, to be parked for a human.
CuratorCount ==
    /\ sweep = "listed"
    /\ quarantineIncoherence(listed)
    /\ checks' = checks + 1
    /\ IF ~recheckSpent(checks + 1) \/ isRefused(listed.labels, request("human"))
          THEN sweep' = "reconcile" /\ UNCHANGED edit
          ELSE sweep' = "park" /\ edit' = planTransition(listed.labels, request("human"))
    /\ listed' = NoIssue
    /\ UNCHANGED <<labels, open, blocker, plan, stored, faults>>

\* A release first replaces the body by the listed one and its note.
CuratorNote ==
    /\ sweep = "note"
    /\ blocker' = listed.blocker
    /\ sweep' = "release"
    /\ listed' = NoIssue
    /\ UNCHANGED <<labels, open, plan, edit, checks, stored, faults>>

\* The release or the park is written, and the count forgotten.
CuratorWrite ==
    /\ sweep \in {"release", "park"}
    /\ ApplyEdit(edit)
    /\ checks' = 0
    /\ edit' = NoPlan
    /\ sweep' = "reconcile"
    /\ UNCHANGED <<open, blocker, plan, listed, stored, faults>>

\* One unwritable issue is left for the next sweep, its count kept.
CuratorWriteFails ==
    /\ sweep \in {"note", "release", "park"}
    /\ Fault
    /\ edit' = NoPlan
    /\ sweep' = "reconcile"
    /\ listed' = NoIssue
    /\ UNCHANGED <<issueVars, plan, checks, stored>>

\* Mutant: the reconciliation never takes the close to the tracker.
CuratorListClosed_openOnly ==
    /\ sweep = "reconcile"
    /\ sweep' = "store"
    /\ UNCHANGED <<issueVars, plan, listed, edit, checks, stored, faults>>

\* reconcileClosedIssues: a closed issue that still has a role is listed.
CuratorListClosed ==
    /\ sweep = "reconcile"
    /\ IF ~open /\ ~NoRole(labels) /\ ~isRefused(labels, request("close"))
          THEN sweep' = "close" /\ edit' = planTransition(labels, request("close"))
          ELSE sweep' = "store" /\ UNCHANGED edit
    /\ UNCHANGED <<issueVars, plan, listed, checks, stored, faults>>

\* The tracker cannot list the closed issues: this pass is lost.
CuratorListClosedFails ==
    /\ sweep = "reconcile"
    /\ Fault
    /\ sweep' = "store"
    /\ UNCHANGED <<issueVars, plan, listed, edit, checks, stored>>

CuratorClose ==
    /\ sweep = "close"
    /\ ApplyEdit(edit)
    /\ checks' = 0
    /\ edit' = NoPlan
    /\ sweep' = "store"
    /\ UNCHANGED <<open, blocker, plan, listed, stored, faults>>

CuratorCloseFails ==
    /\ sweep = "close"
    /\ Fault
    /\ edit' = NoPlan
    /\ sweep' = "store"
    /\ UNCHANGED <<issueVars, plan, listed, checks, stored>>

\* Mutant: the counters are not saved.
CuratorStore_forgets ==
    /\ sweep = "store"
    /\ stored' = 0
    /\ sweep' = "idle"
    /\ UNCHANGED <<issueVars, plan, listed, edit, checks, faults>>

\* The sweep ends by replacing the state file.
CuratorStore ==
    /\ sweep = "store"
    /\ stored' = checks
    /\ sweep' = "idle"
    /\ UNCHANGED <<issueVars, plan, listed, edit, checks, faults>>

\* The resident dies in mid-sweep, or the state file cannot be replaced: what
\* the sweep counted is lost.
CuratorCrash ==
    /\ sweep # "idle"
    /\ Fault
    /\ sweep' = "idle"
    /\ edit' = NoPlan
    /\ checks' = stored
    /\ listed' = NoIssue
    /\ UNCHANGED <<issueVars, plan, stored>>

-----------------------------------------------------------------------------
(* The world.                                                               *)

\* A winner of the claim projects `running` on the queued issue (claim.ts:39
\* leaves that to its caller).
ProjectRunning ==
    /\ open /\ "ready" \in labels /\ "running" \notin labels
    /\ labels' = labels \cup {"running"}
    /\ UNCHANGED <<open, blocker, plan, curatorVars, faults>>

HumanEdit(l) ==
    /\ Fault
    /\ labels' = (IF l \in labels THEN labels \ {l} ELSE labels \cup {l})
    /\ UNCHANGED <<open, blocker, plan, curatorVars>>

\* The body's Current blocker appears or is cleared.
BlockerChanges ==
    /\ Fault
    /\ blocker' = ~blocker
    /\ UNCHANGED <<labels, open, plan, curatorVars>>

\* A merged pull request closes the issue on GitHub's side.
IssueCloses ==
    /\ open
    /\ open' = FALSE
    /\ UNCHANGED <<labels, blocker, plan, curatorVars, faults>>

CuratorStep ==
    \/ CuratorList
    \/ CuratorRelease
    \/ CuratorCount
    \/ CuratorNote
    \/ CuratorWrite
    \/ CuratorListClosed
    \/ CuratorClose
    \/ CuratorStore

Next ==
    \/ \E a \in Actors :
         \/ \E t \in Transition : PlanTransition(a, t)
         \/ ReadBody(a)
         \/ ApplyTransition(a)
         \/ ApplyTransitionFails(a)
    \/ CuratorStep
    \/ CuratorWriteFails
    \/ CuratorListClosedFails
    \/ CuratorCloseFails
    \/ CuratorCrash
    \/ ProjectRunning
    \/ \E l \in HumanLabels : HumanEdit(l)
    \/ BlockerChanges
    \/ IssueCloses

\* The resident repeats its sweep, and an actor that planned sends its edit.
Fairness ==
    /\ WF_vars(CuratorStep)
    /\ \A a \in Actors : WF_vars(ReadBody(a) \/ ApplyTransition(a))

Spec == Init /\ [][Next]_vars /\ Fairness

-----------------------------------------------------------------------------
(* Properties.                                                              *)

\* A quarantined issue does not stay held for ever: the curator queues it or
\* parks it, unless dependency edges make the planner refuse, or it is closed.
QuarantineIsLeft ==
    (open /\ "quarantine" \in labels)
        ~> ("quarantine" \notin labels \/ ~open \/ labels \cap Reqs # {})

\* State that a close left behind is stripped by a later sweep and stays away,
\* whatever edits were outstanding at the close, and though call sites plan a few
\* more for the closed issue (reconcileClosedIssues).
ClosedStaysStripped == ~open ~> [](NoRole(labels))
=============================================================================

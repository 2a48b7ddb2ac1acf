-------------------------- MODULE IssueLabelsProofs --------------------------
(***************************************************************************)
(* Proofs about StateTransition and IssueLabels: what the planner accepts, *)
(* what an edit makes of an issue that is not what its plan was made from, *)
(* and the types.                                                          *)
(***************************************************************************)
EXTENDS IssueLabels, TLAPS

\* The target of a transition is at most one role, and it is in the replay.
LEMMA TargetIsReached ==
    ASSUME NEW current \in SUBSET Labels, NEW t \in Transition
    PROVE  /\ targetRole(t, current) \subseteq replay(current, t)
           /\ t.kind # "close" => \E role \in StateRoles : targetRole(t, current) = {role}
           /\ t.kind = "close" => targetRole(t, current) = {}
<1>1. targetRole(t, current) \subseteq StateRoles
  BY DEF targetRole, Transition, Kinds, StateRoles
<1>2. targetRole(t, current) \cap (Reasons \cup Reqs \cup {"running"}) = {}
  BY <1>1, LabelsDisjoint DEF Modifiers, StateRoles
<1>3. targetRole(t, current) \subseteq replay(current, t)
  BY <1>1, <1>2 DEF replay, removed, added
<1>4. t.kind # "close" => \E role \in StateRoles : targetRole(t, current) = {role}
  BY DEF targetRole, Transition, Kinds, StateRoles
<1>5. t.kind = "close" => targetRole(t, current) = {}
  BY DEF targetRole
<1> QED
  BY <1>3, <1>4, <1>5

\* The roles a replay leaves: the target, and `blocked:dependency` when a park
\* names it as its reason and the issue did not have it.
LEMMA RolesOfReplay ==
    ASSUME NEW current \in SUBSET Labels, NEW t \in Transition
    PROVE  replay(current, t) \cap StateRoles =
             targetRole(t, current)
               \cup (IF t.kind = "park" THEN {t.reason} \cap (StateRoles \ current) ELSE {})
<1>1. targetRole(t, current) \subseteq StateRoles
  BY DEF targetRole, Transition, Kinds, StateRoles
<1>2. t.kind = "dependency-block" => t.reqs \cap StateRoles = {}
  BY LabelsDisjoint DEF Transition, Modifiers
<1>3. Reasons \cap StateRoles = {} /\ Reqs \cap StateRoles = {}
  BY LabelsDisjoint DEF Modifiers
<1> QED
  BY <1>1, <1>2, <1>3, TargetIsReached DEF replay, removed, added

\* The replay check of planTransition refuses exactly one kind of well-formed
\* request: parking under `blocked:dependency`, which is a role of its own, an
\* issue that does not already wait on a dependency.
THEOREM WhatReplayRefuses ==
    ASSUME NEW current \in SUBSET Labels, NEW t \in Transition
    PROVE  isRefused(current, t) <=>
             \/ badRequest(current, t)
             \/ t.kind = "park" /\ t.reason = "dependencyBlocked" /\ t.reason \notin current
<1>1. CASE t.kind = "close"
  BY <1>1, TargetIsReached, RolesOfReplay DEF isRefused, NoRole
<1>2. CASE t.kind # "close"
  <2>1. PICK role \in StateRoles : targetRole(t, current) = {role}
    BY <1>2, TargetIsReached
  <2>2. CASE t.kind = "park"
    <3>1. role = "human"
      BY <2>1, <2>2 DEF targetRole
    <3>2. t.reason \in Reasons \cup {"dependencyBlocked", "none"}
      BY <2>2 DEF Transition
    <3>3. CASE t.reason = "dependencyBlocked" /\ t.reason \notin current
      <4>1. replay(current, t) \cap StateRoles = {"human", "dependencyBlocked"}
        BY <2>1, <2>2, <3>1, <3>3, RolesOfReplay DEF StateRoles
      <4> QED
        BY <2>2, <3>3, <4>1 DEF isRefused, OneRole
    <3>4. CASE ~(t.reason = "dependencyBlocked" /\ t.reason \notin current)
      <4>1. {t.reason} \cap (StateRoles \ current) = {}
        BY <3>2, <3>4, LabelsDisjoint DEF StateRoles, Modifiers
      <4>2. replay(current, t) \cap StateRoles = {role}
        BY <2>1, <4>1, RolesOfReplay
      <4> QED
        BY <1>2, <2>2, <3>4, <4>2 DEF isRefused, OneRole
    <3> QED
      BY <3>3, <3>4
  <2>3. CASE t.kind # "park"
    <3>1. replay(current, t) \cap StateRoles = {role}
      BY <2>1, <2>3, RolesOfReplay
    <3> QED
      BY <1>2, <2>3, <3>1 DEF isRefused, OneRole
  <2> QED
    BY <2>2, <2>3
<1> QED
  BY <1>1, <1>2

\* An accepted plan is well typed.
LEMMA AcceptedPlan ==
    ASSUME NEW current \in SUBSET Labels, NEW t \in Transition, ~isRefused(current, t)
    PROVE  planTransition(current, t) \in Plans
<1>0. /\ t.kind \in Kinds
      /\ t.kind = "park" => t.reason \in Reasons \cup {"dependencyBlocked"}
      /\ t.kind = "dependency-block" => t.reqs \subseteq Reqs
  BY DEF Transition, Kinds, isRefused, badRequest
<1>1. targetRole(t, current) \subseteq StateRoles
  BY DEF targetRole, Transition, Kinds, StateRoles
<1>2. added(current, t) \subseteq Labels /\ removed(current, t) \subseteq Labels
  BY <1>0, <1>1 DEF added, removed, Labels, Modifiers, StateRoles
<1> QED
  BY <1>2 DEF planTransition, Plans

\* A park under `blocked:dependency` that is accepted does not add it.
LEMMA AddedRoles ==
    ASSUME NEW known \in SUBSET Labels, NEW t \in Transition, ~isRefused(known, t)
    PROVE  added(known, t) \cap StateRoles = targetRole(t, known) \ known
<1>1. targetRole(t, known) \subseteq StateRoles
  BY DEF targetRole, Transition, Kinds, StateRoles
<1>2. t.kind = "park" => t.reason \in Reasons \/ t.reason \in known
  BY WhatReplayRefuses DEF Transition, badRequest
<1>3. t.kind = "dependency-block" => t.reqs \cap StateRoles = {}
  BY LabelsDisjoint DEF Transition, Modifiers
<1>4. Reasons \cap StateRoles = {}
  BY LabelsDisjoint DEF Modifiers
<1> QED
  BY <1>1, <1>2, <1>3, <1>4 DEF added

\* An edit planned from what a call site knew, and applied to what the issue has
\* by then, leaves exactly the planned role (none for a close) if and only if the
\* site knew every other role the issue has, and did not take the issue to have
\* the planned one when it has not.  This is what overlapping edits, and call
\* sites that do not read the issue, can spoil (transitionLabels).
THEOREM WhenTheRoleIsReached ==
    ASSUME NEW known \in SUBSET Labels, NEW t \in Transition, ~isRefused(known, t),
           NEW current \in SUBSET Labels
    PROVE  LET target == targetRole(t, known)
           IN  Edited(current, planTransition(known, t)) \cap StateRoles = target <=>
                 /\ (current \cap StateRoles) \ target \subseteq known
                 /\ target \cap known \subseteq current
<1> DEFINE target == targetRole(t, known)
           roles == Edited(current, planTransition(known, t)) \cap StateRoles
<1>1. target \subseteq StateRoles
  BY DEF targetRole, Transition, Kinds, StateRoles
<1>2. added(known, t) \cap StateRoles = target \ known
  BY AddedRoles
<1>3. removed(known, t) \cap StateRoles = (known \cap StateRoles) \ target
  <2>1. Reasons \cap StateRoles = {} /\ Reqs \cap StateRoles = {} /\ "running" \notin StateRoles
    BY LabelsDisjoint DEF Modifiers, StateRoles
  <2> QED
    BY <2>1 DEF removed
<1>4. roles = ((current \cap StateRoles) \ ((known \cap StateRoles) \ target)) \cup (target \ known)
  BY <1>2, <1>3 DEF Edited, planTransition
<1> HIDE DEF target, roles
<1>5. roles = target <=> (current \cap StateRoles) \ target \subseteq known /\ target \cap known \subseteq current
  BY <1>1, <1>4
<1> QED
  BY <1>5 DEF target, roles

\* A queueing edit takes off exactly the blocked reasons and the projection its
\* call site knew, and no dependency edge: what came to the issue since, or was
\* not passed, stays on it in the queue (planTransition, transitionLabels).
THEOREM WhatQueueingLeaves ==
    ASSUME NEW known \in SUBSET Labels, ~isRefused(known, request("queue")),
           NEW current \in SUBSET Labels
    PROVE  LET barring == Reasons \cup Reqs \cup {"running"}
           IN  Edited(current, planTransition(known, request("queue"))) \cap barring
                 = (current \cap barring) \ known
<1> DEFINE t == request("queue")
           barring == Reasons \cup Reqs \cup {"running"}
<1>1. t.kind = "queue" /\ t.reason = "none" /\ t.reqs = {}
  BY DEF request
<1>2. targetRole(t, known) = {"ready"}
  BY <1>1 DEF targetRole, StateRoles
<1>3. known \cap Reqs = {}
  BY <1>1 DEF isRefused, badRequest
<1>4. "ready" \notin barring /\ StateRoles \cap barring = {}
  BY LabelsDisjoint DEF Modifiers, StateRoles
<1>5. removed(known, t) \cap barring = known \cap barring
  BY <1>1, <1>3, <1>4 DEF removed
<1>6. added(known, t) \cap barring = {}
  BY <1>1, <1>2, <1>4 DEF added
<1> HIDE DEF t, barring
<1>7. Edited(current, planTransition(known, t)) \cap barring = (current \cap barring) \ known
  BY <1>5, <1>6 DEF Edited, planTransition
<1> QED
  BY <1>7 DEF t, barring

\* The three requests the curator makes are transitions.
LEMMA CuratorRequests ==
    ASSUME NEW kind \in {"queue", "human", "close"}
    PROVE  request(kind) \in Transition /\ request(kind).kind = kind
BY DEF request, Transition, Kinds

\* Applying an edit to well-typed labels gives well-typed labels.
LEMMA EditedTypes ==
    ASSUME NEW current \in SUBSET Labels, NEW p \in Plans
    PROVE  Edited(current, p) \in SUBSET Labels
BY DEF Edited, Plans

-----------------------------------------------------------------------------
(* Type correctness.                                                        *)

IssueTypes ==
    /\ labels \in SUBSET Labels
    /\ open \in BOOLEAN
    /\ blocker \in BOOLEAN

CuratorTypes ==
    /\ sweep \in {"idle", "listed", "note", "release", "park", "reconcile", "close", "store"}
    /\ listed \in [labels : SUBSET Labels, blocker : BOOLEAN]
    /\ edit \in Plans
    /\ checks \in Nat
    /\ stored \in Nat

\* The type invariant, by parts.
LEMMA TypeParts ==
    TypeOK <=> /\ IssueTypes
               /\ plan \in [Actors -> Plans]
               /\ CuratorTypes
               /\ faults \in 0 .. MaxFaults
BY DEF TypeOK, IssueTypes, CuratorTypes

\* The empty plan and the empty listing have their types.
LEMMA NothingTyped ==
    NoPlan \in Plans /\ NoIssue \in [labels : SUBSET Labels, blocker : BOOLEAN]
BY DEF NoPlan, Plans, NoIssue

\* A fresh issue with one role is well typed.
LEMMA InitTypes == Init => TypeOK
<1> USE CuratorConstants
<1> SUFFICES ASSUME Init PROVE TypeOK
  OBVIOUS
<1>1. labels \in SUBSET Labels
  BY DEF Init, Labels
<1>2. IssueTypes
  BY <1>1 DEF Init, IssueTypes
<1>3. plan \in [Actors -> Plans]
  BY NothingTyped DEF Init
<1>4. CuratorTypes
  BY NothingTyped DEF Init, CuratorTypes
<1>5. faults \in 0 .. MaxFaults
  BY DEF Init
<1> QED
  BY <1>2, <1>3, <1>4, <1>5, TypeParts

\* Every step of the engine, the curator, the humans and the tracker keeps the
\* issue, the plans and the counters in their types.
LEMMA NextTypes == TypeOK /\ [Next]_vars => TypeOK'
<1> USE CuratorConstants
<1> SUFFICES ASSUME TypeOK, [Next]_vars PROVE TypeOK'
  OBVIOUS
<1>0. /\ IssueTypes /\ plan \in [Actors -> Plans] /\ CuratorTypes
      /\ faults \in 0 .. MaxFaults
  BY TypeParts
<1>f. Fault => faults' \in 0 .. MaxFaults
  BY <1>0 DEF Fault
<1>e. ASSUME NEW p \in Plans, ApplyEdit(p) PROVE labels' \in SUBSET Labels
  BY <1>0, <1>e, EditedTypes DEF IssueTypes, ApplyEdit
<1>p. ASSUME NEW l \in SUBSET Labels, NEW kind \in {"queue", "human", "close"},
             ~isRefused(l, request(kind))
      PROVE  planTransition(l, request(kind)) \in Plans
  BY <1>p, CuratorRequests, AcceptedPlan
<1>1. ASSUME NEW a \in Actors, NEW t \in Transition, PlanTransition(a, t) PROVE TypeOK'
  <2>1. PICK known \in {labels} \cup {blind.known : blind \in {b \in Assumed : b.t = t}} :
           ~isRefused(known, t) /\ plan' = [plan EXCEPT ![a] = planTransition(known, t)]
    BY <1>1 DEF PlanTransition
  <2>2. known \in SUBSET Labels
    BY <1>0, <2>1 DEF IssueTypes
  <2>3. planTransition(known, t) \in Plans
    BY <2>1, <2>2, AcceptedPlan
  <2>4. plan' \in [Actors -> Plans]
    BY <1>0, <2>1, <2>3
  <2>5. faults' \in 0 .. MaxFaults
    BY <1>0, <1>1, <1>f DEF PlanTransition
  <2> QED
    BY <1>0, <1>1, <2>4, <2>5 DEF PlanTransition, IssueTypes, CuratorTypes, issueVars, curatorVars, TypeOK
<1>2. ASSUME NEW a \in Actors, ReadBody(a) PROVE TypeOK'
  <2>1. [plan[a] EXCEPT !.body = IF blocker THEN "blocked" ELSE "clear"] \in Plans
    BY <1>0 DEF Plans
  <2>2. plan' = [plan EXCEPT ![a] = [plan[a] EXCEPT !.body = IF blocker THEN "blocked" ELSE "clear"]]
    BY <1>2 DEF ReadBody
  <2>3. plan' \in [Actors -> Plans]
    BY <1>0, <2>1, <2>2
  <2> QED
    BY <1>0, <1>2, <2>3 DEF ReadBody, IssueTypes, CuratorTypes, issueVars, curatorVars, TypeOK
<1>3. ASSUME NEW a \in Actors, ApplyTransition(a) PROVE TypeOK'
  <2>1. plan[a] \in Plans /\ plan' \in [Actors -> Plans]
    BY NothingTyped, <1>0, <1>3 DEF ApplyTransition
  <2>2. blocker' \in BOOLEAN
    BY <1>0, <1>3, Zenon DEF ApplyTransition, IssueTypes
  <2>3. labels' \in SUBSET Labels
    BY <1>3, <1>e, <2>1 DEF ApplyTransition
  <2> QED
    BY <1>0, <1>3, <2>1, <2>2, <2>3 DEF ApplyTransition, IssueTypes, CuratorTypes, curatorVars, TypeOK
<1>4. ASSUME NEW a \in Actors, ApplyTransitionFails(a) PROVE TypeOK'
  BY NothingTyped, <1>0, <1>4, <1>f DEF ApplyTransitionFails, IssueTypes, CuratorTypes, issueVars, curatorVars, TypeOK
<1>5. CASE CuratorList
  BY <1>0, <1>5 DEF CuratorList, IssueTypes, CuratorTypes, issueVars, TypeOK
<1>6. CASE CuratorRelease
  <2>1. listed.labels \in SUBSET Labels
    BY <1>0 DEF CuratorTypes
  <2>2. edit' \in Plans /\ listed' \in [labels : SUBSET Labels, blocker : BOOLEAN]
    BY NothingTyped, <1>0, <1>6, <1>p, <2>1 DEF CuratorRelease, CuratorTypes
  <2>3. sweep' \in {"note", "reconcile"}
    BY <1>6 DEF CuratorRelease
  <2> QED
    BY <1>0, <1>6, <2>2, <2>3 DEF CuratorRelease, IssueTypes, CuratorTypes, issueVars, TypeOK
<1>7. CASE CuratorCount
  <2>1. listed.labels \in SUBSET Labels
    BY <1>0 DEF CuratorTypes
  <2>2. edit' \in Plans
    BY <1>0, <1>7, <1>p, <2>1 DEF CuratorCount, CuratorTypes
  <2>3. sweep' \in {"park", "reconcile"}
    BY <1>7 DEF CuratorCount
  <2>4. checks' \in Nat
    BY <1>0, <1>7 DEF CuratorCount, CuratorTypes, IssueTypes
  <2> QED
    BY NothingTyped, <1>0, <1>7, <2>2, <2>3, <2>4 DEF CuratorCount, IssueTypes, CuratorTypes, TypeOK
<1>8. CASE CuratorNote
  <2>1. blocker' \in BOOLEAN
    BY <1>0, <1>8 DEF CuratorNote, CuratorTypes
  <2> QED
    BY NothingTyped, <1>0, <1>8, <2>1 DEF CuratorNote, IssueTypes, CuratorTypes, TypeOK
<1>9. CASE CuratorWrite
  <2>1. labels' \in SUBSET Labels
    BY <1>0, <1>9, <1>e DEF CuratorWrite, CuratorTypes
  <2> QED
    BY NothingTyped, <1>0, <1>9, <2>1 DEF CuratorWrite, IssueTypes, CuratorTypes, TypeOK
<1>10. CASE CuratorWriteFails
  BY NothingTyped, <1>0, <1>10, <1>f DEF CuratorWriteFails, IssueTypes, CuratorTypes, issueVars, TypeOK
<1>11. CASE CuratorListClosed
  <2>1. edit' \in Plans
    BY <1>0, <1>11, <1>p DEF CuratorListClosed, CuratorTypes, IssueTypes
  <2>2. sweep' \in {"close", "store"}
    BY <1>11 DEF CuratorListClosed
  <2> QED
    BY <1>0, <1>11, <2>1, <2>2 DEF CuratorListClosed, IssueTypes, CuratorTypes, issueVars, TypeOK
<1>12. CASE CuratorListClosedFails
  BY <1>0, <1>12, <1>f DEF CuratorListClosedFails, IssueTypes, CuratorTypes, issueVars, TypeOK
<1>13. CASE CuratorClose
  <2>1. labels' \in SUBSET Labels
    BY <1>0, <1>13, <1>e DEF CuratorClose, CuratorTypes
  <2> QED
    BY NothingTyped, <1>0, <1>13, <2>1 DEF CuratorClose, IssueTypes, CuratorTypes, TypeOK
<1>14. CASE CuratorCloseFails
  BY NothingTyped, <1>0, <1>14, <1>f DEF CuratorCloseFails, IssueTypes, CuratorTypes, issueVars, TypeOK
<1>15. CASE CuratorStore
  BY <1>0, <1>15 DEF CuratorStore, IssueTypes, CuratorTypes, issueVars, TypeOK
<1>16. CASE CuratorCrash
  BY NothingTyped, <1>0, <1>16, <1>f DEF CuratorCrash, IssueTypes, CuratorTypes, issueVars, TypeOK
<1>17. CASE ProjectRunning
  <2>1. labels \cup {"running"} \in SUBSET Labels
    BY <1>0 DEF IssueTypes, Labels
  <2>2. labels' \in SUBSET Labels
    BY <1>17, <2>1 DEF ProjectRunning
  <2> QED
    BY <1>0, <1>17, <2>2 DEF ProjectRunning, IssueTypes, CuratorTypes, curatorVars, TypeOK
<1>18. ASSUME NEW l \in HumanLabels, HumanEdit(l) PROVE TypeOK'
  <2> DEFINE new == IF l \in labels THEN labels \ {l} ELSE labels \cup {l}
  <2>1. new \in SUBSET Labels
    BY <1>0 DEF IssueTypes
  <2>2. labels' \in SUBSET Labels
    BY <1>18, <2>1 DEF HumanEdit
  <2> QED
    BY <1>0, <1>18, <1>f, <2>2 DEF HumanEdit, IssueTypes, CuratorTypes, curatorVars, TypeOK
<1>19. CASE BlockerChanges
  <2>1. blocker' \in BOOLEAN
    BY <1>19 DEF BlockerChanges
  <2> QED
    BY <1>0, <1>19, <1>f, <2>1 DEF BlockerChanges, IssueTypes, CuratorTypes, curatorVars, TypeOK
<1>20. CASE IssueCloses
  BY <1>0, <1>20 DEF IssueCloses, IssueTypes, CuratorTypes, curatorVars, TypeOK
<1>21. CASE UNCHANGED vars
  BY <1>0, <1>21 DEF vars, IssueTypes, CuratorTypes, issueVars, curatorVars, TypeOK
<1> QED
  BY <1>1, <1>2, <1>3, <1>4, <1>5, <1>6, <1>7, <1>8, <1>9, <1>10, <1>11, <1>12, <1>13,
     <1>14, <1>15, <1>16, <1>17, <1>18, <1>19, <1>20, <1>21 DEF Next, CuratorStep

\* The issue, the plans and the curator's counters are always well typed.
THEOREM TypeCorrect == Spec => []TypeOK
BY InitTypes, NextTypes, PTL DEF Spec
=============================================================================

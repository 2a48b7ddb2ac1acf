--------------------------- MODULE StateTransition ---------------------------
(***************************************************************************)
(* The planner of issue state labels (packages/worker,                     *)
(* engine/state-transition.ts): what one declared transition adds to and   *)
(* removes from a set of labels, and which requests it refuses.            *)
(*                                                                         *)
(* Labels are told apart only by what the planner tells apart: the six     *)
(* state roles, the `running` projection, the blocked reasons other than   *)
(* `blocked:dependency`, the `req:` edges, and the declared human-only     *)
(* types (which stand for every label the planner never touches).          *)
(***************************************************************************)
EXTENDS Integers

CONSTANTS Reasons, Reqs, HitlTypes

StateRoles ==
    {"ready", "human", "needsTriage", "needsInfo", "quarantine", "dependencyBlocked"}

Modifiers == Reasons \cup Reqs \cup HitlTypes

ASSUME LabelsDisjoint ==
    /\ Modifiers \cap (StateRoles \cup {"running", "none"}) = {}
    /\ Reasons \cap Reqs = {}
    /\ HitlTypes \cap (Reasons \cup Reqs) = {}

Labels == StateRoles \cup {"running"} \cup Modifiers

Kinds == {"queue", "park", "human", "dependency-block", "quarantine",
          "needs-info", "triage", "promote", "close"}

\* A park names a `blocked:` reason, `blocked:dependency` among them, or
\* something else ("none"); a dependency-block names its blockers.
Transition ==
         [kind : {"park"}, reason : Reasons \cup {"dependencyBlocked", "none"}, reqs : {{}}]
    \cup [kind : {"dependency-block"}, reason : {"none"}, reqs : SUBSET Reqs]
    \cup [kind : Kinds \ {"park", "dependency-block"}, reason : {"none"}, reqs : {{}}]

\* The role the transition targets: none for a close, the human lane for a
\* promotion of an issue that carries a human-only type.
targetRole(t, current) ==
    LET humanOnly == current \cap HitlTypes # {}
    IN  {role \in StateRoles :
           \/ role = "ready" /\ (t.kind = "queue" \/ (t.kind = "promote" /\ ~humanOnly))
           \/ role = "human"
              /\ (t.kind \in {"park", "human"} \/ (t.kind = "promote" /\ humanOnly))
           \/ role = "dependencyBlocked" /\ t.kind = "dependency-block"
           \/ role = "quarantine" /\ t.kind = "quarantine"
           \/ role = "needsInfo" /\ t.kind = "needs-info"
           \/ role = "needsTriage" /\ t.kind = "triage"}

\* Every other role and `running` go; the blocked reasons go with them, except
\* the one a park names; a promotion and a close also consume the edges.
removed(current, t) ==
    current \cap (   (StateRoles \ targetRole(t, current))
                \cup {"running"}
                \cup (IF t.kind = "park" THEN Reasons \ {t.reason} ELSE Reasons)
                \cup (IF t.kind \in {"promote", "close"} THEN Reqs ELSE {}))

added(current, t) ==
    (   targetRole(t, current)
   \cup (IF t.kind = "park" THEN {t.reason} ELSE {})
   \cup (IF t.kind = "dependency-block" THEN t.reqs ELSE {})) \ current

replay(current, t) == (current \ removed(current, t)) \cup added(current, t)

OneRole(set) == \E role \in StateRoles : set \cap StateRoles = {role}

NoRole(set) == set \cap StateRoles = {}

\* Mutant: a park accepts a reason that is no `blocked:` label.
badRequest_anyReason(current, t) ==
    \/ t.kind = "dependency-block" /\ t.reqs = {}
    \/ t.kind = "queue" /\ current \cap Reqs # {}

\* The requests refused before anything is planned.
badRequest(current, t) ==
    \/ t.kind = "park" /\ t.reason = "none"
    \/ t.kind = "dependency-block" /\ t.reqs = {}
    \/ t.kind = "queue" /\ current \cap Reqs # {}

\* planTransition refuses a bad request, and one whose replay does not leave
\* exactly one role (none, for a close).
isRefused(current, t) ==
    \/ badRequest(current, t)
    \/ t.kind # "close" /\ ~OneRole(replay(current, t))
    \/ t.kind = "close" /\ ~NoRole(replay(current, t))

\* A plan: what to add and to remove and, for a quarantine, the diagnosis to
\* append to the body, which must first be read.
planTransition(current, t) ==
    [add |-> added(current, t), remove |-> removed(current, t),
     body |-> IF t.kind = "quarantine" THEN "unread" ELSE "keep"]

Plans == [add : SUBSET Labels, remove : SUBSET Labels,
          body : {"keep", "unread", "blocked", "clear"}]

NoPlan == [add |-> {}, remove |-> {}, body |-> "keep"]
=============================================================================

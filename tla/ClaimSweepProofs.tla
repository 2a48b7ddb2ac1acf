--------------------------- MODULE ClaimSweepProofs ---------------------------
(***************************************************************************)
(* Proofs about ClaimSweep: the sweeps of a booting checkout spare the     *)
(* claimants of their host that they see living, lift no park and count    *)
(* their requeues, for any number of claimants, boots and faults.          *)
(***************************************************************************)
EXTENDS ClaimSweep, IssueClaimProofs, FiniteSetTheorems

-----------------------------------------------------------------------------
(* The inductive invariant                                                   *)

Stages == {"idle", "listed", "deaths", "append", "route", "claims", "release", "evict"}

Boots == [at : Stages, owners : SUBSET Workers, unseen : SUBSET Local, ordinal : Nat,
          edit : [add : SUBSET Labels, remove : SUBSET Labels]]

SweepShape ==
    /\ TypeOK
    /\ labels \subseteq Labels
    /\ projected \subseteq Workers
    /\ receipt \in [Workers -> {"none", "named"}]
    /\ ledger \in Nat
    /\ requeued \in Nat
    /\ boot \in Boots
    /\ faults \in 0 .. MaxFaults

\* Whom a boot means to concede, of its own host, is gone, was not seen, or is said to
\* be dead, none of which is taken back before the boot is through.
OwnersAreGone ==
    \A e \in boot.owners \cap Local :
      pc[e] = "crashed" \/ e \in boot.unseen \/ receipt[e] = "named"

\* What a row in the ledger is for.
RowsComeFirst ==
    /\ requeued <= ledger
    /\ boot.at \in {"deaths", "append"} => boot.ordinal <= ledger + 1
    /\ boot.at = "route" => requeued < ledger /\ boot.ordinal <= ledger

\* The requeues a plan has left are at most one for each owner.
PlanIsBounded ==
    /\ boot.at \in {"deaths", "append", "route"} => boot.owners \subseteq Local /\ boot.ordinal > 0
    /\ boot.at = "deaths" =>
         requeued + Cardinality(boot.owners) < boot.ordinal + Cardinality(Local)
    /\ boot.at \in {"append", "route"} =>
         requeued + Cardinality(boot.owners) + 1 < boot.ordinal + Cardinality(Local)
    /\ requeued < Cap + Cardinality(Local) - 1

\* The edit a boot is about to make takes no park away.
EditSparesParks == boot.at = "evict" => "human" \notin boot.edit.remove

SweepInv == SweepShape /\ OwnersAreGone /\ RowsComeFirst /\ PlanIsBounded /\ EditSparesParks

-----------------------------------------------------------------------------
(* The claimants' side: what every step of theirs leaves to the sweeps.      *)

\* A step of the claim is a step of IssueClaim, and a crashed claimant stays so.
LEMMA CrashIsFinal ==
    ASSUME TypeOK, [Next]_vars, NEW e \in Workers, pc[e] = "crashed"
    PROVE  pc'[e] = "crashed"
<1>1. CASE UNCHANGED vars
  BY <1>1 DEF vars
<1>2. CASE Tick
  BY <1>2 DEF Tick
<1>3. ASSUME NEW w \in Workers,
             \/ PostClaim(w) \/ PostClaimUnanswered(w) \/ Step(w)
             \/ RefreshHeartbeat(w) \/ Retire(w) \/ Crash(w)
      PROVE  pc'[e] = "crashed"
  <2>1. pc[w] # "crashed"
    BY <1>3 DEF PostClaim, PostClaimUnanswered, Step, VerifyMiss, Decide, ConcedeLost,
           ConcedeOnBehalf, ConcedeOnBehalfFails, RefreshHeartbeat, Retire, Crash
  <2>2. \A f \in Workers \ {w} : pc'[f] = pc[f]
    BY <1>3 DEF TypeOK, PostClaim, PostClaimUnanswered, Step, VerifyMiss, Decide, ConcedeLost,
           ConcedeOnBehalf, ConcedeOnBehalfFails, RefreshHeartbeat, Retire, Crash
  <2> QED
    BY <2>1, <2>2
<1> QED
  BY <1>1, <1>2, <1>3 DEF Next

ClaimantSteps ==
    \/ ClaimStep
    \/ \E w \in Workers : Claims(w) \/ ClaimFails(w) \/ Project(w) \/ Retires(w) \/ Dies(w) \/ GivenUp(w)
    \/ Parks

\* A park, whatever its caller knows of the labels, leaves labels.
LEMMA ParkPlan ==
    ASSUME NEW current \in SUBSET Labels, NEW known \in SUBSET Labels, NEW reason \in Reasons
    PROVE  LET park == [kind |-> "park", reason |-> reason, reqs |-> {}] IN
           (current \ removed(known, park)) \cup added(known, park) \subseteq Labels
<1> DEFINE park == [kind |-> "park", reason |-> reason, reqs |-> {}]
<1>1. park.kind = "park" /\ park.reason = reason
  OBVIOUS
<1>2. targetRole(park, known) \subseteq StateRoles
  BY DEF targetRole
<1>3. added(known, park) \subseteq StateRoles \cup {reason}
  BY <1>1, <1>2 DEF added
<1>4. StateRoles \cup {reason} \subseteq Labels
  BY DEF Labels, Modifiers
<1> QED
  BY <1>3, <1>4

\* Claimants, their daemon and whoever parks leave the boot and the ledger alone, and
\* no receipt is taken back.
LEMMA ClaimantsMove ==
    ASSUME SweepInv, ClaimantSteps
    PROVE  /\ [Next]_vars
           /\ boot' = boot /\ ledger' = ledger /\ requeued' = requeued
           /\ labels' \subseteq Labels
           /\ projected' \subseteq Workers
           /\ receipt' \in [Workers -> {"none", "named"}]
           /\ \A e \in Workers : receipt[e] = "named" => receipt'[e] = "named"
           /\ faults' \in 0 .. MaxFaults
<1> DEFINE Calm ==
      /\ boot' = boot /\ ledger' = ledger /\ requeued' = requeued
      /\ [Next]_vars
      Named ==
      /\ receipt' \in [Workers -> {"none", "named"}]
      /\ \A e \in Workers : receipt[e] = "named" => receipt'[e] = "named"
      Tame == labels' \subseteq Labels /\ projected' \subseteq Workers /\ faults' \in 0 .. MaxFaults
<1>0. /\ labels \subseteq Labels /\ projected \subseteq Workers
      /\ receipt \in [Workers -> {"none", "named"}]
      /\ faults \in 0 .. MaxFaults /\ MaxFaults \in Nat
      /\ "running" \in Labels
  BY SweepConstants DEF SweepInv, SweepShape, Labels
<1>1. Fault \/ faults' = faults => faults' \in 0 .. MaxFaults
  BY <1>0 DEF Fault
<1>2. CASE ClaimStep \/ \E w \in Workers : Claims(w)
  <2>1. Calm /\ labels' = labels /\ receipt' = receipt /\ projected' = projected /\ faults' = faults
    BY <1>2 DEF ClaimStep, Claims, Next, Step, sweepVars
  <2> QED
    BY <1>0, <2>1
<1>3. ASSUME NEW w \in Workers, ClaimFails(w) PROVE Calm /\ Named /\ Tame
  <2>1. /\ Calm /\ labels' = labels /\ receipt' = receipt /\ projected' = projected
        /\ Fault
    BY <1>3 DEF ClaimFails, Next, Step
  <2> QED
    BY <1>0, <1>1, <2>1
<1>4. ASSUME NEW w \in Workers, Project(w) PROVE Calm /\ Named /\ Tame
  <2>1. Calm /\ receipt' = receipt /\ (Fault \/ faults' = faults)
    BY <1>4 DEF Project, vars
  <2>2. labels' \subseteq Labels /\ projected' \subseteq Workers
    BY <1>0, <1>4 DEF Project
  <2> QED
    BY <1>0, <1>1, <2>1, <2>2
<1>5. ASSUME NEW w \in Workers, Retires(w) PROVE Calm /\ Named /\ Tame
  <2>1. Calm /\ receipt' = receipt /\ (Fault \/ faults' = faults)
    BY <1>5 DEF Retires, Next
  <2>2. labels' \subseteq Labels /\ projected' = projected
    BY <1>0, <1>5 DEF Retires
  <2> QED
    BY <1>0, <1>1, <2>1, <2>2
<1>6. ASSUME NEW w \in Workers, Dies(w) PROVE Calm /\ Named /\ Tame
  <2>1. Calm /\ labels' = labels /\ projected' = projected /\ faults' = faults
    BY <1>6 DEF Dies, Next
  <2>2. receipt' = receipt \/ receipt' = [receipt EXCEPT ![w] = "named"]
    BY <1>6 DEF Dies
  <2>3. Named
    BY <1>0, <2>2
  <2> QED
    BY <1>0, <2>1, <2>3
<1>7. ASSUME NEW w \in Workers, GivenUp(w) PROVE Calm /\ Named /\ Tame
  <2>1. Calm /\ labels' = labels /\ projected' = projected /\ Fault
    BY <1>7 DEF GivenUp, vars
  <2>2. receipt' = [receipt EXCEPT ![w] = "named"]
    BY <1>7 DEF GivenUp
  <2>3. Named
    BY <1>0, <2>2
  <2> QED
    BY <1>0, <1>1, <2>1, <2>3
<1>8. CASE Parks
  <2>1. Calm /\ receipt' = receipt /\ projected' = projected /\ Fault
    BY <1>8 DEF Parks, vars
  <2>2. PICK reason \in Reasons, known \in {labels, labels \ {"running"}} :
          LET park == [kind |-> "park", reason |-> reason, reqs |-> {}] IN
          labels' = (labels \ removed(known, park)) \cup added(known, park)
    BY <1>8 DEF Parks
  <2>3. labels' \subseteq Labels
    BY <1>0, <2>2, ParkPlan
  <2> QED
    BY <1>0, <1>1, <2>1, <2>3
<1> QED
  BY <1>2, <1>3, <1>4, <1>5, <1>6, <1>7, <1>8 DEF ClaimantSteps

\* Claimants keep the invariant.
LEMMA ClaimantsKeep ==
    ASSUME SweepInv, ClaimantSteps
    PROVE  SweepInv'
<1>1. TypeOK'
  BY ClaimantsMove, TypeStep DEF SweepInv, SweepShape
<1>2. SweepShape'
  BY <1>1, ClaimantsMove DEF SweepInv, SweepShape
<1>3. OwnersAreGone'
  <2>1. ASSUME NEW e \in boot.owners \cap Local
        PROVE  pc'[e] = "crashed" \/ e \in boot.unseen \/ receipt'[e] = "named"
    <3>1. e \in Workers /\ TypeOK
      BY SweepConstants DEF SweepInv, SweepShape
    <3>2. pc[e] = "crashed" \/ e \in boot.unseen \/ receipt[e] = "named"
      BY DEF SweepInv, OwnersAreGone
    <3> QED
      BY <3>1, <3>2, ClaimantsMove, CrashIsFinal
  <2> QED
    BY <2>1, ClaimantsMove DEF OwnersAreGone
<1>4. RowsComeFirst' /\ PlanIsBounded'
  BY ClaimantsMove DEF SweepInv, RowsComeFirst, PlanIsBounded
<1>5. EditSparesParks'
  BY ClaimantsMove DEF SweepInv, EditSparesParks
<1> QED
  BY <1>2, <1>3, <1>4, <1>5 DEF SweepInv

-----------------------------------------------------------------------------
(* The boot's side.                                                          *)

\* What a boot may do to the claim: nothing, or concede somebody on its list.
Conceding ==
    \/ UNCHANGED vars
    \/ \E owner \in boot.owners : boot.at \in {"deaths", "evict"} /\ Concede(owner)

BootSteps == BootStep \/ BootStepFails \/ BootDies

\* The plan of a recovery takes no park away: whatever is parked only loses `running`.
LEMMA RecoveryPlan ==
    ASSUME NEW current \in SUBSET Labels
    PROVE  LET plan == planClaimRecovery(current) IN
           /\ plan \in [add : SUBSET Labels, remove : SUBSET Labels]
           /\ "human" \notin plan.remove
<1> DEFINE queue == [kind |-> "queue", reason |-> "none", reqs |-> {}]
<1>1. queue.kind = "queue"
  OBVIOUS
<1>2. targetRole(queue, current) = {"ready"}
  BY <1>1 DEF targetRole, StateRoles
<1>3. added(current, queue) \subseteq {"ready"}
  BY <1>1, <1>2 DEF added
<1>4. removed(current, queue) \subseteq current
  BY DEF removed
<1>5. "ready" \in Labels /\ "running" \in Labels /\ "human" \in Labels
  BY DEF Labels, StateRoles
<1> HIDE DEF queue
<1>6. \/ planClaimRecovery(current) = [add |-> {}, remove |-> {"running"}]
      \/ /\ planClaimRecovery(current) =
              [add |-> added(current, queue), remove |-> removed(current, queue)]
         /\ "human" \notin current
  BY DEF planClaimRecovery, queue
<1> QED
  BY <1>3, <1>4, <1>5, <1>6

\* The shape of the boot, and whom it lists, after each of its steps.
LEMMA BootMoves ==
    ASSUME SweepInv, BootSteps
    PROVE  /\ Conceding
           /\ pc' = pc /\ receipt' = receipt
           /\ boot' \in Boots
           /\ \A e \in boot'.owners \cap Local :
                pc[e] = "crashed" \/ e \in boot'.unseen \/ receipt[e] = "named"
<1>0. /\ boot \in Boots /\ labels \in SUBSET Labels /\ ledger \in Nat
      /\ \A e \in boot.owners \cap Local :
           pc[e] = "crashed" \/ e \in boot.unseen \/ receipt[e] = "named"
      /\ Local \subseteq Workers
  BY SweepConstants DEF SweepInv, SweepShape, OwnersAreGone
<1>1. NoBoot \in Boots /\ NoBoot.owners = {}
  BY DEF NoBoot, NoEdit, Boots, Stages
<1> DEFINE Good ==
      /\ boot' \in Boots
      /\ \A e \in boot'.owners \cap Local :
           pc[e] = "crashed" \/ e \in boot'.unseen \/ receipt[e] = "named"
      Still == UNCHANGED vars /\ receipt' = receipt
<1>2. CASE claimedIssues
  <2>1. Still /\ boot' = [NoBoot EXCEPT !.at = "listed"]
    BY <1>2 DEF claimedIssues
  <2> QED
    BY <1>1, <2>1 DEF Conceding, vars, Boots, Stages
<1>3. CASE planDeathSweep
  <2>1. Still
    BY <1>3 DEF planDeathSweep
  <2> DEFINE dead == {w \in Local : receipt[w] = "named" /\ Contends(w, All)}
  <2>2. boot' = [boot EXCEPT !.at = "deaths", !.owners = dead, !.ordinal = ledger + 1]
    BY <1>3 DEF planDeathSweep
  <2>3. dead \subseteq Workers /\ \A e \in dead : receipt[e] = "named"
    BY <1>0
  <2> HIDE DEF dead
  <2>4. Good
    <3>1. ledger + 1 \in Nat
      BY <1>0
    <3>2. boot' \in Boots
      BY <1>0, <2>2, <2>3, <3>1 DEF Boots, Stages
    <3>3. boot'.owners = dead
      BY <1>0, <2>2 DEF Boots
    <3> QED
      BY <2>3, <3>2, <3>3
  <2> QED
    BY <2>1, <2>4 DEF Conceding, vars
<1>4. CASE DeathConcede
  <2>0. PICK owner \in boot.owners :
          /\ boot.at = "deaths"
          /\ \/ Concede(owner) /\ boot' = [boot EXCEPT !.at = "append", !.owners = @ \ {owner}]
             \/ UNCHANGED vars /\ boot' = [boot EXCEPT !.owners = @ \ {owner}]
          /\ receipt' = receipt
    BY <1>4 DEF DeathConcede
  <2>1. Good
    <3>1. CASE boot' = [boot EXCEPT !.at = "append", !.owners = @ \ {owner}]
      BY <1>0, <3>1 DEF Boots, Stages
    <3>2. CASE boot' = [boot EXCEPT !.owners = @ \ {owner}]
      BY <1>0, <3>2 DEF Boots, Stages
    <3> QED
      BY <2>0, <3>1, <3>2
  <2>2. Conceding /\ pc' = pc
    BY <2>0 DEF Conceding, Concede, vars
  <2> QED
    BY <2>0, <2>1, <2>2
<1>5. CASE appendHistory \/ DeathRoute
  <2>1. Still /\ (boot' = [boot EXCEPT !.at = "route"] \/ boot' = [boot EXCEPT !.at = "deaths"])
    BY <1>5 DEF appendHistory, DeathRoute
  <2>2. Good
    BY <1>0, <2>1 DEF Boots, Stages
  <2> QED
    BY <2>1, <2>2 DEF Conceding, vars
<1>6. CASE DeathSweepEnds
  <2>1. Still /\ boot' = [NoBoot EXCEPT !.at = "claims"]
    BY <1>6 DEF DeathSweepEnds
  <2> QED
    BY <1>1, <2>1 DEF Conceding, vars, Boots, Stages
<1>7. CASE planStaleClaimSweep
  <2>1. Still
    BY <1>7 DEF planStaleClaimSweep
  <2>2. PICK unseen \in SUBSET ((Contenders \cap Local) \ Crashed) :
          \/ boot' = NoBoot
          \/ /\ Releasable(unseen)
             /\ boot' = [boot EXCEPT !.at = "release", !.owners = Contenders, !.unseen = unseen]
    BY <1>7 DEF planStaleClaimSweep
  <2>3. ASSUME Releasable(unseen), NEW e \in Contenders \cap Local
        PROVE  pc[e] = "crashed" \/ e \in unseen
    BY <1>0, <2>3 DEF Releasable, staleHere
  <2>4. Contenders \subseteq Workers /\ unseen \subseteq Local
    BY DEF Contenders
  <2>5. CASE boot' = NoBoot
    BY <1>1, <2>1, <2>5 DEF Conceding, vars
  <2>6. CASE /\ Releasable(unseen)
             /\ boot' = [boot EXCEPT !.at = "release", !.owners = Contenders, !.unseen = unseen]
    <3>1. boot' \in Boots
      BY <1>0, <2>4, <2>6 DEF Boots, Stages
    <3>2. boot'.owners = Contenders /\ boot'.unseen = unseen
      BY <1>0, <2>6 DEF Boots
    <3>3. Good
      BY <2>3, <2>6, <3>1, <3>2
    <3> QED
      BY <2>1, <3>3 DEF Conceding, vars
  <2> QED
    BY <2>2, <2>5, <2>6
<1>8. CASE ReleaseViews
  <2>1. Still
    BY <1>8 DEF ReleaseViews
  <2>2. \/ boot' = NoBoot
        \/ /\ "running" \in labels
           /\ boot' = [boot EXCEPT !.at = "evict", !.edit = planClaimRecovery(labels)]
    BY <1>8 DEF ReleaseViews
  <2>3. planClaimRecovery(labels) \in [add : SUBSET Labels, remove : SUBSET Labels]
    BY <1>0, RecoveryPlan
  <2>4. Good
    <3>1. CASE boot' = NoBoot
      BY <1>1, <3>1
    <3>2. CASE boot' = [boot EXCEPT !.at = "evict", !.edit = planClaimRecovery(labels)]
      <4>1. boot' \in Boots
        BY <1>0, <2>3, <3>2 DEF Boots, Stages
      <4>2. boot'.owners = boot.owners /\ boot'.unseen = boot.unseen
        BY <1>0, <3>2 DEF Boots
      <4> QED
        BY <1>0, <4>1, <4>2
    <3> QED
      BY <2>2, <3>1, <3>2
  <2> QED
    BY <2>1, <2>4 DEF Conceding, vars
<1>9. CASE ReleaseEvicts
  <2>0. PICK owner \in boot.owners :
          /\ boot.at = "evict"
          /\ Concede(owner)
          /\ boot' = [boot EXCEPT !.owners = @ \ {owner}]
          /\ receipt' = receipt
    BY <1>9 DEF ReleaseEvicts
  <2>1. Good
    BY <1>0, <2>0 DEF Boots, Stages
  <2>2. Conceding /\ pc' = pc
    BY <2>0 DEF Conceding, Concede, vars
  <2> QED
    BY <2>0, <2>1, <2>2
<1>10. CASE ReleaseEdits \/ BootDies
  <2>1. Still /\ boot' = NoBoot
    BY <1>10 DEF ReleaseEdits, BootDies
  <2> QED
    BY <1>1, <2>1 DEF Conceding, vars
<1>11. CASE BootStepFails
  <2>1. Still
    BY <1>11 DEF BootStepFails
  <2>2. \/ boot' = NoBoot
        \/ boot' = [boot EXCEPT !.at = "deaths"]
        \/ boot' = [boot EXCEPT !.at = "claims"]
        \/ \E owner \in boot.owners : boot' = [boot EXCEPT !.owners = @ \ {owner}]
    BY <1>11 DEF BootStepFails
  <2>3. Good
    BY <1>0, <1>1, <2>2 DEF Boots, Stages
  <2> QED
    BY <2>1, <2>3 DEF Conceding, vars
<1> QED
  BY <1>2, <1>3, <1>4, <1>5, <1>6, <1>7, <1>8, <1>9, <1>10, <1>11 DEF BootSteps, BootStep

\* The conjuncts about the ledger, the plan and the edit.
Counts == RowsComeFirst /\ PlanIsBounded /\ EditSparesParks

\* A boot between its sweeps promises nothing.
LEMMA RestingBoot ==
    ASSUME SweepInv, ledger' = ledger, requeued' = requeued, labels' = labels,
           boot'.at \in {"idle", "listed", "claims", "release"}
    PROVE  Counts'
BY DEF SweepInv, Counts, RowsComeFirst, PlanIsBounded, EditSparesParks

\* Owners struck off a finite list.
LEMMA OwnersOfHost ==
    ASSUME NEW S \in SUBSET Local
    PROVE  /\ IsFiniteSet(S)
           /\ Cardinality(S) \in Nat /\ Cardinality(Local) \in Nat /\ Cardinality(Local) > 0
           /\ Cardinality(S) <= Cardinality(Local)
           /\ \A x \in S : Cardinality(S \ {x}) = Cardinality(S) - 1
<1>1. IsFiniteSet(Local) /\ Local # {}
  BY SweepConstants
<1>2. IsFiniteSet(S) /\ Cardinality(S) <= Cardinality(Local)
  BY <1>1, FS_Subset
<1>3. Cardinality(S) \in Nat /\ Cardinality(Local) \in Nat
  BY <1>1, <1>2, FS_CardinalityType
<1>4. Cardinality(Local) # 0
  BY <1>1, FS_EmptySet
<1>5. \A x \in S : Cardinality(S \ {x}) = Cardinality(S) - 1
  BY <1>2, FS_RemoveElement
<1> QED
  BY <1>2, <1>3, <1>4, <1>5

\* The death sweep's plan is made from the ledger, its ordinal the next one.
LEMMA PlanCounts ==
    ASSUME SweepInv, planDeathSweep
    PROVE  Counts'
<1> DEFINE dead == {w \in Local : receipt[w] = "named" /\ Contends(w, All)}
<1>1. /\ ledger' = ledger /\ requeued' = requeued /\ labels' = labels
      /\ boot' = [boot EXCEPT !.at = "deaths", !.owners = dead, !.ordinal = ledger + 1]
  BY DEF planDeathSweep
<1>2. dead \in SUBSET Local
  OBVIOUS
<1> HIDE DEF dead
<1>3. boot'.at = "deaths" /\ boot'.owners = dead /\ boot'.ordinal = ledger + 1
  BY <1>1 DEF SweepInv, SweepShape, Boots
<1>4. ledger \in Nat /\ requeued \in Nat /\ Cap \in Nat
  BY SweepConstants DEF SweepInv, SweepShape
<1>5. RowsComeFirst'
  BY <1>1, <1>3, <1>4 DEF SweepInv, RowsComeFirst
<1>6. requeued + Cardinality(dead) < ledger + 1 + Cardinality(Local)
  BY <1>2, <1>4, OwnersOfHost DEF SweepInv, RowsComeFirst
<1>7. PlanIsBounded'
  BY <1>1, <1>2, <1>3, <1>4, <1>6 DEF SweepInv, PlanIsBounded
<1>8. EditSparesParks'
  BY <1>1, <1>3, <1>4 DEF SweepInv, EditSparesParks
<1> QED
  BY <1>5, <1>7, <1>8 DEF Counts

\* An owner is struck off the death sweep's list, for its death is settled next or is
\* nobody's business any more.
LEMMA StrikingCounts ==
    ASSUME SweepInv, NEW owner \in boot.owners, boot.at = "deaths",
           ledger' = ledger, requeued' = requeued, labels' = labels,
           \/ boot' = [boot EXCEPT !.owners = @ \ {owner}]
           \/ boot' = [boot EXCEPT !.at = "append", !.owners = @ \ {owner}]
    PROVE  Counts'
<1>0. /\ ledger \in Nat /\ requeued \in Nat /\ boot.ordinal \in Nat
      /\ boot.owners \in SUBSET Local
  BY DEF SweepInv, SweepShape, PlanIsBounded, Boots
<1>1. /\ boot'.at = "deaths" \/ boot'.at = "append"
      /\ boot'.owners = boot.owners \ {owner} /\ boot'.ordinal = boot.ordinal
  BY DEF SweepInv, SweepShape, Boots
<1>2. /\ Cardinality(boot.owners) \in Nat /\ Cardinality(Local) \in Nat
      /\ Cardinality(boot'.owners) = Cardinality(boot.owners) - 1
  BY <1>0, <1>1, OwnersOfHost
<1>3. RowsComeFirst'
  BY <1>1 DEF SweepInv, RowsComeFirst
<1>4. PlanIsBounded'
  <2>1. /\ requeued + Cardinality(boot'.owners) < boot.ordinal + Cardinality(Local)
        /\ requeued + Cardinality(boot'.owners) + 1 < boot.ordinal + Cardinality(Local)
    BY <1>0, <1>2 DEF SweepInv, PlanIsBounded
  <2> QED
    BY <1>0, <1>1, <2>1 DEF SweepInv, PlanIsBounded
<1>5. EditSparesParks'
  BY <1>1 DEF SweepInv, EditSparesParks
<1> QED
  BY <1>3, <1>4, <1>5 DEF Counts

\* The row, and the labels after it.
LEMMA RowCounts ==
    ASSUME SweepInv, appendHistory
    PROVE  Counts'
<1>0. /\ ledger \in Nat /\ requeued \in Nat /\ boot.ordinal \in Nat /\ Cap \in Nat
      /\ boot.at = "append" /\ ledger' = ledger + 1 /\ requeued' = requeued /\ labels' = labels
  BY SweepConstants DEF SweepInv, SweepShape, Boots, appendHistory
<1>1. /\ boot'.at = "route" /\ boot'.owners = boot.owners /\ boot'.ordinal = boot.ordinal
  BY DEF SweepInv, SweepShape, Boots, appendHistory
<1>2. RowsComeFirst'
  BY <1>0, <1>1 DEF SweepInv, RowsComeFirst
<1>3. PlanIsBounded'
  BY <1>0, <1>1 DEF SweepInv, PlanIsBounded
<1>4. EditSparesParks'
  BY <1>0, <1>1 DEF SweepInv, EditSparesParks
<1> QED
  BY <1>2, <1>3, <1>4 DEF Counts

\* A requeue fits the plan, and a park costs nothing.
LEMMA RouteCounts ==
    ASSUME SweepInv, DeathRoute
    PROVE  Counts' /\ labels' \subseteq Labels /\ requeued' \in Nat
<1>0. /\ ledger \in Nat /\ requeued \in Nat /\ boot.ordinal \in Nat /\ Cap \in Nat
      /\ boot.at = "route" /\ ledger' = ledger /\ labels \subseteq Labels
      /\ boot.owners \in SUBSET Local
      /\ CrashReason \in Labels \ {"ready", "human", "running"}
      /\ {"ready", "human"} \subseteq Labels
  BY SweepConstants, LabelsDisjoint
     DEF SweepInv, SweepShape, Boots, DeathRoute, PlanIsBounded, Labels, Modifiers, StateRoles
<1>1. boot'.at = "deaths" /\ boot'.owners = boot.owners /\ boot'.ordinal = boot.ordinal
  BY DEF SweepInv, SweepShape, Boots, DeathRoute
<1>2. Cardinality(boot.owners) \in Nat /\ Cardinality(Local) \in Nat
  BY <1>0, OwnersOfHost
<1>3. CASE boot.ordinal < Cap
  <2>1. labels' = (labels \ {"running"}) \cup {"ready"} /\ requeued' = requeued + 1
    BY <1>3 DEF DeathRoute, recoveryDecision
  <2>2. RowsComeFirst'
    BY <1>0, <1>1, <2>1 DEF SweepInv, RowsComeFirst
  <2>3. requeued + Cardinality(boot.owners) + 1 < boot.ordinal + Cardinality(Local)
    BY <1>0 DEF SweepInv, PlanIsBounded
  <2>4. requeued' < Cap + Cardinality(Local) - 1
    BY <1>0, <1>2, <1>3, <2>1, <2>3
  <2>5. PlanIsBounded'
    BY <1>0, <1>1, <1>2, <2>1, <2>3, <2>4 DEF SweepInv, PlanIsBounded
  <2>6. EditSparesParks'
    BY <1>1 DEF EditSparesParks
  <2> QED
    BY <1>0, <2>1, <2>2, <2>5, <2>6 DEF Counts
<1>4. CASE ~(boot.ordinal < Cap)
  <2>1. labels' = (labels \ {"running"}) \cup {"human", CrashReason} /\ requeued' = requeued
    BY <1>4 DEF DeathRoute, recoveryDecision
  <2>2. RowsComeFirst'
    BY <1>0, <1>1, <2>1 DEF SweepInv, RowsComeFirst
  <2>3. PlanIsBounded'
    BY <1>0, <1>1, <1>2, <2>1 DEF SweepInv, PlanIsBounded
  <2>4. EditSparesParks'
    BY <1>1 DEF EditSparesParks
  <2> QED
    BY <1>0, <2>1, <2>2, <2>3, <2>4 DEF Counts
<1> QED
  BY <1>3, <1>4

\* The staleness sweep's edit, from the recovery's plan to the labels.
LEMMA ReleaseCounts ==
    ASSUME SweepInv, ReleaseViews \/ ReleaseEvicts \/ ReleaseEdits
    PROVE  Counts' /\ labels' \subseteq Labels
<1>0. /\ ledger' = ledger /\ requeued' = requeued /\ labels \subseteq Labels /\ boot \in Boots
  BY DEF SweepInv, SweepShape, ReleaseViews, ReleaseEvicts, ReleaseEdits
<1>1. CASE ReleaseViews
  <2>1. labels' = labels
    BY <1>1 DEF ReleaseViews
  <2>2. CASE "running" \notin labels
    <3>1. boot'.at = "idle"
      BY <1>1, <2>2 DEF ReleaseViews, NoBoot
    <3> QED
      BY <1>0, <2>1, <3>1, RestingBoot
  <2>3. CASE "running" \in labels
    <3>1. boot'.at = "evict" /\ boot'.edit = planClaimRecovery(labels)
      BY <1>0, <1>1, <2>3 DEF ReleaseViews, Boots
    <3> QED
      BY <1>0, <2>1, <2>3, <3>1, RecoveryPlan
         DEF SweepInv, Counts, RowsComeFirst, PlanIsBounded, EditSparesParks
  <2> QED
    BY <2>2, <2>3
<1>2. CASE ReleaseEvicts
  <2>1. labels' = labels /\ boot.at = "evict" /\ boot'.at = "evict" /\ boot'.edit = boot.edit
    BY <1>0, <1>2 DEF ReleaseEvicts, Boots
  <2> QED
    BY <1>0, <2>1 DEF SweepInv, Counts, RowsComeFirst, PlanIsBounded, EditSparesParks
<1>3. CASE ReleaseEdits
  <2>1. /\ boot.at = "evict" /\ boot'.at = "idle"
        /\ labels' = (labels \ boot.edit.remove) \cup boot.edit.add
    BY <1>3 DEF ReleaseEdits, NoBoot
  <2>2. labels' \subseteq Labels
    BY <1>0, <2>1 DEF Boots
  <2>3. EditSparesParks'
    BY <1>0, <2>1 DEF SweepInv, EditSparesParks
  <2> QED
    BY <1>0, <2>1, <2>2, <2>3 DEF SweepInv, Counts, RowsComeFirst, PlanIsBounded
<1> QED
  BY <1>1, <1>2, <1>3

\* A boot that fails or dies leaves what it wrote, and the counts with it.
LEMMA FaultCounts ==
    ASSUME SweepInv, BootStepFails \/ BootDies
    PROVE  Counts'
<1>0. ledger' = ledger /\ requeued' = requeued /\ labels' = labels /\ boot \in Boots
  BY DEF SweepInv, SweepShape, BootStepFails, BootDies
<1>1. CASE \/ boot' = NoBoot
           \/ boot.at = "listed" /\ boot' = [boot EXCEPT !.at = "claims"]
  <2>1. boot'.at \in {"idle", "claims"}
    BY <1>0, <1>1 DEF NoBoot, Boots
  <2> QED
    BY <1>0, <2>1, RestingBoot
<1>2. ASSUME boot.at \in {"append", "route"}, boot' = [boot EXCEPT !.at = "deaths"]
      PROVE  Counts'
  <2>0. /\ ledger \in Nat /\ requeued \in Nat /\ boot.ordinal \in Nat
        /\ boot.owners \in SUBSET Local
    BY <1>2 DEF SweepInv, SweepShape, PlanIsBounded, Boots
  <2>1. boot'.at = "deaths" /\ boot'.owners = boot.owners /\ boot'.ordinal = boot.ordinal
    BY <1>0, <1>2 DEF Boots
  <2>2. Cardinality(boot.owners) \in Nat /\ Cardinality(Local) \in Nat
    BY <2>0, OwnersOfHost
  <2>3. RowsComeFirst'
    BY <1>0, <1>2, <2>0, <2>1 DEF SweepInv, RowsComeFirst
  <2>4. PlanIsBounded'
    BY <1>0, <1>2, <2>0, <2>1, <2>2 DEF SweepInv, PlanIsBounded
  <2>5. EditSparesParks'
    BY <1>0, <1>2, <2>1 DEF SweepInv, EditSparesParks
  <2> QED
    BY <2>3, <2>4, <2>5 DEF Counts
<1>3. ASSUME boot.at = "deaths", NEW owner \in boot.owners,
             boot' = [boot EXCEPT !.owners = @ \ {owner}]
      PROVE  Counts'
  BY <1>0, <1>3, StrikingCounts
<1> QED
  BY <1>1, <1>2, <1>3 DEF BootStepFails, BootDies

\* Every step of a boot keeps the counts.
LEMMA BootCounts ==
    ASSUME SweepInv, BootSteps
    PROVE  Counts' /\ labels' \subseteq Labels /\ ledger' \in Nat /\ requeued' \in Nat
<1>0. labels \subseteq Labels /\ ledger \in Nat /\ requeued \in Nat
  BY DEF SweepInv, SweepShape
<1>1. CASE claimedIssues \/ DeathSweepEnds \/ planStaleClaimSweep
  <2>1. ledger' = ledger /\ requeued' = requeued /\ labels' = labels
    BY <1>1 DEF claimedIssues, DeathSweepEnds, planStaleClaimSweep
  <2>2. boot'.at \in {"idle", "listed", "claims", "release"}
    <3>1. CASE claimedIssues \/ DeathSweepEnds
      BY <3>1 DEF claimedIssues, DeathSweepEnds, NoBoot
    <3>2. CASE planStaleClaimSweep
      <4>1. \/ boot' = NoBoot
            \/ \E unseen \in SUBSET Local :
                 boot' = [boot EXCEPT !.at = "release", !.owners = Contenders, !.unseen = unseen]
        BY <3>2 DEF planStaleClaimSweep
      <4>2. boot \in Boots
        BY DEF SweepInv, SweepShape
      <4>3. CASE boot' = NoBoot
        BY <4>3 DEF NoBoot
      <4>4. ASSUME NEW unseen \in SUBSET Local,
                   boot' = [boot EXCEPT !.at = "release", !.owners = Contenders, !.unseen = unseen]
            PROVE  boot'.at = "release"
        BY <4>2, <4>4 DEF Boots
      <4> QED
        BY <4>1, <4>3, <4>4
    <3> QED
      BY <1>1, <3>1, <3>2
  <2> QED
    BY <1>0, <2>1, <2>2, RestingBoot
<1>2. CASE planDeathSweep
  BY <1>0, <1>2, PlanCounts DEF planDeathSweep
<1>3. CASE DeathConcede
  <2>1. PICK owner \in boot.owners :
          /\ boot.at = "deaths"
          /\ \/ boot' = [boot EXCEPT !.at = "append", !.owners = @ \ {owner}]
             \/ boot' = [boot EXCEPT !.owners = @ \ {owner}]
          /\ ledger' = ledger /\ requeued' = requeued /\ labels' = labels
    BY <1>3 DEF DeathConcede
  <2> QED
    BY <1>0, <2>1, StrikingCounts
<1>4. CASE appendHistory
  BY <1>0, <1>4, RowCounts DEF appendHistory
<1>5. CASE DeathRoute
  BY <1>0, <1>5, RouteCounts DEF DeathRoute
<1>6. CASE ReleaseViews \/ ReleaseEvicts \/ ReleaseEdits
  BY <1>0, <1>6, ReleaseCounts DEF ReleaseViews, ReleaseEvicts, ReleaseEdits
<1>7. CASE BootStepFails \/ BootDies
  BY <1>0, <1>7, FaultCounts DEF BootStepFails, BootDies
<1> QED
  BY <1>1, <1>2, <1>3, <1>4, <1>5, <1>6, <1>7 DEF BootSteps, BootStep

\* A concede on the owner's behalf keeps the claim's type.
LEMMA ConcedingTypes ==
    ASSUME SweepInv, Conceding
    PROVE  TypeOK'
<1>1. CASE UNCHANGED vars
  BY <1>1 DEF SweepInv, SweepShape, TypeOK, vars
<1>2. ASSUME NEW owner \in boot.owners, Concede(owner) PROVE TypeOK'
  <2>1. owner \in Workers /\ thread \in Seq(Marker)
    BY DEF SweepInv, SweepShape, Boots, TypeOK
  <2>2. concedeMarker(owner) \in Marker
    BY <2>1, MarkerFacts
  <2>3. Append(thread, concedeMarker(owner)) \in Seq(Marker)
    BY <2>1, <2>2, AppendFacts
  <2> QED
    BY <1>2, <2>1, <2>3 DEF SweepInv, SweepShape, TypeOK, Concede
<1> QED
  BY <1>1, <1>2 DEF Conceding

\* A boot leaves the claimants' projections alone, and its faults are bounded.
LEMMA BootFaults ==
    ASSUME SweepInv, BootSteps
    PROVE  projected' = projected /\ faults' \in 0 .. MaxFaults
<1>0. faults \in 0 .. MaxFaults /\ MaxFaults \in Nat
  BY SweepConstants DEF SweepInv, SweepShape
<1>1. Fault \/ faults' = faults
  BY DEF BootSteps, BootStep, BootStepFails, BootDies, claimedIssues, planDeathSweep,
         DeathConcede, appendHistory, DeathRoute, DeathSweepEnds, planStaleClaimSweep,
         ReleaseViews, ReleaseEvicts, ReleaseEdits
<1>2. projected' = projected
  BY DEF BootSteps, BootStep, BootStepFails, BootDies, claimedIssues, planDeathSweep,
         DeathConcede, appendHistory, DeathRoute, DeathSweepEnds, planStaleClaimSweep,
         ReleaseViews, ReleaseEvicts, ReleaseEdits
<1> QED
  BY <1>0, <1>1, <1>2 DEF Fault

\* Boots keep the invariant.
LEMMA BootsKeep ==
    ASSUME SweepInv, BootSteps
    PROVE  SweepInv'
<1>1. TypeOK'
  BY BootMoves, ConcedingTypes
<1>2. SweepShape'
  BY <1>1, BootMoves, BootCounts, BootFaults DEF SweepInv, SweepShape
<1>3. OwnersAreGone'
  BY BootMoves DEF SweepInv, OwnersAreGone
<1> QED
  BY <1>2, <1>3, BootCounts DEF SweepInv, Counts

\* The initial states satisfy the invariant.
LEMMA SweepInvInit == SweepInit => SweepInv
<1> SUFFICES ASSUME SweepInit PROVE SweepInv
  OBVIOUS
<1>1. SweepShape
  <2>1. TypeOK
    BY TypeInit DEF SweepInit
  <2>2. boot \in Boots
    BY DEF SweepInit, NoBoot, NoEdit, Boots, Stages
  <2>3. labels \subseteq Labels
    BY DEF SweepInit, Labels, StateRoles
  <2>4. requeued \in Nat /\ ledger \in Nat /\ faults \in 0 .. MaxFaults
    BY SweepConstants DEF SweepInit
  <2> QED
    BY <2>1, <2>2, <2>3, <2>4 DEF SweepInit, SweepShape
<1>2. OwnersAreGone
  BY DEF SweepInit, OwnersAreGone, NoBoot
<1>3. Cardinality(Local) \in Nat /\ Cardinality(Local) > 0
  BY OwnersOfHost
<1>4. RowsComeFirst /\ PlanIsBounded /\ EditSparesParks
  BY <1>3, SweepConstants DEF SweepInit, RowsComeFirst, PlanIsBounded, EditSparesParks, NoBoot
<1> QED
  BY <1>1, <1>2, <1>4 DEF SweepInv

\* Every step keeps it.
LEMMA SweepInvStep == SweepInv /\ [SweepNext]_allVars => SweepInv'
<1> SUFFICES ASSUME SweepInv, [SweepNext]_allVars PROVE SweepInv'
  OBVIOUS
<1>1. CASE ClaimantSteps
  BY <1>1, ClaimantsKeep
<1>2. CASE BootSteps
  BY <1>2, BootsKeep
<1>3. CASE UNCHANGED allVars
  BY <1>3 DEF allVars, vars, sweepVars, SweepInv, SweepShape, TypeOK, OwnersAreGone,
              RowsComeFirst, PlanIsBounded, EditSparesParks
<1> QED
  BY <1>1, <1>2, <1>3 DEF SweepNext, ClaimantSteps, BootSteps

\* The invariant holds throughout.
LEMMA SweepInvAlways == SweepSpec => []SweepInv
BY SweepInvInit, SweepInvStep, PTL DEF SweepSpec

-----------------------------------------------------------------------------

\* A step that moves the boot is a boot's.
LEMMA BootMoved ==
    ASSUME SweepInv, [SweepNext]_allVars, boot' # boot
    PROVE  BootSteps
<1>1. ~ClaimantSteps
  BY ClaimantsMove
<1>2. ~UNCHANGED allVars
  BY DEF allVars, sweepVars
<1> QED
  BY <1>1, <1>2 DEF SweepNext, ClaimantSteps, BootSteps

\* Whatever the staleness policy, the number of claimants and the faults, a boot
\* concedes a claimant of its own host only when the process is gone, its pid file was
\* not found by this boot, or its death is on record, although the plan and the concede
\* are steps apart.
THEOREM LocalClaimantsAreSpared == SweepSpec => LocalIsSpared
<1>1. ASSUME SweepInv, [SweepNext]_allVars, boot' # boot,
             NEW e \in Local, e \in evicted' \ evicted
      PROVE  pc[e] = "crashed" \/ e \in boot.unseen \/ receipt[e] = "named"
  <2>1. Conceding
    BY <1>1, BootMoved, BootMoves
  <2>2. e \in boot.owners
    BY <1>1, <2>1 DEF Conceding, Concede, vars
  <2> QED
    BY <1>1, <2>2 DEF SweepInv, OwnersAreGone
<1>2. SweepInv /\ [SweepNext]_allVars
        => [\A e \in Local : boot' # boot /\ e \in evicted' \ evicted =>
              pc[e] = "crashed" \/ e \in boot.unseen \/ receipt[e] = "named"]_allVars
  BY <1>1
<1> QED
  BY <1>2, SweepInvAlways, PTL DEF SweepSpec, LocalIsSpared

\* No boot lifts a park, whoever made it and whenever, for any number of boots and
\* faults: neither the death sweep nor the staleness sweep, whose edit was planned from
\* labels read before its concedes.
THEOREM ParksAreNotLifted == SweepSpec => ParkIsNotLifted
<1>1. ASSUME SweepInv, [SweepNext]_allVars, boot' # boot, "human" \in labels
      PROVE  "human" \in labels'
  <2>1. BootSteps
    BY <1>1, BootMoved
  <2>2. CASE ReleaseEdits
    BY <1>1, <2>2 DEF ReleaseEdits, SweepInv, EditSparesParks
  <2>3. CASE DeathRoute
    BY <1>1, <2>3 DEF DeathRoute
  <2>4. CASE BootSteps /\ ~ReleaseEdits /\ ~DeathRoute
    <3>1. labels' = labels
      BY <2>4 DEF BootSteps, BootStep, BootStepFails, BootDies, claimedIssues, planDeathSweep,
             DeathConcede, appendHistory, DeathSweepEnds, planStaleClaimSweep, ReleaseViews,
             ReleaseEvicts
    <3> QED
      BY <1>1, <3>1
  <2> QED
    BY <2>1, <2>2, <2>3, <2>4
<1>2. SweepInv /\ [SweepNext]_allVars
        => [boot' # boot /\ "human" \in labels => "human" \in labels']_allVars
  BY <1>1
<1> QED
  BY <1>2, SweepInvAlways, PTL DEF SweepSpec, ParkIsNotLifted

\* No requeue by the death sweep goes uncounted, and the cap holds up to the deaths
\* that one plan settles together, whatever the cap and the faults.
THEOREM RequeuesAreBounded == SweepSpec => []RequeuesAreCounted
<1>1. SweepInv => RequeuesAreCounted
  BY DEF SweepInv, RowsComeFirst, PlanIsBounded, RequeuesAreCounted
<1> QED
  BY <1>1, SweepInvAlways, PTL

\* The labels are always labels of the tracker, whatever parks, routes and recoveries
\* add, and whoever is listed, unseen or on record is a claimant (SweepTypeOK).
THEOREM SweepTypeCorrect == SweepSpec => []SweepTypeOK
<1>1. SweepInv => SweepTypeOK
  BY DEF SweepInv, SweepShape, SweepTypeOK, Boots, Stages
<1> QED
  BY <1>1, SweepInvAlways, PTL
=============================================================================

------------------------------ MODULE ClaimSweep ------------------------------
(***************************************************************************)
(* The claim of one issue together with its labels and with the sweeps of  *)
(* a booting checkout that give a dead owner's issue back (apps/plugin-dev,*)
(* core: death-sweep.ts, boot.ts, claim-recovery.ts, disposition.ts).      *)
(* Claimants run IssueClaim; the winner projects `running` on the issue.   *)
(* A boot lists the issues, then the death sweep joins the deaths that the *)
(* daemon explained to the claims and requeues or parks, counting in the   *)
(* history ledger, and the staleness sweep releases what is held by stale  *)
(* or dead owners alone.  Each write is a step: claimants run in between,  *)
(* and a boot may fail or die between any two.  Workers and humans park    *)
(* the issue at any time, and the daemon may record the death of a Worker  *)
(* that it only lost sight of.                                             *)
(* A claimant saw the issue queued at some time before it posts its claim. *)
(***************************************************************************)
EXTENDS IssueClaim, StateTransition, FiniteSets

CONSTANTS
    Local,        \* the claimants of the booting host
    CrashReason,  \* what a park for a hard death adds, `blocked:crashed`
    Cap,          \* recoveryCap of a crash
    MaxFaults     \* bound: failed requests, boots that die, Workers lost sight of, parks

ASSUME SweepConstants ==
    /\ Local \subseteq Workers /\ Local # {} /\ IsFiniteSet(Local)
    /\ CrashReason \in Reasons
    /\ Cap \in Nat \ {0} /\ MaxFaults \in Nat

VARIABLES
    labels,     \* the issue's labels
    projected,  \* claimants that have tried to project `running`
    receipt,    \* whose death the daemon's event lane explains, with a named sender
    ledger,     \* terminal rows of the issue in the history ledger
    requeued,   \* history: requeues by the death sweep
    boot,       \* how far the boot is
    faults      \* for the bound

sweepVars == <<labels, projected, receipt, ledger, requeued, boot, faults>>

allVars == <<vars, sweepVars>>

NoEdit == [add |-> {}, remove |-> {}]

\* `unseen` is the history of whose pid file this boot did not find.
NoBoot == [at |-> "idle", owners |-> {}, unseen |-> {}, ordinal |-> 0, edit |-> NoEdit]

SweepTypeOK ==
    /\ labels \subseteq Labels
    /\ projected \subseteq Workers
    /\ receipt \in [Workers -> {"none", "named"}]
    /\ ledger \in Nat
    /\ requeued \in Nat
    /\ boot \in [at : {"idle", "listed", "deaths", "append", "route", "claims", "release",
                       "evict"},
                 owners : SUBSET Workers, unseen : SUBSET Local, ordinal : Nat,
                 edit : [add : SUBSET Labels, remove : SUBSET Labels]]
    /\ faults \in 0 .. MaxFaults

\* The issue is queued, perhaps after attempts that died and were requeued.
SweepInit ==
    /\ Init
    /\ labels = {"ready"}
    /\ projected = {}
    /\ receipt = [w \in Workers |-> "none"]
    /\ requeued \in 0 .. Cap - 1
    /\ ledger = requeued
    /\ boot = NoBoot
    /\ faults = 0

-----------------------------------------------------------------------------
(* Claimants: IssueClaim's actions and what they do to the labels.           *)

Fault == faults < MaxFaults /\ faults' = faults + 1

ClaimStep ==
    /\ (\E w \in Workers : PostClaim(w) \/ RefreshHeartbeat(w)) \/ Tick
    /\ UNCHANGED sweepVars

Claims(w) ==
    /\ \/ \E k \in 1 .. Len(thread) : \E dead \in SUBSET Crashed : Decide(w, k, dead)
       \/ ConcedeLost(w) /\ thread' # thread
       \/ \E e \in Workers : ConcedeOnBehalf(w, e)
    /\ UNCHANGED sweepVars

\* A request of a claimant fails, or its read-back lags.
ClaimFails(w) ==
    /\ \/ PostClaimUnanswered(w)
       \/ \E listed \in -1 .. Len(thread) : VerifyMiss(w, listed)
       \/ ConcedeLost(w) /\ thread' = thread
       \/ ConcedeOnBehalfFails(w)
    /\ Fault
    /\ UNCHANGED <<labels, projected, receipt, ledger, requeued, boot>>

\* The winner projects `running`, best-effort.
Project(w) ==
    /\ pc[w] = "held" /\ w \notin projected
    /\ \/ labels' = (labels \ {"ready"}) \cup {"running"} /\ UNCHANGED faults
       \/ UNCHANGED labels /\ Fault
    /\ projected' = projected \cup {w}
    /\ UNCHANGED <<vars, receipt, ledger, requeued, boot>>

\* The holder is done.  Its state labels go when it landed the issue; they stay when
\* it was parked, or when the edit is lost.
Retires(w) ==
    /\ Retire(w)
    /\ labels' \in {labels, labels \ ({"running", "human", "ready"} \cup Reasons)}
    /\ IF thread' = thread \/ ("running" \in labels' /\ "human" \notin labels')
         THEN Fault ELSE UNCHANGED faults
    /\ UNCHANGED <<projected, receipt, ledger, requeued, boot>>

\* parkWrite: a Worker whose turn ended, or a human, parks the issue.  It may know the
\* labels of before `running` was projected, which then stays.  Bound: only an issue
\* that is `running`, and not parked, is parked.
Parks ==
    \E reason \in Reasons, known \in {labels, labels \ {"running"}} :
      LET park == [kind |-> "park", reason |-> reason, reqs |-> {}] IN
        /\ "running" \in labels /\ "human" \notin labels
        /\ ~isRefused(known, park)
        /\ labels' = (labels \ removed(known, park)) \cup added(known, park)
        /\ Fault
        /\ UNCHANGED <<vars, projected, receipt, ledger, requeued, boot>>

\* The daemon of a local claimant records its death, with a named sender or, which no
\* sweep acts on, without.
Dies(w) ==
    /\ Crash(w)
    /\ receipt' \in {receipt} \cup {[receipt EXCEPT ![e] = "named"] : e \in {w} \cap Local}
    /\ UNCHANGED <<labels, projected, ledger, requeued, boot, faults>>

\* The daemon gives up a Worker that lives and holds the issue: a stop nobody confirmed,
\* or the exit of its launch client with a unit that does not answer.
GivenUp(w) ==
    /\ w \in Local /\ pc[w] = "held" /\ receipt[w] = "none"
    /\ Fault
    /\ receipt' = [receipt EXCEPT ![w] = "named"]
    /\ UNCHANGED <<vars, labels, projected, ledger, requeued, boot>>

-----------------------------------------------------------------------------
(* Boots                                                                     *)

All == Len(thread)

\* The batched listing of the issues shows this one as `running`; otherwise the boot
\* leaves it alone.
claimedIssues ==
    /\ boot.at = "idle" /\ "running" \in labels
    /\ boot' = [NoBoot EXCEPT !.at = "listed"]
    /\ UNCHANGED <<vars, labels, projected, receipt, ledger, requeued, faults>>

\* planDeathSweep: the deaths with a named sender whose claims are not conceded, the
\* ordinal of the next requeue with them.
planDeathSweep ==
    /\ boot.at = "listed"
    /\ boot' = [boot EXCEPT
         !.at = "deaths",
         !.owners = {w \in Local : receipt[w] = "named" /\ Contends(w, All)},
         !.ordinal = ledger + 1]
    /\ UNCHANGED <<vars, labels, projected, receipt, ledger, requeued, faults>>

Concede(owner) ==
    /\ thread' = Append(thread, concedeMarker(owner))
    /\ evicted' = evicted \cup {owner}
    /\ UNCHANGED <<pc, mine, attempts, populated, toEvict, outcome, posts>>

\* executeDeathSweep: the labels are read again, and the owner is conceded; an issue
\* that is `running` no longer is left alone.
DeathConcede ==
    \E owner \in boot.owners :
      /\ boot.at = "deaths"
      /\ IF "running" \in labels
           THEN /\ Concede(owner)
                /\ boot' = [boot EXCEPT !.at = "append", !.owners = @ \ {owner}]
           ELSE UNCHANGED vars /\ boot' = [boot EXCEPT !.owners = @ \ {owner}]
      /\ UNCHANGED <<labels, projected, receipt, ledger, requeued, faults>>

appendHistory ==
    /\ boot.at = "append"
    /\ ledger' = ledger + 1
    /\ boot' = [boot EXCEPT !.at = "route"]
    /\ UNCHANGED <<vars, labels, projected, receipt, requeued, faults>>

\* Mutant: the attempt at the cap is retried too.
recoveryDecision_offByOne(attemptN) == attemptN <= Cap

\* recoveryDecision: retry while attemptN < cap.
recoveryDecision(attemptN) == attemptN < Cap

\* Mutant: an outcome without a typed label adds that label.
DeathRoute_untyped ==
    LET retry == recoveryDecision(boot.ordinal) IN
      /\ boot.at = "route"
      /\ labels' = (labels \ {"running"})
                     \cup IF retry THEN {"ready"} ELSE {"human", "none"}
      /\ requeued' = IF retry THEN requeued + 1 ELSE requeued
      /\ boot' = [boot EXCEPT !.at = "deaths"]
      /\ UNCHANGED <<vars, projected, receipt, ledger, faults>>

\* dispose: a clean requeue, or the human lane with the reason, beside whatever else
\* the issue carries by now.
DeathRoute ==
    LET retry == recoveryDecision(boot.ordinal) IN
      /\ boot.at = "route"
      /\ labels' = (labels \ {"running"})
                     \cup IF retry THEN {"ready"} ELSE {"human", CrashReason}
      /\ requeued' = IF retry THEN requeued + 1 ELSE requeued
      /\ boot' = [boot EXCEPT !.at = "deaths"]
      /\ UNCHANGED <<vars, projected, receipt, ledger, faults>>

DeathSweepEnds ==
    /\ boot.at = "deaths" /\ boot.owners = {}
    /\ boot' = [NoBoot EXCEPT !.at = "claims"]
    /\ UNCHANGED <<vars, labels, projected, receipt, ledger, requeued, faults>>

\* Mutant: the age of the marker alone decides.
staleHere_byAge(e, unseen) ==
    \E i \in 1 .. All : LatestClaim(e, All, i) /\ classifyStale(thread[i])

\* A local owner is stale when its process is gone, or when its pid file is not to be
\* found under the booting checkout's workers root; a remote one when its marker is.
staleHere(e, unseen) ==
    \E i \in 1 .. All :
      /\ LatestClaim(e, All, i)
      /\ IF e \in Local THEN pc[e] = "crashed" \/ e \in unseen ELSE classifyStale(thread[i])

Conceded(e) ==
    ~Contends(e, All) /\ \E i \in 1 .. All : thread[i].worker = e

Contenders == {e \in Workers : Contends(e, All)}

\* Mutant: an issue whose claims are all conceded is nobody's business.
Releasable_staleOnly(unseen) ==
    Contenders # {} /\ \A e \in Contenders : staleHere(e, unseen)

\* No live claim, and a stale or a conceded one.
Releasable(unseen) ==
    /\ \A e \in Contenders : staleHere(e, unseen)
    /\ Contenders # {} \/ \E e \in Workers : Conceded(e)

\* Recent commits of the attempt protect a remote owner, which a dead one has for a
\* while only.
planStaleClaimSweep ==
    /\ boot.at = "claims"
    /\ \E recent \in BOOLEAN, unseen \in SUBSET ((Contenders \cap Local) \ Crashed) :
         /\ recent => (Contenders \ Crashed) # {}
         /\ IF unseen = {} THEN UNCHANGED faults ELSE Fault
         /\ LET spared == recent /\ Contenders # {} /\ Contenders \cap Local = {} IN
              boot' = IF Releasable(unseen) /\ ~spared
                        THEN [boot EXCEPT !.at = "release", !.owners = Contenders,
                                          !.unseen = unseen]
                        ELSE NoBoot
    /\ UNCHANGED <<vars, labels, projected, receipt, ledger, requeued>>

\* Mutant: whatever is `running` goes back to the queue.
planClaimRecovery_queues(current) ==
    LET plan == planTransition(current, [kind |-> "queue", reason |-> "none", reqs |-> {}])
    IN  [add |-> plan.add, remove |-> plan.remove]

\* A parked issue, or one that the planner refuses to queue, only loses `running`.
planClaimRecovery(current) ==
    LET queue == [kind |-> "queue", reason |-> "none", reqs |-> {}]
        parked == "human" \in current \/ current \cap Reasons # {}
    IN  IF parked \/ isRefused(current, queue) THEN [add |-> {}, remove |-> {"running"}]
        ELSE [add |-> added(current, queue), remove |-> removed(current, queue)]

\* runStaleClaimSweep: the labels are read again, and the recovery planned from them.
ReleaseViews ==
    /\ boot.at = "release"
    /\ boot' = IF "running" \notin labels THEN NoBoot
               ELSE [boot EXCEPT !.at = "evict", !.edit = planClaimRecovery(labels)]
    /\ UNCHANGED <<vars, labels, projected, receipt, ledger, requeued, faults>>

\* Each stale owner is conceded on its behalf, and then the labels are edited.
ReleaseEvicts ==
    \E owner \in boot.owners :
      /\ boot.at = "evict"
      /\ Concede(owner)
      /\ boot' = [boot EXCEPT !.owners = @ \ {owner}]
      /\ UNCHANGED <<labels, projected, receipt, ledger, requeued, faults>>

ReleaseEdits ==
    /\ boot.at = "evict" /\ boot.owners = {}
    /\ labels' = (labels \ boot.edit.remove) \cup boot.edit.add
    /\ boot' = NoBoot
    /\ UNCHANGED <<vars, projected, receipt, ledger, requeued, faults>>

\* A read or a write fails: the owner's turn is over, or the sweep is.
BootStepFails ==
    /\ boot.at # "idle"
    /\ Fault
    /\ \/ /\ boot.at = "deaths"
          /\ \E owner \in boot.owners : boot' = [boot EXCEPT !.owners = @ \ {owner}]
       \/ boot.at \in {"append", "route"} /\ boot' = [boot EXCEPT !.at = "deaths"]
       \/ boot.at = "listed" /\ boot' = [boot EXCEPT !.at = "claims"]
       \/ boot.at \in {"claims", "release", "evict"} /\ boot' = NoBoot
    /\ UNCHANGED <<vars, labels, projected, receipt, ledger, requeued>>

BootDies ==
    /\ boot.at # "idle"
    /\ Fault
    /\ boot' = NoBoot
    /\ UNCHANGED <<vars, labels, projected, receipt, ledger, requeued>>

-----------------------------------------------------------------------------

BootStep ==
    \/ claimedIssues
    \/ planDeathSweep \/ DeathConcede \/ appendHistory \/ DeathRoute \/ DeathSweepEnds
    \/ planStaleClaimSweep \/ ReleaseViews \/ ReleaseEvicts \/ ReleaseEdits

SweepNext ==
    \/ ClaimStep
    \/ \E w \in Workers : Claims(w) \/ ClaimFails(w) \/ Project(w) \/ Retires(w) \/ Dies(w) \/ GivenUp(w)
    \/ Parks
    \/ BootStep \/ BootStepFails \/ BootDies

\* A live claimant runs its call, time passes, and checkouts keep booting.
SweepFairness ==
    /\ \A w \in Workers : WF_allVars(Claims(w))
    /\ WF_allVars(Tick /\ UNCHANGED sweepVars)
    /\ WF_allVars(BootStep)

SweepSpec == SweepInit /\ [][SweepNext]_allVars /\ SweepFairness

-----------------------------------------------------------------------------
(* Properties                                                                *)

\* A sweep takes the claim of a claimant of its own host only when the process is gone,
\* when this boot's checkout did not find its pid file, or when the daemon recorded its
\* death, however late its heartbeats are ("a busy local worker that missed its refresh
\* batch is never robbed by its own host's sweep"), and although it concedes some steps
\* after it looked (claimedIssues, planDeathSweep, planStaleClaimSweep).
LocalIsSpared ==
    [][\A e \in Local : boot' # boot /\ e \in evicted' \ evicted =>
          pc[e] = "crashed" \/ e \in boot.unseen \/ receipt[e] = "named"]_allVars

\* No sweep lifts a park, whoever parked the issue and at whatever step of the sweep:
\* not the death sweep's edit, and not the staleness sweep's, which was planned from
\* labels read before the concedes (runStaleClaimSweep, planClaimRecovery).
ParkIsNotLifted ==
    [][boot' # boot /\ "human" \in labels => "human" \in labels']_allVars

\* No requeue by the death sweep goes uncounted, although its boots fail and die
\* between the row and the labels ("a crash between them leaves the ordinal counted
\* rather than lost").  So the cap holds, except that the deaths of one plan share an
\* ordinal: the last plan that requeues may do so once for each claimant of the host.
RequeuesAreCounted == requeued <= ledger /\ requeued < Cap + Cardinality(Local) - 1

Alive(e) == pc[e] # "crashed" /\ Contends(e, All)

\* An issue does not stay `running` for nobody: when no live claimant has a claim on
\* it, some boot takes the label away, unless somebody claims it first
\* (claim-staleness.ts: "the claim would strand forever").
StrandedIsReleased ==
    ("running" \in labels /\ \A e \in Workers : ~Alive(e))
      ~> ("running" \notin labels \/ \E e \in Workers : Alive(e))
=============================================================================

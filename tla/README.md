# TLA+ specifications of RedSkills / redskilled

RedSkills runs coding agents unattended on a queue of GitHub issues. A host
daemon, `redskilled`, decides when a Worker process is born; Workers on any
number of hosts claim issues, work in sandboxes, and land branches; the issue's
comments and labels are the state they share. What makes this hard is not any
single algorithm: it is that independent processes coordinate through comments,
labels, files and sockets, each of which is read in one awaited call and written
in another.

These modules specify the coordination protocols at that grain: every awaited
request, file operation or socket operation is a step of its own wherever
another actor may move in between. Paths below are relative to the repository.

## 1. Inventory

| Component | State | Operations | Hard behaviour | What makes it correct |
|---|---|---|---|---|
| **Issue claim** `packages/worker/src/engine/tracker/{claim,claim-verification,claim-staleness}.ts` | claim and concede markers in an issue's comments | post, read back, reconcile, concede, concede on behalf, refresh, retire | claimants on several hosts, lagging lists, lost answers, crashes, staleness | one owner; a live owner is not robbed; an issue nobody else wants is not conceded; every attempt ends |
| **Issue state** `packages/worker/src/engine/{state-transition,issue-state-curator}.ts` | the labels and body of an issue; the curator's counters and their file | plan, edit, sweep, release, park, strip closed issues | a plan is made from labels read earlier; sweeps crash; humans edit | quarantine is left; a closed issue ends without a state; edits reach the role they plan |
| **Host resource leases** `apps/redskilled/src/resource-lease*.ts`, `daemon/resource-lease-runtime.ts`, `apps/plugin-dev/src/runtime/heavy-validation-lease.ts` | lease map, coalescing store, file | acquire, renew, release, release by holder, prune, restore | awaits inside acquire, expiry, daemon replacement, failing writes | one lease per resource; one client that believes it has it; waiters are answered |
| **Daemon singleton** `apps/redskilled/src/{machine-scope,session-lease}.ts`, `daemon/{socket,lifecycle}.ts` | machine claim file, session lease file, socket path | claim, acquire, bind, renew, release, stop | concurrent starts, debris of crashes, reused pids, several OS users | at most one daemon; nobody rescues the records of one that answers; starts end; debris keeps nobody out |
| Local issue lease `tracker/claim.ts` 692-959 | a directory per issue with `pid` and `owner` | mkdir, reclaim by rename, release | reclaimers and fresh claimants interleave | one holder per host |
| Land lock `engine/land-lock.ts` | one lock file per repository | create exclusively, judge abandoned, steal, release | stealing by path after reading | one landing at a time |
| **Claim sweeps** `apps/plugin-dev/src/core/{boot,death-sweep,claim-recovery,disposition,recovery}.ts` | the history ledger; reads claims, labels and the daemon's record of deaths | plan from a snapshot, re-read labels, concede, append the row, edit | a snapshot against claimants that move on; a boot that dies between two writes | whom the host sees living is spared; no park is lifted; requeues are counted and capped; nothing stays `running` for nobody |
| Dependency promotion `tracker/dependencies.ts` | `req:*` labels | close cascade, unblock sweep | all plans precede all writes | promoted exactly when all dependencies are closed |
| **GitHub outbox** `apps/redskilled/src/{github-outbox,github-write}.ts` | durable queue of writes | publish, resume, compact | crash between the write and its receipt | no write lost, none done twice, no receipt for half a transition |
| **Merge custody** `apps/redskilled/src/github-custody*.ts` | custody records in memory and in a file, timers | hand off, tick, observe, arm, settle, tend | timers die with the daemon, the forge drops its intent, heads move | a promised pull request is armed until it ends, and its end is recorded |
| **Demand loop** `apps/redskilled/src/demand-loop.ts`, `daemon/{lifecycle,birth-outcome}.ts`, `admission.ts` | targets, queue depths, backoff, per-project breaker, the Workers held | tick, birth, exit, sweep, teardown, probe | the living are counted before polls and starts; births that are not awaited; half-open probe; one death seen from three sides | never more Workers than target or queue; a failing project is halted, and tried again |
| Takeover `apps/redskilled/src/daemon/takeover.ts`, `self-replace.ts` | staged successor | prepare, stage, stop, complete | failure at each stage | incumbent or successor serves, never neither |
| Worker supervision, project registration, event lane, ACP control plane, landing and gates, sandboxes | see `PROJECT.json` | | | |
| Surfaces, plugins for memory and brain, GitHub client, link, release, scripts | see `PROJECT.json` | | | not specified: presentation, text processing or I/O |

How they meet: the daemon (singleton, resource leases, demand loop) gives birth
to Workers; a Worker takes the local lease, then the issue claim, moves the
issue's labels through the transition planner, validates under a resource lease,
takes the land lock, hands its pull request to the daemon's custody, and retires
the claim. What the daemon writes to GitHub for it goes through the outbox. The
claim sweeps and the curator repair what dead Workers left in comments and labels.

Bold components have a module; the others are in the plan (section 6) or are
listed in `PROJECT.json` with the reason they have none.

`PROJECT.json` lists every component with its status, the hazards with their
lines, and the line correspondence of every definition.

## 2. Modules

    IssueClaim              the GitHub-native claim           MCIssueClaim, IssueClaimProofs
    StateTransition         the pure planner of label edits
    IssueLabels             planner + actors + curator        MCIssueLabels, IssueLabelsProofs
    ResourceLease           resource leases + their client    MCResourceLease, ResourceLeaseProofs
    DaemonSingleton         claim, lease, socket of a daemon  MCDaemonSingleton, DaemonSingletonProofs
    WriteOnce               what an outbox promises (abstract)
    GithubOutbox            the outbox of GitHub writes       MCGithubOutbox, GithubOutboxProofs
    MergeCustody            custody of pull requests          MCMergeCustody, MergeCustodyProofs
    DemandLoop              births, deaths and the breaker    MCDemandLoop, DemandLoopProofs
    ClaimSweep              IssueClaim + labels + boot sweeps MCClaimSweep, ClaimSweepProofs

`IssueLabels` extends `StateTransition`; `ClaimSweep` composes `IssueClaim` and
`StateTransition`, and its proofs extend those of `IssueClaim`; `GithubOutbox`
instantiates `WriteOnce` with a refinement mapping; a proof module extends its component
and `TLAPS`; an MC module only names the model values of its configurations.
Operators called `name_variant` directly before an operator `name` are mutated
forms of it, each a bug somebody could write there; `PROJECT.json` pairs them
with the property that detects them.

### IssueClaim

`thread` is the sequence of markers in comment-id order, which is what the code
sorts by; a marker keeps its worker, its kind and the age of its timestamp. `pc`
follows `acquireClaim` from the post through the read-backs
(`VerifyMiss`, one per attempt) and the verdict (`Decide`) to the concede of the
loser or the concedes on behalf of the winner. `Wins`, `Live`, `Recovered` are
`reconcileClaim`; `classifyStale` is the classifier of `claim-staleness.ts`.
A listing is a prefix of the thread: GitHub's list lags, and a comment that
is shown is shown with all earlier ones. Ages are those at the time of the
listing, since the list carries the edited marker and the verdict is synchronous
from there. A rejected post may have landed (`PostClaimUnanswered`), and so may
a rejected concede. The liveness callback answers "dead" for any subset of the
crashed workers: it never errs towards dead, it may not know.

`SelfStamped` says whether the caller passes `createdAt` to `acquireClaim`. The
interface allows it and the tests do it; the callers at this commit
(`acquireIssueLease`, `mobile-ticket-dispatch.ts`) do not, and then a claimant
never finds its own claim stale by age. `issue_claim` has the stamped case, which
is the one the exemption of a just-posted claim is for, `issue_claim_liveness`
the unstamped one; the theorems cover both.

`ClaimsPerWorker` bounds how often one identity claims the issue. One is what
the code lives by where the host mints a Worker id per dispatch
(`mobile-ticket-dispatch.ts`, `mintHostWorkerId`); with two, an identity comes
back after conceding.

### StateTransition and IssueLabels

`StateTransition` has the planner: `targetRole`, `added`, `removed`, the
refusals of malformed requests and the replay check. Labels are model values in
four families: the state roles, the reasons, the dependency edges, the
human-only types, and the `running` projection.

`IssueLabels` puts one issue under an engine call site that plans and, one
request later, edits (`PlanTransition`, `ReadBody` for the kinds that rewrite
the body, `ApplyTransition`). The site plans from the labels it knows: those it read,
or, for the transitions in `Assumed`, those it takes the issue to have without reading it,
as callers of `transitionLabels` do that pass the labels they mean to shed. Whether the
issue is still open it does not ask. Beside it are the curator's sweep (`CuratorList` through
`CuratorStore`, one step per request, with the counter both in memory and in
the state file); a human who edits labels; the tracker that closes the issue; and
failures of each request and crashes of the sweep. `MaxFaults` bounds the failures, the
crashes, the hand edits and the plans for a closed issue together. Edits overlap freely.
The winner's `running` is external: the claim leaves the projection to its caller
(`claim.ts:39`), and no code of the repository puts the label on an issue.

### ResourceLease

A request is one `acquire` and what follows it. Four tables of remaining
times: the map, the snapshot pending in the coalescing store, the one being
written, the file. `acquire` is split at its awaits: prune, check, memory
sample, re-check and insert, persist, answer; waiting has its timer. An answer
is given when the store's queue drains, which is what awaiting its
promise means. The daemon stops at any time, losing the map and what was not
written; the next one restores the file, less the holders that its boot did not
reattach. A daemon also releases what a Worker holds when it gives the Worker up
(`forgetWorker`): because it died, or although it lives, after a stop that nobody
confirmed or a probe that failed. `givenUp` records the living clients this happened to;
nobody tells them, and they go on validating. The client
runs its validation until its lease runs out, renews it, and ignores a renewal
that answers nothing, as `heavy-validation-lease.ts` does. A failed write is
swallowed by the code; `intact` records that one occurred.

Time is a countdown of ticks that saturates at zero, so there is no clock to
bound. Tick durations need not be equal; TTL and deadline are counts.

### DaemonSingleton

One process is one daemon: a pid with its start time. Its start passes the
socketless check, `MachineClaim.claim`, the session lease's `acquire` and
`bindExclusive`; each awaited operation is a step. In particular

- exclusive creation (`wx`) is an open and then a write, so a file exists before
  it has contents;
- whatever is removed is removed by path, some steps after it was read;
- `renew` reads, and renames over what is there;
- a listening server's close unlinks its path (Node and libuv; external);
- the claim directory is sticky: a user removes only its own claim
  (`mayReap`);
- a dead daemon's pid may be given to somebody else (`reused`), so that
  `isPidAlive` errs; `LeaseAges` lets the age of an unrenewed lease tell;
- a probe of a socket nobody answers may time out instead, unless `ClearProbes`.

The two reads of a record within one check are one step, as are a probe's
connect and its answer. A lease ages only while nobody starts or stops, a minute
without renewal against the milliseconds of a start; its owner may be gone, or may
serve with renewals that fail, which the daemon ignores. `Sock` gives each daemon its
user's runtime directory, and so its socket and its lease; the machine claim is
shared. `stuck` is a daemon whose `stop` threw.

### WriteOnce and GithubOutbox

`publish` is one caller's request, `ResumeList` and `ResumeNext` a resume over
what was pending when it was listed. The queue serializes whole operations, so
there is one `op` at a time; its steps are the lookup or the send, the post of a
comment that was not found, and the mark in the file. `file` and `mem` are the
entries on disk and in memory, keyed, with their place in the array, which is
what compaction goes by: the newest `Retention` published entries stay, pending
ones all do. Every request to GitHub may fail, having taken effect or not; every
write of the file may fail, and then memory is ahead of the file; `Restart` loses
memory and the operation. `Kind` tells a push (idempotent), a post (found again
by its marker) and a transition (labels, then a comment that is found again)
apart. `Hidden` are the publications a lookup's page does not list;
`WriteOnce` is promised for the others. A page is assumed to be current: a list
that lags its own post would make any marker hidden for a while.

### MergeCustody

`forge` is what GitHub has: state, head, auto-merge intent. `file`, `mem` and
`loaded` are the custodian's snapshot; each change of it is one step because the
custodian chains its changes. `Handoff` takes over or restates an obligation,
`Tend` and `Status` revive the drivers from the file (`register`), `TimerFires` starts
a pass, and the pass goes through `Tick`, `Observe`, the three calls of an arm and
`Settle`, or through `Catch` from wherever it throws. `ForgeMoves` and `ForgeEnds`
are the forge's own. `Restart` ends the passes with the daemon. A stop does not
wait for them (`lifecycle.ts` 2152-2192), so that for the moment until the process
exits a pass may still write its snapshot over what the successor has read; that overlap
of two daemons is left out.

`ObligationsAreKept` lets a promise leave the file once its pull request has ended on
the forge, recorded as ended or not. Its proof needs that: with two pull requests an
end whose write failed is in memory only, the next handoff's compaction sheds it there,
and the file still has the promise when another owner hands the same pull request
over. One pull request, as in the run, does not get there.

### DemandLoop

A tick is split at its awaits: the sweep of Workers the host no longer confirms
(`TickBegins`, `TickRetires`), the count and plan (`TickCounts`, with
`planHostDemand` and the breaker), the second poll (`TickPolls`), and one start after the other
(`TickStarts`, `TickTurns` for a Project with a prompt, `TickRefused`, then
`TickGrants`, which makes the Worker its Project's probe). A plan is a set of births,
each of a round and a Project; `Before` is the order in which the flattened rounds
have them, and `NextBirth` the first that is left. Workers end by
themselves or are stopped (`StopBegins`, `StopSettles`); a child's exit waits in `exits`
for `ResolveExit`. Clients start Workers and end them, operators reset the breaker
and register Projects. Durations are steps of `Time` that keep their order:
grace 1 < short life 2, halt 2, backoff 1; a halt that is over has outlasted every
short life of the Workers that were alive when it began. A Worker id is minted again
only when nothing remembers it; that a host has no free id left is a bound, not a
behaviour.

### ClaimSweep

`IssueClaim`'s actions as they are, with what they do to the labels: a winner
projects `running` (external, as in `IssueLabels`), a holder that landed takes the state
labels off (`Retires`), and Workers and humans park a running issue at any time, from
labels that may predate the projection (`Parks`). The daemon records a death with a named
sender (`Dies`), also of a holder that it only gave up (`GivenUp`). A boot
lists the issue, joins the deaths the daemon explained to the claims
(`planDeathSweep`), and for each owner re-reads the labels and concedes
(`DeathConcede`), appends the row to the ledger (`appendHistory`) and requeues
or parks (`DeathRoute`); then it plans the staleness sweep from all claims
(`planStaleClaimSweep`), re-reads the labels and plans the recovery
(`ReleaseViews`), concedes the stale owners one by one and edits the labels.
Every one of those may fail (`BootStepFails`), and the boot may die
(`BootDies`).

A local owner is judged by its pid file under the checkout's workers root
(`staleHere`): `unseen` are the living ones whose file this boot does not find, Workers of
another checkout among them. `MaxFaults` bounds failed requests, boots that die, Workers
lost sight of and parks together. The issue may have been requeued before
(`SweepInit`), which is how a single death meets the cap.

There is one issue and one boot at a time. A claim's age is taken when the boot
looks; recent commits protect only owners that are not dead; a Worker id is not
born again; the isolated lanes, remedies and audit comments are left out.

## 3. Runs

| Run | Instance | Distinct states | Shows |
|---|---|---|---|
| `issue_claim` | 3 claimants, 1 claim and 1 read-back each, window 2 ticks, symmetry | 253 k | `MutualExclusion`, `SoleClaimantNeverLoses`, `NoMutualLoss`, `NeverRobbed` |
| `issue_claim_liveness` | 2 claimants, 3 read-backs, unstamped | 45 k | `ClaimIsDecided` |
| `issue_claim_reclaim` | 3 claimants, 2 claims each | violation | `NoQueueJump` (a finding) |
| `issue_labels` | 1 call site that reads or assumes, 1 edge, limit 2, 1 fault | 441 k | `QuarantineIsLeft`, `ClosedStaysStripped` |
| `resource_lease` | 2 requests for one resource, TTL 2, deadline 2, 2 faults | 227 k | `OneLeasePerResource`, `OneBeliever`, `NotEvicted`, `AcquireIsAnswered` |
| `daemon_singleton` | 2 daemons of one user, 2 stops, 1 crash, reused pids | 11 k | `RescueSparesOwners`, `StartIsDecided`, `DebrisIsCleared` |
| `daemon_two_users` | 3 daemons of 2 users, no stop, no crash | violation | `OneDaemon` (a finding) |
| `github_outbox` | a push, 2 posts under one key, a transition; retention 1, 2 faults | 59 k | `WrittenOnce` (refinement), `ObligationsAreKept`, `TransitionsAreWhole` |
| `merge_custody` | 1 pull request, 2 owners, 2 heads, retention 0, 2 faults, 2 moves | 47 k | `ObligationsAreKept`, `IntentIsRestored`, `EndIsRecorded` |
| `demand_loop` | 1 Project, 3 Workers, target 2, streak 2, 1 fault, 1 command, symmetry | 733 k | `TargetIsKept`, `SoleProbe` |
| `demand_liveness` | 2 Projects, one with a prompt, 1 Worker, streak 1, 1 command | 116 k | `ProbeIsResolved`, `QueueIsServed` |
| `claim_sweep` | 1 claimant of the booting host, 1 of another, cap 2, 1 fault | 441 k | `LocalIsSpared`, `ParkIsNotLifted`, `RequeuesAreCounted`, `StrandedIsReleased` |

Why the bounds suffice. Three claimants let a winner evict one contender while
it races another; a window of two ticks over a cadence of one leaves room for a
missed and a timely refresh. In `issue_labels` one call site and the curator are two
editors whose plans cross, and a limit of two has a re-check that is spent and one that
is left. Two requests are a holder and a waiter for what it leaves, or two that race for it;
a TTL of two has a fresh, an ageing and an expired lease. Two daemons with
two stops and a crash leave each kind of debris to a successor, and a serving owner
whose renewals fail to a rescuer; how many start at once is left to the theorem. Two
daemons of one user and one of another suffice to break `OneDaemon`: one reaps the claim
that the other of its user has just been granted, and the third claims what is free. Two requests under one key are a
retry, and with retention 1 the transition or the push sheds their entry; two faults are a
request that took effect without an answer and the restart after it. Two heads
and two moves let a head move while an arm is in flight and an intent vanish
after it. Three Workers are two at the target and one more that should not be
born; with a streak of two a halt needs two deaths, in any order, seen by
anyone. In `claim_sweep` the local claimant is judged by its process and the
remote one by its marker, a ledger that starts at 0 or 1 has the death requeued
or parked under a cap of two, and the fault is a boot that fails or dies once, anywhere,
a Worker lost sight of once, or a park, at any step of a sweep.
Symmetry is used in safety runs only, over identities nothing distinguishes.

Deadlock is checked everywhere except in the `daemon_` runs, where every daemon
may have come to rest.

### Fairness

- `IssueClaim`: a live claimant keeps running its call. Each step is one request
  that is answered or rejected; `Crash` is always possible instead.
- `IssueLabels`: the resident repeats the sweep on its timer, and a call site that
  planned sends its edit or fails. Humans and GitHub are under no obligation.
- `ResourceLease`: the event loop serves each acquire, the store writes, time
  passes, a stopped daemon is replaced (its unit restarts it).
- `DaemonSingleton`: start and stop are sequences of awaited operations that
  nothing blocks. Nobody need start, stop or renew.
- `MergeCustody`: timers fire, a pass's calls to the forge end one way or the
  other, the tender runs on its interval. Nothing is promised of handoffs or the
  forge.
- `DemandLoop`: the loop's and the poll's timers fire, exits are resolved in their
  chain, time passes, an unattended turn starts its Worker or gives up, and a
  teardown kills what it stops and settles. Workers need not end, and the queue
  need not grow.
- `ClaimSweep`: a live claimant runs its call, time passes, and checkouts keep
  booting (every `/afk` run begins with a boot).
- `GithubOutbox` has none: `resumeWrites` has no caller in production code at
  this commit, so that nothing obliges a pending write to be sent.

All are weak fairness.

### Findings

**Queue jump** (`claim.ts:366`, run `issue_claim_reclaim`). The order key is a
worker's earliest claim even when it has conceded since, so a worker that returns
overtakes the owner that won in between; the comment says re-posting never
improves a position.

**Two daemons on a machine** (`machine-scope.ts:254`, run `daemon_two_users`). The claim
file exists before it is written, an empty one reads as debris, and debris is reaped: a
start removes the claim of one that was just granted the machine, and a daemon of another
user is granted it too. The sticky directory does not help, since the start that reaps
is of the same user as the claim. The module's header promises one `redskilled` per
machine. Two daemons of one user would still meet at the lease and the bind; two of
different users meet nowhere else.

### Other bounds

What other formulas and other values of the constants show, and why the runs do not use
them.

- `IssueLabels`: an issue may have two state roles. An edit is a blind delta
  planned from labels known earlier (`state-transition.ts:302`), and two
  editors that start from the same role each add theirs; the planner's header
  calls such a write "unconstructible" (`state-transition.ts:8`), which is true of
  the plan and not of the issue. Theorem `WhenTheRoleIsReached` says exactly when an edit
  leaves its role. Likewise an edit that queues leaves what its site did not
  know of: reasons, edges, `running` (`WhatQueueingLeaves`).
- `IssueLabels`: the curator writes the body it listed (`issue-state-curator.ts:213`), so
  that a blocker added since is lost with it.
- `IssueLabels`: the re-check counter outlives a quarantine the curator did not
  end (`issue-state-curator.ts:226`), so that the next one is parked before its
  own re-checks are spent, against ADR 0122's third rule.
- `ResourceLease` without the exception for `givenUp`: `OneBeliever` and
  `NotEvicted` fail. A living Worker that the daemon gave up validates on while the
  resource is granted again (`lifecycle.ts:1263`).
- `DaemonSingleton`: that a serving daemon is the one its path leads to, and that a
  path has one daemon, are no properties. After one stop the last `rm` of it
  (`lifecycle.ts:2190`) removes the socket of the successor that bound after the
  lease was released. After one crash three daemons may become two: two starts probe
  the dead socket, one removes it and binds, the other removes that
  (`socket.ts:64`). And a renewal under way when a stop releases the lease renames
  its file back; had a successor's lease been overwritten so, that successor's
  own stop throws at its first release and never closes (`lifecycle.ts:2185`).
- `DaemonSingleton` with three daemons: `StartIsDecided` has a counterexample in which
  the renewals of a serving daemon come between every two file operations of two starts,
  for ever. Renewals are 30 s apart.
- `DemandLoop`: a short life may be counted twice. The sweep or the teardown
  and the child's exit each fold the death they see
  (`lifecycle.ts:1343`, `:1570`, `:1668`; `worker-teardown.ts:24` says the exit
  observer does it), so that one death can make a streak of two.
- `DemandLoop` with `Prompted` Projects: `TargetIsKept` and `SoleProbe` fail for
  them. A prompt birth is not awaited (`lifecycle.ts:1046`), so that the next tick
  counts without its Worker and it is never the probe.
- `MergeCustody`: the head that is armed is not the head that was observed
  (`github-custody.ts:234`): a push between the two calls has the intent on a commit no
  landing validated, until the next pass reports the moved head. No property of the
  project says otherwise.
- `GithubOutbox` with a `Hidden` post: it is posted twice when the daemon dies between the
  write and the mark, since the lookup reads one page. `WrittenOnce` is
  stated for the listed ones.
- `ClaimSweep` with two claimants on the booting host: their deaths, planned
  together, share an ordinal (`death-sweep.ts:426`), so that the last plan
  under the cap may requeue more than once. `RequeuesAreCounted` allows that, by
  its term `Cardinality(Local) - 1`, and the theorem shows that it is all.
- `ClaimSweep`: the owner is conceded before the labels are edited, so that an
  issue is for a while `running` without a claim.
- `ClaimSweep`: an issue may be queued over a park. The death sweep re-reads the labels,
  asks for `running` only, and adds `ready-for-agent` beside an existing
  `ready-for-human` (`death-sweep.ts:536-550`); and the staleness sweep's edit,
  planned at `boot.ts:1134`, is applied at 1164 whatever was parked in between. TLC
  shows both. `ParkIsNotLifted` claims no more than that the park stays.
- `ClaimSweep`: a living Worker of another checkout of the host is conceded
  (`wire/boot.ts:618-624`: no pid file under *this* checkout's workers root), although
  a local worker "is never robbed by its own host's sweep" (`claim-staleness.ts:263`).
  `LocalIsSpared` names that case, and the record of a death that did not happen, as
  the only ones. Conversely a pid that was given to somebody else pins a dead Worker's
  claim.
- `ClaimSweep`: a remote holder that refreshed after the boot listed the claims is
  evicted all the same.

## 4. Proofs

Every theorem is checked by TLAPS, for every value of the constants admitted by
the named assumptions of its module (`ClaimConstants`, `LabelsDisjoint`,
`CuratorConstants`, `LeaseConstants`, `SingletonConstants`, `OutboxConstants`,
`CustodyConstants`, `DemandConstants`, `SweepConstants`). Hypotheses beyond
those are part of the statement. Every safety property of a passing run is
stated by a theorem; the inductive invariants were checked by TLC before they were
proved.

**IssueClaimProofs.** `TypeCorrect`. `ClaimMutualExclusion`: with
`ClaimsPerWorker = 1`, `[]MutualExclusion`. Exclusion itself is not inductive:
two owners decided on different prefixes at different times, and
nothing in `MutualExclusion` says what the earlier claim has become. `IInv` does:
whoever claimed before an owner is *out*, that is evicted, or finished with its
only claim (`EarlierAreOut`). It is kept because every concede in the thread is
of a worker who is out (`ConcededAreOut`), every planned eviction is on
record (`EvictionsRecorded`), and each worker has at most one claim, the one it
is racing with (`OneClaimEach`, `OwnClaimPosted`). Of two owners the later one
has the earlier one out, so evicted. The hypothesis is needed, by the finding.
`OwnersAreNotRobbed`: `NeverRobbed` with any number of claims, from the definition
of `Recovered` and the type invariant. `SoleClaimantWins`:
`[]SoleClaimantNeverLoses` with any number of claims. `RivalInv`: until a claim of
somebody else is in the thread, a claimant's own is the last of it and shown
to it (`HasRival`), and whoever is conceding has such a rival.
`NotEverybodyLoses`: with `ClaimsPerWorker = 1`, `[]NoMutualLoss`. The
argument is about the author of the first comment, which is a claim
(`FirstIsClaim`): it is behind nobody, so it loses only by its age or to a winner
that superseded it (`FirstLosesLate`), and whoever was superseded was superseded by
a claim that won (`EvictionsAreDecided`).

**IssueLabelsProofs.** `TypeCorrect`. `WhatReplayRefuses`: what the planner's
replay check adds to the checks of the request, namely exactly a park under
`blocked:dependency` of an issue without it. `WhenTheRoleIsReached`: an edit planned
from any known labels and applied to any others leaves exactly the planned role if and
only if the site knew every other role of the issue and did not take the planned one for
present. `WhatQueueingLeaves`: what stays on an issue that is queued from partial
knowledge. The last two are about the planner alone, and so about every overlap of edits.

**ResourceLeaseProofs.** `TypeCorrect`. `LeasesAreExclusive`:
`[]OneLeasePerResource`. A restored file becomes the map, so the file, what is
being written and what is pending must be exclusive too (`AllExclusive`).
`BelieversAreExclusive`: `[]OneBeliever`, and `LeasesAreNotEvicted`: `NotEvicted`.
Both relate what a client was told to the daemon's map and to a file that a successor
restores, for every client whose Worker no daemon gave up while it lived: `BeliefInv`
says that, as long as no write has failed, every lease such a client
believes in is in the map, in the file and in every snapshot on its way there, with at
least the time the client was told (`Covers`), that the snapshots written last also have
what is about to be answered (`Promises`), and that a daemon that is down has
nothing under way (`Quiet`).

**DaemonSingletonProofs.** `TypeCorrect` and `OwnersAreSpared`:
`[]RescueSparesOwners`, with any number of daemons, users, stops and crashes. A start
that finds an aged lease and no listener gives the records up in the owner's name, several
steps after its probe; that the owner does not answer by then is not inductive.
`RescueInv`: a lease lies in its owner's directory (`LeasesLieAtHome`), ages only
once its owner's start is over (`AgedOwnersAreSettled`), and whoever probes or rescues has
read such a lease (`RescuersRead`). An owner binds once, in its start, so that a path which
does not lead to it when it is probed never will. The type invariants of this module and
of `ResourceLease` are proved and are not in a run.

**GithubOutboxProofs.** `ObligationsAlwaysKept`: `ObligationsAreKept` for any
requests, retention, restarts and failures. `KeptInv` says that the entries
are the elements of one keyed array (`Shape`), that the running operation's
entry is pending in memory (`OpIsPending`), that what is pending in the file is
pending in memory too or GitHub has it (`MemoryIsAhead`), and that an operation
about to mark has posted (`RecordIsPosted`). Compaction is a lemma
(`CompactFacts`): it drops published entries only.
`OutboxWritesOnce`: the outbox implements `WriteOnce`, and `ReceiptsAreWhole`:
`[]TransitionsAreWhole`, both under `OwnKeys`: only posts share keys, as
callers derive the keys of pushes and transitions from what they write. `OnceInv`
adds that a published entry is of a write GitHub has, in memory and in the file,
that the operation's step agrees with GitHub, and that no key was posted twice;
each step of the outbox is then a `Write`, a `Receipt` or a stutter.
`TypeCorrect`: the places of the entries, in memory and in the file, are
`1 .. n` (`Packed`), which compaction has to restore after it drops entries from the
middle. The new place of an entry is its rank among the kept ones; ranks
are distinct and within `1 .. n`, and a finite set of `n` of them is all of it.

**MergeCustodyProofs.** `TypeCorrect`. `PromisesAreKept`: `ObligationsAreKept` for any
number of pull requests, owners, restarts and faults. `CustodyInv`: an end in memory or
in the file is the forge's (`EndsAreTrue`), memory that was read has every promise of the file
whose pull request is open, with its owner (`Ahead`), and a pass runs over memory that was
read and has seen a true end or none (`PassIsTrue`).

**DemandLoopProofs.** `TypeCorrect`, `TargetsAreKept`: `[]TargetIsKept`, and
`ProbesAreAlone`: `SoleProbe`, for any Projects, Workers, ceilings, bounds and
streak. `LoopInv`: the Workers of a Project and those the tick has yet to start for it are
together at most its target, and while the tick polls they are at most what it counted
(`CountHolds`), since nothing but the loop adds to them; a Project with births to come has
no probe, and exactly one to come if its breaker is half-open (`PlanIsAlone`),
because a halt that a death arms meanwhile is not over for this tick. What is
queued or condemned is still known (`NamedAreKnown`), so that a death finds its
Project. That the plan is a set with an order, and not a sequence that is flattened,
is what lets these be proved without induction; that a plan has a first birth
(`FirstIsPlanned`) follows from the well-foundedness of the naturals.

**ClaimSweepProofs.** `LocalClaimantsAreSpared`, `ParksAreNotLifted`,
`RequeuesAreBounded` and `SweepTypeCorrect` for any claimants, policy, cap and faults, from
`SweepInv`: whom a boot lists of its own host is gone, was not seen by this boot or is on
record as dead, none of which is taken back while the boot runs (`OwnersAreGone`); the row
comes before the requeue (`RowsComeFirst`); what a plan has left to requeue is at most one for
each listed owner (`PlanIsBounded`); and the edit a boot is about to make takes no park away,
whatever was parked since it was planned (`EditSparesParks`).

Model-checked only: everything temporal under fairness (`ClaimIsDecided`,
`QuarantineIsLeft`, `ClosedStaysStripped`, `AcquireIsAnswered`,
`StartIsDecided`, `DebrisIsCleared`, `IntentIsRestored`, `EndIsRecorded`,
`ProbeIsResolved`, `QueueIsServed`, `StrandedIsReleased`), which is beyond TLAPS.

## 5. Not modelled

The wire format of markers, the wording of comments, diagnoses and audit
entries; memory figures of the resource sampler; batch limits of the close
reconciliation (one issue has no batch); malformed requests that are rejected
before any state changes; what the daemon does between bind and stop beyond its
leases, custody, outbox and demand loop. Of the modelled components:

- outbox: the values of answers, a resume that an entry's failure aborts before
  the entries after it (the next resume lists them again), a list of comments that lags;
- demand loop: reattachment at the daemon's boot, the orphan reaper, harvest
  deadlines of a Worker's last words, admission by memory;
- claim sweeps: the isolated lanes (go, scout), concurrent boots of several
  checkouts, remedies, the merge of a dead Worker's branch.

The file locks are the most important parts without a module. In the local
issue lease (`claim.ts` 786-959) and the land lock (`land-lock.ts`) a directory
or file exists before its owner is written to it, and is removed by path after its
owner was read; reading them suggests that exclusion does not hold in those
windows, and what they do promise is left to the plan. The other components
without a module are in `PROJECT.json`, with the reason: most of the
repository is command surfaces, rendering, text processing, git and container I/O,
and stores of an external database, where there is no protocol to check.

## 6. Plan

In this order, each with a configuration for safety and, where something must
happen, one for progress:

1. `FsIssueLease`: the directory lock of `claim.ts` 767-959, two reclaimers and a
   fresh claimant; then `IssueLease`, its composition with `IssueClaim` as in
   `acquireIssueLease` and `retireIssueLease`. Abstract specification: one holder
   per host. Question: a rename by path against a lease renewed since it was read.
2. `LandLock`: one landing at a time, release by a holder whose lock was stolen,
   a file that is created and not yet written.
3. `DependencyPromotion`: cascade and sweep over several issues.
4. `Takeover` over `DaemonSingleton`; a property of stop in `DaemonSingleton`.
5. `Registration`: intents persisted and recovered at boot.

Theorems to add: exclusion of the local lease and of the land lock as far as they
hold; an abstract lock that `ResourceLease` implements; what `OneDaemon` becomes
after a stop, once a property of stop says what it should be.

------------------------------ MODULE DemandLoop ------------------------------
(***************************************************************************)
(* The daemon's demand loop and the lives of the Workers it starts.  A     *)
(* tick sweeps the Workers the host no longer confirms, counts the living, *)
(* plans births against each Project's target and queue, polls the queue   *)
(* again, and starts the Workers one after the other.  A Worker's death is *)
(* seen through its child handle, by the sweep, or by a teardown, and is   *)
(* folded into its Project's birth breaker: a streak of short lives halts  *)
(* the Project, and when the halt is over one Worker is its probe.         *)
(* Time is counted in steps that the three durations of the code order:    *)
(* grace (30 s) < short life (60 s) < halt (600 s); a halt is over only    *)
(* when every Worker that was alive when it began has outlived a short     *)
(* life.                                                                   *)
(***************************************************************************)
EXTENDS Naturals, FiniteSets, Sequences, Functions

CONSTANTS
    Labels,     \* the Projects, in the order of their labels
    Prompted,   \* Projects whose births are unattended turns of the daemon's
    Workers,    \* Worker ids; one is minted again when nothing remembers it
    Target,     \* each Project's target
    MaxDepth,   \* bound: the longest queue
    Ceiling,    \* the host's worker_count
    Reserved,   \* its interactive_reservation
    Streak,     \* REDSKILLED_SHORT_LIFE_STREAK
    MaxTurns,   \* bound: unattended turns of a Project that have no Worker yet
    MaxFaults,  \* bound: failed polls, fetches and stops, and probes that err
    MaxCommands \* bound: what clients and operators ask for

Projects == Range(Labels)

NoWorker == "none"

ASSUME DemandConstants ==
    /\ Labels \in Seq(Projects) /\ IsFiniteSet(Workers) /\ NoWorker \notin Workers
    /\ Prompted \subseteq Projects
    /\ {Target, MaxDepth, Ceiling, Reserved, Streak, MaxTurns, MaxFaults, MaxCommands} \subseteq Nat

\* REDSKILLED_LIVENESS_GRACE_MS, REDSKILLED_SHORT_LIFE_MS, REDSKILLED_BIRTH_HALT_MS
\* and REDSKILLED_DEMAND_BACKOFF_MS, in steps of Time.
Grace == 1

ShortLife == 2

Halt == 2

Backoff == 1

VARIABLES
    registered,  \* the registered Projects
    depth,       \* lastQueue: what the last poll counted, a null depth as 0
    health,      \* birthHealth
    backoff,     \* what is left of demandBackoffUntilMs
    life,        \* the Workers, and what the daemon holds of each
    exits,       \* observedExitTail: exits not resolved yet
    turns,       \* unattended turns that have no Worker yet
    tick,        \* how far driveDemand is
    faults,      \* for the bound
    commands     \* for the bound

vars == <<registered, depth, health, backoff, life, exits, turns, tick, faults, commands>>

EMPTY_BIRTH_HEALTH == [streak |-> 0, latched |-> FALSE, left |-> 0, probe |-> NoWorker]

\* `held`: in the daemon's map; `by`: whether its exit will be delivered ("child"), has
\* been ("none"), or the unit is what it is held by (reattached); `stopping`: a
\* teardown is in flight; `asked`: born by the loop.
Lives ==
    [state : {"running", "ended"}, proj : Projects, age : 0 .. ShortLife, held : BOOLEAN,
     by : {"child", "none", "unit"}, stopping : BOOLEAN, asked : BOOLEAN]

Free == [state |-> "free", held |-> FALSE, stopping |-> FALSE]

\* The n-th Worker that a tick wants for a Project is of the n-th round of its plan.
Births == (1 .. MaxDepth) \X Projects

\* What the tick read with the clock: `over`, the Projects whose halt was over,
\* `survived`, those whose probe had outlived a short life, and `holding`, whether
\* the host was backing off; `dead`: what its sweep retires.
Ticks ==
    [at : {"idle", "sweep", "poll", "birth", "grant"},
     over : SUBSET Projects, survived : SUBSET Projects, holding : BOOLEAN,
     dead : SUBSET Workers, live : [Projects -> 0 .. Cardinality(Workers)],
     births : SUBSET Births, started : Workers \cup {NoWorker}]

Idle ==
    [at |-> "idle", over |-> {}, survived |-> {}, holding |-> FALSE, dead |-> {},
     live |-> [p \in Projects |-> 0], births |-> {}, started |-> NoWorker]

TypeOK ==
    /\ registered \subseteq Projects
    /\ depth \in [Projects -> 0 .. MaxDepth]
    /\ health \in [Projects -> [streak : 0 .. Streak, latched : BOOLEAN, left : 0 .. Halt,
                                probe : Workers \cup {NoWorker}]]
    /\ backoff \in 0 .. Backoff
    /\ life \in [Workers -> Lives \cup {Free}]
    /\ exits \in Seq(Workers)
    /\ turns \in [Projects -> 0 .. MaxTurns]
    /\ tick \in Ticks
    /\ faults \in 0 .. MaxFaults
    /\ commands \in 0 .. MaxCommands

Init ==
    /\ registered = Projects
    /\ depth = [p \in Projects |-> 0]
    /\ health = [p \in Projects |-> EMPTY_BIRTH_HEALTH]
    /\ backoff = 0
    /\ life = [w \in Workers |-> Free]
    /\ exits = <<>>
    /\ turns = [p \in Projects |-> 0]
    /\ tick = Idle
    /\ faults = 0
    /\ commands = 0

Command == commands < MaxCommands /\ commands' = commands + 1

Fault(happens) ==
    /\ happens => faults < MaxFaults
    /\ faults' = IF happens THEN faults + 1 ELSE faults

-----------------------------------------------------------------------------
(* Deaths and the birth breaker                                              *)

Held == {w \in Workers : life[w].held}

\* Mutant: the halt is armed again and the probe that died is not forgotten.
foldWorkerDeath_keepsProbe(h, age, reported) ==
    LET streak == IF h.streak < Streak THEN h.streak + 1 ELSE Streak
        wasLatched == h.latched \/ h.probe # NoWorker
    IN
      IF reported \/ age = ShortLife THEN EMPTY_BIRTH_HEALTH
      ELSE IF ~wasLatched /\ streak < Streak THEN [EMPTY_BIRTH_HEALTH EXCEPT !.streak = streak]
      ELSE [streak |-> streak, latched |-> TRUE, left |-> Halt, probe |-> h.probe]

\* A reported outcome or a long life clears the history; a short one arms the halt
\* when the streak is complete, and again whenever the breaker is latched.
foldWorkerDeath(h, age, reported) ==
    LET streak == IF h.streak < Streak THEN h.streak + 1 ELSE Streak
        wasLatched == h.latched \/ h.probe # NoWorker
    IN
      IF reported \/ age = ShortLife THEN EMPTY_BIRTH_HEALTH
      ELSE IF ~wasLatched /\ streak < Streak THEN [EMPTY_BIRTH_HEALTH EXCEPT !.streak = streak]
      ELSE [streak |-> streak, latched |-> TRUE, left |-> Halt, probe |-> NoWorker]

\* An id is free again when nothing names it.
Settled(w, l) ==
    IF /\ l.state = "ended" /\ ~l.held /\ ~l.stopping
       /\ w \notin Range(exits') /\ w \notin tick'.dead
      THEN Free ELSE l

\* A halt armed after the tick read the clock is not over for it.
Running(t) == [t EXCEPT !.over = {p \in @ : health'[p].left = 0}]

\* record: every death reaches the breaker.
record(w, reported) ==
    health' = [health EXCEPT ![life[w].proj] = foldWorkerDeath(@, life[w].age, reported)]

\* The child handle delivers an exit; the daemon queues it while it holds the Worker.
Delivered(w) == exits' = IF life[w].by = "child" /\ life[w].held THEN Append(exits, w) ELSE exits

\* How a Worker is held once its child handle has delivered an exit.
Unwatched(w) == IF life[w].by = "child" THEN "none" ELSE life[w].by

Ends(w) ==
    /\ life[w].state = "running"
    /\ Delivered(w)
    /\ UNCHANGED tick
    /\ life' = [life EXCEPT ![w] = Settled(w, [@ EXCEPT !.state = "ended", !.by = Unwatched(w)])]
    /\ UNCHANGED <<registered, depth, health, backoff, turns, faults, commands>>

\* The launch client of a unit ends and the unit does not.
ClientEnds(w) ==
    /\ life[w].state = "running" /\ life[w].by = "child"
    /\ Fault(TRUE)
    /\ life' = [life EXCEPT ![w].by = Unwatched(w)]
    /\ Delivered(w)
    /\ UNCHANGED <<registered, depth, health, backoff, turns, tick, commands>>

\* resolveObservedExit: a unit that is alive is held from here on, and anything else
\* is a death, whether or not somebody else has recorded it.
ResolveExit ==
    LET w == Head(exits) IN
      /\ exits # <<>>
      /\ exits' = Tail(exits)
      /\ IF life[w].state = "running"
           THEN life' = [life EXCEPT ![w].held = TRUE, ![w].by = "unit"] /\ UNCHANGED <<health, tick>>
           ELSE /\ \E reported \in BOOLEAN : record(w, reported)
                /\ tick' = Running(tick)
                /\ life' = [life EXCEPT ![w] = Settled(w, [@ EXCEPT !.held = FALSE])]
      /\ UNCHANGED <<registered, depth, backoff, turns, faults, commands>>

\* stopWorkerNow, or a budget's kill, through the teardown ledger: one that is asked
\* for again joins the first.
StopBegins(w) ==
    /\ Command
    /\ life[w].held /\ ~life[w].stopping
    /\ life' = [life EXCEPT ![w].stopping = TRUE]
    /\ UNCHANGED <<registered, depth, health, backoff, exits, turns, tick, faults>>

\* The host confirms the death, or does not: the claim is given up either way.
StopSettles(w) ==
    /\ life[w].stopping
    /\ Fault(life[w].state = "running")
    /\ UNCHANGED exits
    /\ record(w, FALSE)
    /\ tick' = Running(tick)
    /\ life' = [life EXCEPT ![w] = Settled(w, [@ EXCEPT !.held = FALSE, !.stopping = FALSE])]
    /\ UNCHANGED <<registered, depth, backoff, turns, commands>>

-----------------------------------------------------------------------------
(* The planner                                                               *)

\* Mutant: a halt lasts until somebody resets it.
halted_latched(p, h) == h.latched

\* As of the instant at which the tick read the clock.
halted(p, h) == h.latched /\ p \notin tick.over

halfOpen(p, h) == h.latched /\ p \in tick.over

\* Mutant: the target is what may be asked for, whoever lives.
wanted_target(live, d) == IF Target < d THEN Target ELSE d

\* min(target - live, depth)
wanted(live, d) ==
    LET room == IF Target > live THEN Target - live ELSE 0 IN
      IF room < d THEN room ELSE d

Withheld(p, h) == p \notin registered \/ tick.holding \/ halted(p, h) \/ h.probe # NoWorker

\* Mutant: a Project whose halt is over is asked like any other.
admitted_all(p, h, live, d) == IF Withheld(p, h) THEN 0 ELSE wanted(live, d)

admitted(p, h, live, d) ==
    IF Withheld(p, h) THEN 0
    ELSE IF halfOpen(p, h) /\ wanted(live, d) > 0 THEN 1 ELSE wanted(live, d)

planHostDemand(hs, live, q) ==
    {b \in Births : b[1] <= admitted(b[2], hs[b[2]], live[b[2]], q[b[2]])}

\* One birth for each Project before a second for any, by label within a round.
Before(b, c) ==
    \/ b[1] < c[1]
    \/ /\ b[1] = c[1]
       /\ \E i, j \in DOMAIN Labels : i < j /\ Labels[i] = b[2] /\ Labels[j] = c[2]

First(births) == CHOOSE b \in births : \A c \in births : b = c \/ Before(b, c)

NextBirth == First(tick.births)

\* The Project whose turn it is.
Asking == NextBirth[2]

-----------------------------------------------------------------------------
(* driveDemand                                                               *)

\* sweepHeldWorkerLiveness: who is old enough to judge, or is held by its unit, and is
\* not confirmed.  A probe that fails reads as a death.
Judged == {w \in Held : life[w].by = "unit" \/ life[w].age >= Grace}

\* A second tick returns at once, so nothing happens while one runs.
TickBegins ==
    /\ tick.at = "idle"
    /\ \E unread \in {{}} \cup {{w} : w \in {v \in Judged : life[v].state = "running"}} :
         /\ Fault(unread # {})
         /\ tick' = [Idle EXCEPT
              !.at = "sweep",
              !.over = {p \in Projects : health[p].latched /\ health[p].left = 0},
              !.survived = {p \in Projects : \E w \in Held :
                              health[p].probe = w /\ life[w].age = ShortLife},
              !.holding = backoff > 0,
              !.dead = {w \in Judged : life[w].state = "ended"} \cup unread]
    /\ UNCHANGED <<registered, depth, health, backoff, life, exits, turns, commands>>

\* What the sweep found is retired, whether or not it is still held.
TickRetires ==
    \E w \in tick.dead :
      /\ tick.at = "sweep"
      /\ record(w, FALSE)
      /\ UNCHANGED exits
      /\ tick' = Running([tick EXCEPT !.dead = @ \ {w}])
      /\ life' = [life EXCEPT ![w] = Settled(w, [@ EXCEPT !.held = FALSE])]
      /\ UNCHANGED <<registered, depth, backoff, turns, faults, commands>>

\* A probe that has outlived a short life closes its breaker.
closeProbes ==
    [p \in Projects |->
       IF p \in tick.survived /\ health[p].probe \in Held THEN EMPTY_BIRTH_HEALTH ELSE health[p]]

liveCount == [p \in Projects |-> Cardinality({w \in Held : life[w].proj = p})]

\* pollQueueDiscovery: a Project that the tracker does not answer for has no depth.
pollQueueDiscovery ==
    depth' \in {d \in [Projects -> 0 .. MaxDepth] : \A p \in Projects \ registered : d[p] = 0}

Over == tick' = Idle

\* The living are counted, the probes judged, and a first plan is made.
TickCounts ==
    /\ tick.at = "sweep" /\ tick.dead = {}
    /\ health' = closeProbes
    /\ IF planHostDemand(closeProbes, liveCount, depth) = {} THEN Over
       ELSE tick' = [tick EXCEPT !.at = "poll", !.live = liveCount, !.survived = {}]
    /\ UNCHANGED <<registered, depth, backoff, life, exits, turns, faults, commands>>

\* The plan is made again from a fresh poll; a poll that fails ends the tick.
TickPolls ==
    /\ tick.at = "poll"
    /\ \/ /\ pollQueueDiscovery
          /\ LET births == planHostDemand(health, tick.live, depth') IN
               IF births = {} THEN Over
               ELSE tick' = [tick EXCEPT !.at = "birth", !.births = births]
          /\ UNCHANGED faults
       \/ /\ Fault(TRUE)
          /\ Over
          /\ UNCHANGED depth
    /\ UNCHANGED <<registered, health, backoff, life, exits, turns, commands>>

\* startWorker: it is tracked from the instant it exists.
Start(w, p, asked) ==
    /\ life[w] = Free
    /\ life' = [life EXCEPT ![w] =
         [state |-> "running", proj |-> p, age |-> 0, held |-> TRUE, by |-> "child",
          stopping |-> FALSE, asked |-> asked]]

admit(limit) == Cardinality(Held) < limit

Turned(p) == p \in Prompted \cap registered

\* On to the next birth, or out of the loop.  The backoff that a tick without a
\* refusal clears has run out: it would not have asked otherwise.
GoOn ==
    IF tick.births = {NextBirth} THEN Over
    ELSE tick' = [tick EXCEPT !.at = "birth", !.births = @ \ {NextBirth}, !.started = NoWorker]

\* The Worker is started; its hooks settle before the loop goes on.
TickStarts ==
    /\ tick.at = "birth" /\ ~Turned(Asking)
    /\ admit(Ceiling)
    /\ \E w \in Workers :
         /\ Start(w, Asking, TRUE)
         /\ tick' = [tick EXCEPT !.at = "grant", !.started = w]
    /\ UNCHANGED <<registered, depth, health, backoff, exits, turns, faults, commands>>

\* A Project with a prompt: the turn runs by itself, and nothing is granted.
TickTurns ==
    LET p == Asking IN
      /\ tick.at = "birth" /\ Turned(p) /\ turns[p] < MaxTurns
      /\ turns' = [turns EXCEPT ![p] = @ + 1]
      /\ GoOn
      /\ UNCHANGED <<registered, depth, health, backoff, life, exits, faults, commands>>

\* The host has no room, or the birth cannot be briefed: the tick ends, and a backoff
\* begins.  A trunk that cannot be fetched ends the tick alone.
TickRefused ==
    /\ tick.at = "birth"
    /\ IF Turned(Asking) THEN Fault(TRUE) /\ backoff' = Backoff
       ELSE IF ~admit(Ceiling) THEN backoff' = Backoff /\ UNCHANGED faults
       ELSE Fault(TRUE) /\ UNCHANGED backoff
    /\ Over
    /\ UNCHANGED <<registered, depth, health, life, exits, turns, commands>>

beginBirthProbe(h, w) == IF h.latched THEN [h EXCEPT !.probe = w] ELSE h

\* Mutant: the probe is named by its Project.
TickGrants_label ==
    LET p == Asking IN
      /\ tick.at = "grant"
      /\ health' = IF halfOpen(p, health[p])
                     THEN [health EXCEPT ![p] = beginBirthProbe(@, p)] ELSE health
      /\ GoOn
      /\ UNCHANGED <<registered, depth, backoff, life, exits, turns, faults, commands>>

TickGrants ==
    LET p == Asking IN
      /\ tick.at = "grant"
      /\ health' = IF halfOpen(p, health[p])
                     THEN [health EXCEPT ![p] = beginBirthProbe(@, tick.started)] ELSE health
      /\ GoOn
      /\ UNCHANGED <<registered, depth, backoff, life, exits, turns, faults, commands>>

-----------------------------------------------------------------------------
(* Beside the tick                                                           *)

\* An unattended turn reaches its admission: a Worker, or a refusal that is only
\* recorded.
TurnStarts(p) ==
    /\ turns[p] > 0
    /\ turns' = [turns EXCEPT ![p] = @ - 1]
    /\ IF admit(Ceiling) THEN \E w \in Workers : Start(w, p, TRUE) ELSE UNCHANGED life
    /\ UNCHANGED <<registered, depth, health, backoff, exits, tick, faults, commands>>

\* worker-start of a client; an interactive one may use the reserved slots.
ClientStarts(p) ==
    /\ Command
    /\ admit(Ceiling + Reserved)
    /\ \E w \in Workers : Start(w, p, FALSE)
    /\ UNCHANGED <<registered, depth, health, backoff, exits, turns, tick, faults>>

resetProjectBirthBreaker(p) ==
    /\ Command
    /\ health' = [health EXCEPT ![p] = EMPTY_BIRTH_HEALTH]
    /\ UNCHANGED <<registered, depth, backoff, life, exits, turns, tick, faults>>

registerProject(p) ==
    /\ Command
    /\ registered' = registered \cup {p}
    /\ UNCHANGED <<depth, health, backoff, life, exits, turns, tick, faults>>

deregisterProject(p) ==
    /\ Command
    /\ registered' = registered \ {p}
    /\ UNCHANGED <<depth, health, backoff, life, exits, turns, tick, faults>>

PollTimer ==
    /\ pollQueueDiscovery
    /\ UNCHANGED <<registered, health, backoff, life, exits, turns, tick, faults, commands>>

Less(n) == IF n = 0 THEN 0 ELSE n - 1

Time ==
    /\ life' = [w \in Workers |->
                  IF life[w] # Free /\ life[w].age < ShortLife
                    THEN [life[w] EXCEPT !.age = @ + 1] ELSE life[w]]
    /\ health' = [p \in Projects |-> [health[p] EXCEPT !.left = Less(@)]]
    /\ backoff' = Less(backoff)
    /\ UNCHANGED <<registered, depth, exits, turns, tick, faults, commands>>

-----------------------------------------------------------------------------

TickStep ==
    \/ TickRetires \/ TickCounts \/ TickPolls
    \/ TickStarts \/ TickTurns \/ TickRefused \/ TickGrants

Killed(w) == life[w].state = "running" /\ life[w].stopping /\ Ends(w)

Next ==
    \/ TickBegins \/ TickStep
    \/ ResolveExit \/ PollTimer \/ Time
    \/ \E w \in Workers : Ends(w) \/ ClientEnds(w) \/ StopBegins(w) \/ StopSettles(w)
    \/ \E p \in Projects :
         \/ TurnStarts(p) \/ ClientStarts(p)
         \/ resetProjectBirthBreaker(p) \/ registerProject(p) \/ deregisterProject(p)

\* The timers fire, the queues of promises drain, a teardown kills what it stops.
\* Nothing is promised of Workers, clients, operators or the queue.
Fairness ==
    /\ WF_vars(TickBegins) /\ WF_vars(TickStep)
    /\ WF_vars(ResolveExit) /\ WF_vars(PollTimer) /\ WF_vars(Time)
    /\ \A w \in Workers : WF_vars(StopSettles(w)) /\ WF_vars(Killed(w))
    /\ \A p \in Projects : WF_vars(TurnStarts(p))

Spec == Init /\ [][Next]_vars /\ Fairness

-----------------------------------------------------------------------------
(* Properties                                                                *)

\* The Workers of a Project that the loop asked for and watches.
Asked(p) ==
    {w \in Held : life[w].proj = p /\ life[w].asked /\ life[w].by # "unit"}

\* The loop never gives a Project more Workers than its target, although it counts
\* the living before a poll and several starts, and Workers end, are stopped, swept
\* and started by clients in between (driveDemand, "One tick at a time").  A Project
\* with a prompt is excepted: its turns are not awaited.
TargetIsKept ==
    \A p \in Projects \ Prompted : Cardinality(Asked(p)) <= Target

\* While a probe runs, its Project gets no second Worker of the loop's, whatever the
\* plan was made from ("while present no second birth is admitted").
SoleProbe ==
    [][\A p \in Projects \ Prompted :
         (health[p].probe # NoWorker /\ health'[p].probe = health[p].probe)
            => Asked(p)' \subseteq Asked(p)]_vars

\* A probe does not stay: it dies, and its death is folded whoever saw it, or it
\* outlives a short life.  Otherwise its Project would never be asked again.
ProbeIsResolved ==
    \A p \in Projects, w \in Workers : health[p].probe = w ~> health[p].probe # w

\* A registered Project with work and no Worker is asked for one in the end, or the
\* host has refused, whatever its Workers did before and its neighbours do now ("The
\* halt expires rather than latching", "a looping project must not hold back a
\* healthy neighbour").
QueueIsServed ==
    \A p \in Projects :
       (p \in registered /\ depth[p] > 0 /\ \A w \in Held : life[w].proj # p)
         ~> \/ p \notin registered \/ depth[p] = 0 \/ backoff > 0
            \/ turns[p] > 0 \/ \E w \in Held : life[w].proj = p
=============================================================================

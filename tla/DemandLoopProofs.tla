--------------------------- MODULE DemandLoopProofs ---------------------------
(***************************************************************************)
(* Proofs about DemandLoop: its types, that the loop keeps to a Project's  *)
(* target, and that a probe is alone, for any number of Projects, Workers  *)
(* and ceilings.                                                           *)
(***************************************************************************)
EXTENDS DemandLoop, TLAPS, FiniteSetTheorems, WellFoundedInduction

-----------------------------------------------------------------------------
(* The inductive invariant                                                   *)

\* What is queued or condemned is still remembered.
NamedAreKnown == \A w \in Range(exits) \cup tick.dead : life[w] # Free

\* A tick has a plan when it starts Workers, and only then.
PlanIsCurrent == tick.births # {} <=> tick.at \in {"birth", "grant"}

\* Only a Project with a prompt has turns.
TurnsArePrompted == \A p \in Projects : turns[p] > 0 => p \in Prompted

Wanting(p) == {b \in tick.births : b[2] = p}

\* A Project with births to come has no probe, and only one to come while it is half-open.
PlanIsAlone ==
    \A b \in tick.births :
       /\ health[b[2]].probe = NoWorker
       /\ halfOpen(b[2], health[b[2]]) => Wanting(b[2]) = {b}

\* The births of the plan that the Project's Workers do not include yet.
Due(p) == Wanting(p) \ (IF tick.at = "grant" THEN {NextBirth} ELSE {})

\* The count of the tick bounds what is left of the Workers it counted, and what is due
\* fits beside them.
CountHolds ==
    \A p \in Projects \ Prompted :
       /\ tick.at = "poll" => Cardinality(Asked(p)) <= tick.live[p]
       /\ Cardinality(Asked(p)) + Cardinality(Due(p)) <= Target

LoopInv ==
    /\ TypeOK
    /\ NamedAreKnown
    /\ PlanIsCurrent
    /\ TurnsArePrompted
    /\ PlanIsAlone
    /\ CountHolds

-----------------------------------------------------------------------------
(* Facts about the constants, the plan and the queue of exits                *)

\* The bounds are naturals.
LEMMA ConstantFacts ==
    /\ Target \in Nat /\ MaxDepth \in Nat /\ Ceiling \in Nat /\ Reserved \in Nat
    /\ Streak \in Nat /\ MaxTurns \in Nat /\ MaxFaults \in Nat /\ MaxCommands \in Nat
    /\ IsFiniteSet(Workers) /\ NoWorker \notin Workers /\ Prompted \subseteq Projects
  BY DemandConstants

\* A set of naturals has a least one.
LEMMA NatMin ==
    ASSUME NEW T, T \subseteq Nat, T # {}
    PROVE  \E x \in T : \A y \in T : x <= y
<1>1. PICK R : /\ IsWellFoundedOn(R, Nat)
               /\ \A x, y \in Nat : x < y => <<x, y>> \in R
  <2>1. \A x, y \in Nat : x < y => <<x, y>> \in OpToRel(<, Nat)
    BY DEF OpToRel
  <2> QED
    BY <2>1, NatLessThanWellFounded, Zenon
<1>2. IsWellFoundedOn(R, Nat)
  BY <1>1
<1>3. \E x \in T : \A y \in T : ~(<<y, x>> \in R)
  BY <1>2, WFMin, Zenon
<1>4. PICK x \in T : \A y \in T : ~(<<y, x>> \in R)
  BY <1>3
<1>5. x \in Nat /\ \A y \in T : y \in Nat /\ ~(y < x)
  BY <1>1, <1>4
<1> QED
  BY <1>4, <1>5

\* A plan with births has a first one: the least round, and the first label in it.
LEMMA FirstIsPlanned ==
    ASSUME NEW births, births \subseteq Births, births # {}
    PROVE  First(births) \in births
<1>1. \A c \in births : c = <<c[1], c[2]>> /\ c[1] \in Nat /\ c[2] \in Projects
  BY ConstantFacts DEF Births
<1>2. PICK r \in {c[1] : c \in births} : \A n \in {c[1] : c \in births} : r <= n
  <2> DEFINE T == {c[1] : c \in births}
  <2>1. T \subseteq Nat
    BY <1>1
  <2>2. T # {}
    OBVIOUS
  <2> HIDE DEF T
  <2>3. \E x \in T : \A y \in T : x <= y
    BY <2>1, <2>2, NatMin
  <2> QED
    BY <2>3 DEF T
<1>3. DOMAIN Labels \subseteq Nat
  BY DemandConstants
<1>4. \A q \in Projects : \E k \in DOMAIN Labels : Labels[k] = q
  BY DEF Projects, Range
<1>5. PICK i \in {k \in DOMAIN Labels : <<r, Labels[k]>> \in births} :
         \A k \in {m \in DOMAIN Labels : <<r, Labels[m]>> \in births} : i <= k
  <2> DEFINE T == {k \in DOMAIN Labels : <<r, Labels[k]>> \in births}
  <2>1. T \subseteq Nat
    BY <1>3
  <2>2. T # {}
    <3>1. PICK c \in births : c[1] = r
      OBVIOUS
    <3>2. PICK k \in DOMAIN Labels : Labels[k] = c[2]
      BY <1>1, <1>4
    <3>3. c = <<r, Labels[k]>>
      BY <1>1, <3>1, <3>2
    <3> QED
      BY <3>2, <3>3
  <2> HIDE DEF T
  <2>3. \E x \in T : \A y \in T : x <= y
    BY <2>1, <2>2, NatMin
  <2> QED
    BY <2>3 DEF T
<1> DEFINE b == <<r, Labels[i]>>
<1>6. b \in births /\ i \in Nat /\ r \in Nat
  BY <1>1, <1>3, <1>5, <1>2
<1>7. ASSUME NEW c \in births
      PROVE  b = c \/ Before(b, c)
  <2>1. r <= c[1] /\ c[1] \in Nat
    BY <1>1, <1>2
  <2>2. CASE r < c[1]
    BY <2>2 DEF Before
  <2>3. CASE r = c[1]
    <3>1. PICK k \in DOMAIN Labels : Labels[k] = c[2]
      BY <1>1, <1>4
    <3>2. c = <<r, Labels[k]>>
      BY <1>1, <2>3, <3>1
    <3>3. i <= k /\ k \in Nat
      BY <1>3, <1>5, <3>2
    <3>4. CASE i = k
      BY <3>2, <3>4
    <3>5. CASE i < k
      <4>1. i \in DOMAIN Labels
        BY <1>5
      <4> QED
        BY <2>3, <3>1, <3>5, <4>1 DEF Before
    <3> QED
      BY <1>6, <3>3, <3>4, <3>5
  <2> QED
    BY <1>6, <2>1, <2>2, <2>3
<1> QED
  BY <1>6, <1>7 DEF First

\* The births of one Project are its rounds.
LEMMA RoundsAreFinite ==
    ASSUME NEW p \in Projects, NEW n \in Nat, NEW S,
           S \subseteq {b \in Births : b[2] = p /\ b[1] <= n}
    PROVE  IsFiniteSet(S) /\ Cardinality(S) \in Nat /\ Cardinality(S) <= n
<1> DEFINE f == [i \in 1 .. n |-> <<i, p>>]
           Image == {f[i] : i \in 1 .. n}
<1>1. IsFiniteSet(1 .. n) /\ Cardinality(1 .. n) = n
  BY FS_Interval
<1>2. S \subseteq Image
  <2> SUFFICES ASSUME NEW b \in S
               PROVE  b \in Image
    OBVIOUS
  <2>1. b = <<b[1], p>> /\ b[1] \in 1 .. n
    BY ConstantFacts DEF Births
  <2>2. f[b[1]] = b
    BY <2>1
  <2> QED
    BY <2>1, <2>2
<1>3. IsFiniteSet(Image) /\ Cardinality(Image) <= Cardinality(1 .. n)
  <2>1. f \in [1 .. n -> Image]
    OBVIOUS
  <2> HIDE DEF f
  <2>2. f \in Surjection(1 .. n, Image)
    BY <2>1 DEF Surjection
  <2> HIDE DEF Image
  <2> QED
    BY <1>1, <2>2, FS_Surjection
<1> HIDE DEF Image
<1>4. IsFiniteSet(S) /\ Cardinality(S) <= Cardinality(Image)
  BY <1>2, <1>3, FS_Subset
<1>5. Cardinality(S) \in Nat /\ Cardinality(Image) \in Nat
  BY <1>3, <1>4, FS_CardinalityType
<1> QED
  BY <1>1, <1>3, <1>4, <1>5

\* What is in the queue of exits after an append and after a take.
LEMMA QueueFacts ==
    ASSUME NEW s \in Seq(Workers)
    PROVE  /\ \A w \in Workers :
                Append(s, w) \in Seq(Workers) /\ Range(Append(s, w)) = Range(s) \cup {w}
           /\ s # <<>> => /\ Head(s) \in Range(s) /\ Head(s) \in Workers
                          /\ Tail(s) \in Seq(Workers) /\ Range(Tail(s)) \subseteq Range(s)
<1>1. ASSUME NEW w \in Workers
      PROVE  Append(s, w) \in Seq(Workers) /\ Range(Append(s, w)) = Range(s) \cup {w}
  <2>1. /\ Append(s, w) \in Seq(Workers)
        /\ Len(Append(s, w)) = Len(s) + 1 /\ Len(s) \in Nat
        /\ \A i \in 1 .. Len(s) : Append(s, w)[i] = s[i]
        /\ Append(s, w)[Len(s) + 1] = w
    OBVIOUS
  <2>2. DOMAIN Append(s, w) = 1 .. (Len(s) + 1) /\ DOMAIN s = 1 .. Len(s)
    BY <2>1
  <2>3. DOMAIN Append(s, w) = DOMAIN s \cup {Len(s) + 1}
    BY <2>1, <2>2
  <2> QED
    BY <2>1, <2>2, <2>3 DEF Range
<1>2. ASSUME s # <<>>
      PROVE  /\ Head(s) \in Range(s) /\ Head(s) \in Workers
             /\ Tail(s) \in Seq(Workers) /\ Range(Tail(s)) \subseteq Range(s)
  <2>1. Len(s) \in Nat \ {0} /\ DOMAIN s = 1 .. Len(s)
    BY <1>2
  <2>2. Head(s) = s[1] /\ 1 \in DOMAIN s
    BY <2>1
  <2>3. Tail(s) \in Seq(Workers) /\ DOMAIN Tail(s) = 1 .. (Len(s) - 1)
    BY <1>2, <2>1
  <2>4. \A i \in DOMAIN Tail(s) : Tail(s)[i] = s[i + 1] /\ i + 1 \in DOMAIN s
    BY <1>2, <2>1, <2>3
  <2> QED
    BY <2>1, <2>2, <2>3, <2>4 DEF Range
<1> QED
  BY <1>1, <1>2

-----------------------------------------------------------------------------
(* Workers, the breaker and the tick, one change at a time                   *)

\* A Worker that is held, stopped or running is one.
LEMMA LivesAreKnown ==
    ASSUME TypeOK, NEW w \in Workers
    PROVE  /\ life[w] # Free => life[w] \in Lives
           /\ (life[w].held \/ life[w].stopping \/ life[w].state = "running") => life[w] \in Lives
           /\ Free \notin Lives
<1>1. life[w] \in Lives \/ life[w] = Free
  BY DEF TypeOK
<1>2. Free \notin Lives
  BY DEF Lives, Free
<1> QED
  BY <1>1, <1>2 DEF Free

\* What Settled makes of a life.
LEMMA SettledFacts ==
    ASSUME NEW w, NEW l
    PROVE  \/ Settled(w, l) = l
           \/ Settled(w, l) = Free /\ w \notin Range(exits') /\ w \notin tick'.dead
  BY DEF Settled

\* One life changes, and is not counted anew: nobody is forgotten that is still named,
\* and no Project gains a Worker.
LEMMA OneLifeChanges ==
    ASSUME TypeOK, NamedAreKnown,
           NEW w \in Workers, NEW l \in Lives, NEW m, life[w] \in Lives,
           l.proj = life[w].proj, l.asked = life[w].asked,
           (l.held /\ l.by # "unit") => (life[w].held /\ life[w].by # "unit"),
           m = l \/ (m = Free /\ w \notin Range(exits') /\ w \notin tick'.dead),
           life' = [life EXCEPT ![w] = m],
           Range(exits') \cup tick'.dead \subseteq Range(exits) \cup tick.dead \cup {w},
           Range(exits') \subseteq Workers, tick'.dead \subseteq Workers
    PROVE  /\ life' \in [Workers -> Lives \cup {Free}]
           /\ NamedAreKnown'
           /\ \A p \in Projects : Asked(p)' \subseteq Asked(p)
<1>1. life \in [Workers -> Lives \cup {Free}]
  BY DEF TypeOK
<1>2. life' \in [Workers -> Lives \cup {Free}]
  BY <1>1
<1>3. life'[w] = m /\ \A v \in Workers \ {w} : life'[v] = life[v]
  BY <1>1
<1>4. l # Free
  BY DEF Lives, Free
<1>5. NamedAreKnown'
  <2> SUFFICES ASSUME NEW v \in Range(exits') \cup tick'.dead
               PROVE  life'[v] # Free
    BY DEF NamedAreKnown
  <2>1. v \in Workers
    OBVIOUS
  <2>2. CASE v = w
    BY <1>3, <1>4, <2>2
  <2>3. CASE v # w
    <3>1. v \in Range(exits) \cup tick.dead
      BY <2>3
    <3> QED
      BY <1>3, <2>1, <2>3, <3>1 DEF NamedAreKnown
  <2> QED
    BY <2>2, <2>3
<1>6. ASSUME NEW p \in Projects, NEW v \in Workers,
             life'[v].held, life'[v].proj = p, life'[v].asked, life'[v].by # "unit"
      PROVE  life[v].held /\ life[v].proj = p /\ life[v].asked /\ life[v].by # "unit"
  <2>1. CASE v # w
    BY <1>3, <1>6, <2>1
  <2>2. CASE v = w /\ m = l
    BY <1>3, <1>6, <2>2
  <2>3. CASE v = w /\ m = Free
    BY <1>3, <1>6, <2>3 DEF Free
  <2> QED
    BY <2>1, <2>2, <2>3
<1>7. ASSUME NEW p \in Projects
      PROVE  Asked(p)' \subseteq Asked(p)
  BY <1>6 DEF Asked, Held
<1> QED
  BY <1>2, <1>5, <1>7

Health ==
    [streak : 0 .. Streak, latched : BOOLEAN, left : 0 .. Halt, probe : Workers \cup {NoWorker}]

\* An empty history is one.
LEMMA EmptyHealth == EMPTY_BIRTH_HEALTH \in Health
  BY ConstantFacts DEF Health, EMPTY_BIRTH_HEALTH, Halt

\* A death ends the probe, and a latch it leaves has its whole halt before it.
LEMMA FoldFacts ==
    ASSUME NEW h \in Health, NEW age, NEW reported \in BOOLEAN
    PROVE  /\ foldWorkerDeath(h, age, reported) \in Health
           /\ foldWorkerDeath(h, age, reported).probe = NoWorker
           /\ foldWorkerDeath(h, age, reported).latched
                 => foldWorkerDeath(h, age, reported).left # 0
<1> DEFINE s == IF h.streak < Streak THEN h.streak + 1 ELSE Streak
           short == [EMPTY_BIRTH_HEALTH EXCEPT !.streak = s]
           halt == [streak |-> s, latched |-> TRUE, left |-> Halt, probe |-> NoWorker]
           f == foldWorkerDeath(h, age, reported)
<1>1. s \in 0 .. Streak
  BY ConstantFacts DEF Health
<1>2. f = EMPTY_BIRTH_HEALTH \/ f = short \/ f = halt
  BY DEF foldWorkerDeath
<1> HIDE DEF s, f
<1>3. short \in Health /\ short.probe = EMPTY_BIRTH_HEALTH.probe
        /\ short.latched = EMPTY_BIRTH_HEALTH.latched
  BY <1>1, EmptyHealth DEF Health
<1>4. halt \in Health /\ halt.probe = NoWorker /\ halt.left # 0
  BY <1>1 DEF Health, Halt
<1>5. EMPTY_BIRTH_HEALTH.probe = NoWorker /\ ~EMPTY_BIRTH_HEALTH.latched
  BY DEF EMPTY_BIRTH_HEALTH
<1> HIDE DEF short, halt
<1>6. f \in Health /\ f.probe = NoWorker /\ (f.latched => f.left # 0)
  BY <1>2, <1>3, <1>4, <1>5, EmptyHealth
<1> QED
  BY <1>6 DEF f

\* A death is folded, and the tick drops a halt that it armed: the breakers stay
\* histories, no probe appears, and none becomes half-open.
LEMMA DeathFacts ==
    ASSUME TypeOK, NEW w \in Workers, life[w] \in Lives, NEW reported \in BOOLEAN,
           record(w, reported), NEW t \in Ticks, t.over = tick.over, tick' = Running(t)
    PROVE  /\ health' \in [Projects -> Health]
           /\ tick' \in Ticks
           /\ tick'.at = t.at /\ tick'.births = t.births /\ tick'.live = t.live
           /\ tick'.dead = t.dead
           /\ \A p \in Projects :
                /\ health[p].probe = NoWorker => health'[p].probe = NoWorker
                /\ health'[p].latched /\ p \in tick'.over => health[p].latched /\ p \in tick.over
<1> DEFINE q == life[w].proj
           h == foldWorkerDeath(health[q], life[w].age, reported)
<1>1. health \in [Projects -> Health]
  BY DEF TypeOK, Health
<1>2. q \in Projects
  BY DEF Lives
<1>3. h \in Health /\ h.probe = NoWorker /\ (h.latched => h.left # 0)
  BY <1>1, <1>2, FoldFacts
<1>4. health' = [health EXCEPT ![q] = h]
  BY <1>1, <1>2 DEF record
<1> HIDE DEF q, h
<1>5. health' \in [Projects -> Health]
  BY <1>1, <1>2, <1>3, <1>4
<1>6. health'[q] = h /\ \A p \in Projects \ {q} : health'[p] = health[p]
  BY <1>1, <1>2, <1>4
<1>7. /\ tick' \in Ticks
      /\ tick'.at = t.at /\ tick'.births = t.births /\ tick'.live = t.live
      /\ tick'.dead = t.dead
      /\ tick'.over = {p \in tick.over : health'[p].left = 0}
  BY DEF Running, Ticks
<1>8. ASSUME NEW p \in Projects
      PROVE  /\ health[p].probe = NoWorker => health'[p].probe = NoWorker
             /\ health'[p].latched /\ p \in tick'.over => health[p].latched /\ p \in tick.over
  BY <1>3, <1>6, <1>7
<1> QED
  BY <1>5, <1>7, <1>8

\* While a probe runs, its Project gains no Worker: SoleProbe, of one step.
ProbesStayAlone ==
    \A p \in Projects \ Prompted :
       (health[p].probe # NoWorker /\ health'[p].probe = health[p].probe)
          => Asked(p)' \subseteq Asked(p)

\* The Workers of a Project and its births are finitely many.
LEMMA CountsAreFinite ==
    ASSUME TypeOK, NEW p \in Projects
    PROVE  /\ IsFiniteSet(Asked(p)) /\ Cardinality(Asked(p)) \in Nat
           /\ IsFiniteSet(Wanting(p)) /\ Cardinality(Wanting(p)) \in Nat
           /\ IsFiniteSet(Due(p)) /\ Cardinality(Due(p)) \in Nat
<1>1. Asked(p) \subseteq Workers
  BY DEF Asked, Held
<1>2. IsFiniteSet(Asked(p))
  BY <1>1, ConstantFacts, FS_Subset
<1>3. tick.births \subseteq Births
  BY DEF TypeOK, Ticks
<1>4. Wanting(p) \subseteq {b \in Births : b[2] = p /\ b[1] <= MaxDepth}
  BY <1>3, ConstantFacts DEF Wanting, Births
<1>5. IsFiniteSet(Wanting(p))
  BY <1>4, ConstantFacts, RoundsAreFinite
<1>6. Due(p) \subseteq Wanting(p)
  BY DEF Due
<1>7. IsFiniteSet(Due(p))
  BY <1>5, <1>6, FS_Subset
<1> QED
  BY <1>2, <1>5, <1>7, FS_CardinalityType

\* A step that leaves the plan alone, gives no Project a Worker and no breaker a probe.
LEMMA PlanUntouched ==
    ASSUME LoopInv, TypeOK', NamedAreKnown', TurnsArePrompted',
           tick'.births = tick.births, tick'.at = tick.at, tick'.live = tick.live,
           \A p \in Projects \ Prompted : Asked(p)' \subseteq Asked(p),
           \A p \in Projects :
              /\ health[p].probe = NoWorker => health'[p].probe = NoWorker
              /\ health'[p].latched /\ p \in tick'.over => health[p].latched /\ p \in tick.over
    PROVE  LoopInv' /\ ProbesStayAlone
<1>1. PlanIsCurrent'
  BY DEF LoopInv, PlanIsCurrent
<1>2. \A p : Wanting(p)' = Wanting(p)
  BY DEF Wanting
<1>3. \A p : Due(p)' = Due(p)
  <2>1. NextBirth' = NextBirth
    BY DEF NextBirth
  <2> QED
    BY <1>2, <2>1 DEF Due
<1>4. PlanIsAlone'
  <2> SUFFICES ASSUME NEW b \in tick.births
               PROVE  /\ health'[b[2]].probe = NoWorker
                      /\ halfOpen(b[2], health[b[2]])' => Wanting(b[2])' = {b}
    BY DEF PlanIsAlone
  <2>1. b[2] \in Projects
    BY DEF LoopInv, TypeOK, Ticks, Births
  <2>2. health[b[2]].probe = NoWorker /\ (halfOpen(b[2], health[b[2]]) => Wanting(b[2]) = {b})
    BY DEF LoopInv, PlanIsAlone
  <2> QED
    BY <1>2, <2>1, <2>2 DEF halfOpen
<1>5. CountHolds'
  <2> SUFFICES ASSUME NEW p \in Projects \ Prompted
               PROVE  /\ tick'.at = "poll" => Cardinality(Asked(p)') <= tick'.live[p]
                      /\ Cardinality(Asked(p)') + Cardinality(Due(p)') <= Target
    BY DEF CountHolds
  <2> DEFINE A == Asked(p)
             B == Asked(p)'
  <2>1. /\ tick.at = "poll" => Cardinality(A) <= tick.live[p]
        /\ Cardinality(A) + Cardinality(Due(p)) <= Target
    BY DEF LoopInv, CountHolds
  <2>2. IsFiniteSet(A) /\ Cardinality(A) \in Nat /\ Cardinality(Due(p)) \in Nat
    BY CountsAreFinite DEF LoopInv
  <2>3. B \subseteq A
    OBVIOUS
  <2>4. tick.live[p] \in Nat
    <3>1. IsFiniteSet(Workers) /\ Cardinality(Workers) \in Nat
      BY ConstantFacts, FS_CardinalityType
    <3> QED
      BY <3>1 DEF LoopInv, TypeOK, Ticks
  <2> HIDE DEF A, B
  <2>5. Cardinality(B) <= Cardinality(A) /\ Cardinality(B) \in Nat
    BY <2>2, <2>3, FS_Subset, FS_CardinalityType
  <2>6. Due(p)' = Due(p)
    BY <1>3
  <2>7. /\ tick.at = "poll" => Cardinality(B) <= tick.live[p]
        /\ Cardinality(B) + Cardinality(Due(p)) <= Target
    BY <2>1, <2>2, <2>4, <2>5, ConstantFacts
  <2> QED
    BY <2>6, <2>7 DEF B
<1>6. ProbesStayAlone
  BY DEF ProbesStayAlone
<1> QED
  BY <1>1, <1>4, <1>5, <1>6 DEF LoopInv

-----------------------------------------------------------------------------
(* The steps beside the plan                                                 *)

\* The parts of the type invariant.
LEMMA Types ==
    ASSUME TypeOK
    PROVE  /\ health \in [Projects -> Health] /\ life \in [Workers -> Lives \cup {Free}]
           /\ exits \in Seq(Workers) /\ Range(exits) \subseteq Workers
           /\ tick \in Ticks /\ tick.dead \subseteq Workers /\ tick.births \subseteq Births
           /\ turns \in [Projects -> 0 .. MaxTurns]
<1>1. exits \in Seq(Workers)
  BY DEF TypeOK
<1>2. Range(exits) \subseteq Workers
  BY <1>1 DEF Range
<1> QED
  BY <1>1, <1>2 DEF TypeOK, Health, Ticks

\* A fault is counted up to its bound.
LEMMA FaultFacts ==
    ASSUME TypeOK, NEW x \in BOOLEAN, Fault(x)
    PROVE  faults' \in 0 .. MaxFaults
  BY ConstantFacts DEF TypeOK, Fault

\* A command is counted up to its bound.
LEMMA CommandFacts ==
    ASSUME TypeOK, Command
    PROVE  commands' \in 0 .. MaxCommands
  BY ConstantFacts DEF TypeOK, Command

\* An exit that is delivered is queued at most once more.
LEMMA DeliveredFacts ==
    ASSUME TypeOK, NEW w \in Workers, Delivered(w)
    PROVE  exits' \in Seq(Workers) /\ Range(exits') \subseteq Range(exits) \cup {w}
<1>1. exits \in Seq(Workers)
  BY Types
<1>2. Append(exits, w) \in Seq(Workers) /\ Range(Append(exits, w)) = Range(exits) \cup {w}
  BY <1>1, QueueFacts
<1> QED
  BY <1>1, <1>2 DEF Delivered

\* A Worker ends.
LEMMA EndsStep ==
    ASSUME LoopInv, NEW w \in Workers, Ends(w)
    PROVE  LoopInv' /\ ProbesStayAlone
<1>1. TypeOK /\ NamedAreKnown /\ TurnsArePrompted
  BY DEF LoopInv
<1>2. life[w] \in Lives
  BY <1>1, LivesAreKnown DEF Ends
<1> DEFINE l == [life[w] EXCEPT !.state = "ended", !.by = Unwatched(w)]
<1>3. Unwatched(w) \in {"child", "none", "unit"} /\ (Unwatched(w) = "unit" <=> life[w].by = "unit")
  BY <1>2 DEF Unwatched, Lives
<1>4. /\ l \in Lives /\ l.proj = life[w].proj /\ l.asked = life[w].asked
      /\ l.held = life[w].held /\ l.by = Unwatched(w)
  BY <1>2, <1>3 DEF Lives
<1>5. life' = [life EXCEPT ![w] = Settled(w, l)]
  BY <1>1, Types DEF Ends
<1>6. tick' = tick /\ health' = health /\ turns' = turns
  BY DEF Ends
<1>7. exits' \in Seq(Workers) /\ Range(exits') \subseteq Range(exits) \cup {w}
  BY <1>1, DeliveredFacts DEF Ends
<1> HIDE DEF l
<1>8. /\ life' \in [Workers -> Lives \cup {Free}]
      /\ NamedAreKnown'
      /\ \A p \in Projects : Asked(p)' \subseteq Asked(p)
  <2>1. Range(exits') \subseteq Workers /\ tick'.dead \subseteq Workers
    BY <1>1, <1>6, <1>7, Types
  <2>2. Range(exits') \cup tick'.dead \subseteq Range(exits) \cup tick.dead \cup {w}
    BY <1>6, <1>7
  <2> QED
    BY <1>1, <1>2, <1>3, <1>4, <1>5, <2>1, <2>2, SettledFacts, OneLifeChanges
<1>9. TypeOK'
  BY <1>1, <1>7, <1>8 DEF TypeOK, Ends
<1>10. TurnsArePrompted'
  BY <1>1, <1>6 DEF TurnsArePrompted
<1> QED
  BY <1>6, <1>8, <1>9, <1>10, PlanUntouched

\* The launch client of a unit ends.
LEMMA ClientEndsStep ==
    ASSUME LoopInv, NEW w \in Workers, ClientEnds(w)
    PROVE  LoopInv' /\ ProbesStayAlone
<1>1. TypeOK /\ NamedAreKnown /\ TurnsArePrompted
  BY DEF LoopInv
<1>2. life[w] \in Lives /\ Unwatched(w) = "none" /\ life[w].by = "child"
  BY <1>1, LivesAreKnown DEF ClientEnds, Unwatched
<1> DEFINE l == [life[w] EXCEPT !.by = "none"]
<1>4. /\ l \in Lives /\ l.proj = life[w].proj /\ l.asked = life[w].asked
      /\ l.held = life[w].held
  BY <1>2 DEF Lives
<1>5. life' = [life EXCEPT ![w] = l]
  BY <1>1, <1>2, Types DEF ClientEnds
<1>6. tick' = tick /\ health' = health /\ turns' = turns
  BY DEF ClientEnds
<1>7. exits' \in Seq(Workers) /\ Range(exits') \subseteq Range(exits) \cup {w}
  BY <1>1, DeliveredFacts DEF ClientEnds
<1> HIDE DEF l
<1>8. /\ life' \in [Workers -> Lives \cup {Free}]
      /\ NamedAreKnown'
      /\ \A p \in Projects : Asked(p)' \subseteq Asked(p)
  <2>1. Range(exits') \subseteq Workers /\ tick'.dead \subseteq Workers
    BY <1>1, <1>6, <1>7, Types
  <2>2. Range(exits') \cup tick'.dead \subseteq Range(exits) \cup tick.dead \cup {w}
    BY <1>6, <1>7
  <2> QED
    BY <1>1, <1>2, <1>4, <1>5, <2>1, <2>2, OneLifeChanges
<1>9. TypeOK'
  <2>1. faults' \in 0 .. MaxFaults
    BY <1>1, FaultFacts DEF ClientEnds
  <2> QED
    BY <1>1, <1>7, <1>8, <2>1 DEF TypeOK, ClientEnds
<1>10. TurnsArePrompted'
  BY <1>1, <1>6 DEF TurnsArePrompted
<1> QED
  BY <1>6, <1>8, <1>9, <1>10, PlanUntouched

\* A queued exit is resolved: an adoption, or a death.
LEMMA ResolveExitStep ==
    ASSUME LoopInv, ResolveExit
    PROVE  LoopInv' /\ ProbesStayAlone
<1> DEFINE w == Head(exits)
<1>1. TypeOK /\ NamedAreKnown /\ TurnsArePrompted
  BY DEF LoopInv
<1>2. /\ w \in Range(exits) /\ w \in Workers /\ exits' = Tail(exits)
      /\ exits' \in Seq(Workers) /\ Range(exits') \subseteq Range(exits)
  BY <1>1, Types, QueueFacts DEF ResolveExit
<1>3. life[w] \in Lives
  BY <1>1, <1>2, LivesAreKnown DEF NamedAreKnown
<1>4. turns' = turns /\ Range(exits') \subseteq Workers
  BY <1>1, <1>2, Types DEF ResolveExit
<1>5. TurnsArePrompted'
  BY <1>1, <1>4 DEF TurnsArePrompted
<1>6. CASE life[w].state = "running"
  <2> DEFINE l == [life[w] EXCEPT !.held = TRUE, !.by = "unit"]
  <2>1. l \in Lives /\ l.proj = life[w].proj /\ l.asked = life[w].asked /\ l.by = "unit"
    BY <1>3 DEF Lives
  <2>2. life' = [life EXCEPT ![w] = l] /\ tick' = tick /\ health' = health
    BY <1>1, <1>2, <1>6, Types DEF ResolveExit
  <2> HIDE DEF l, w
  <2>3. /\ life' \in [Workers -> Lives \cup {Free}]
        /\ NamedAreKnown'
        /\ \A p \in Projects : Asked(p)' \subseteq Asked(p)
    <3>1. tick'.dead \subseteq Workers
      BY <1>1, <2>2, Types
    <3>2. Range(exits') \cup tick'.dead \subseteq Range(exits) \cup tick.dead \cup {w}
      BY <1>2, <2>2
    <3> QED
      BY <1>1, <1>2, <1>3, <1>4, <2>1, <2>2, <3>1, <3>2, OneLifeChanges
  <2>4. TypeOK'
    BY <1>1, <1>2, <2>2, <2>3 DEF TypeOK, ResolveExit
  <2> QED
    BY <1>5, <2>2, <2>3, <2>4, PlanUntouched
<1>7. CASE life[w].state # "running"
  <2>1. PICK reported \in BOOLEAN : record(w, reported)
    BY <1>7 DEF ResolveExit
  <2>2. tick' = Running(tick)
    BY <1>7 DEF ResolveExit
  <2> DEFINE l == [life[w] EXCEPT !.held = FALSE]
  <2>3. l \in Lives /\ l.proj = life[w].proj /\ l.asked = life[w].asked /\ ~l.held
    BY <1>3 DEF Lives
  <2>4. life' = [life EXCEPT ![w] = Settled(w, l)]
    BY <1>1, <1>2, <1>7, Types DEF ResolveExit
  <2> HIDE DEF l, w
  <2>5. /\ health' \in [Projects -> Health]
        /\ tick' \in Ticks
        /\ tick'.at = tick.at /\ tick'.births = tick.births /\ tick'.live = tick.live
        /\ tick'.dead = tick.dead
        /\ \A p \in Projects :
             /\ health[p].probe = NoWorker => health'[p].probe = NoWorker
             /\ health'[p].latched /\ p \in tick'.over => health[p].latched /\ p \in tick.over
    <3>1. tick \in Ticks
      BY <1>1, Types
    <3> QED
      BY <1>1, <1>2, <1>3, <2>1, <2>2, <3>1, DeathFacts
  <2>6. /\ life' \in [Workers -> Lives \cup {Free}]
        /\ NamedAreKnown'
        /\ \A p \in Projects : Asked(p)' \subseteq Asked(p)
    <3>1. tick'.dead \subseteq Workers
      BY <1>1, <2>5, Types
    <3>2. Range(exits') \cup tick'.dead \subseteq Range(exits) \cup tick.dead \cup {w}
      BY <1>2, <2>5
    <3> QED
      BY <1>1, <1>2, <1>3, <1>4, <2>3, <2>4, <3>1, <3>2, SettledFacts, OneLifeChanges
  <2>7. TypeOK'
    BY <1>1, <1>2, <2>5, <2>6 DEF TypeOK, ResolveExit, Health
  <2> QED
    BY <1>5, <2>5, <2>6, <2>7, PlanUntouched
<1> QED
  BY <1>6, <1>7

\* A teardown begins.
LEMMA StopBeginsStep ==
    ASSUME LoopInv, NEW w \in Workers, StopBegins(w)
    PROVE  LoopInv' /\ ProbesStayAlone
<1>1. TypeOK /\ NamedAreKnown /\ TurnsArePrompted
  BY DEF LoopInv
<1>2. life[w] \in Lives
  BY <1>1, LivesAreKnown DEF StopBegins
<1> DEFINE l == [life[w] EXCEPT !.stopping = TRUE]
<1>3. /\ l \in Lives /\ l.proj = life[w].proj /\ l.asked = life[w].asked
      /\ l.held = life[w].held /\ l.by = life[w].by
  BY <1>2 DEF Lives
<1>4. life' = [life EXCEPT ![w] = l]
  BY <1>1, Types DEF StopBegins
<1>5. tick' = tick /\ health' = health /\ turns' = turns /\ exits' = exits
  BY DEF StopBegins
<1> HIDE DEF l
<1>6. /\ life' \in [Workers -> Lives \cup {Free}]
      /\ NamedAreKnown'
      /\ \A p \in Projects : Asked(p)' \subseteq Asked(p)
  <2>1. Range(exits') \subseteq Workers /\ tick'.dead \subseteq Workers
    BY <1>1, <1>5, Types
  <2>2. Range(exits') \cup tick'.dead \subseteq Range(exits) \cup tick.dead \cup {w}
    BY <1>5
  <2> QED
    BY <1>1, <1>2, <1>3, <1>4, <2>1, <2>2, OneLifeChanges
<1>7. TypeOK'
  <2>1. commands' \in 0 .. MaxCommands
    BY <1>1, CommandFacts DEF StopBegins
  <2> QED
    BY <1>1, <1>5, <1>6, <2>1 DEF TypeOK, StopBegins
<1>8. TurnsArePrompted'
  BY <1>1, <1>5 DEF TurnsArePrompted
<1> QED
  BY <1>5, <1>6, <1>7, <1>8, PlanUntouched

\* A Worker is given up, and its death folded, by a teardown or by the sweep.
LEMMA GivenUp ==
    ASSUME LoopInv, NEW w \in Workers, life[w] \in Lives, record(w, FALSE),
           NEW t \in Ticks, t.over = tick.over, t.dead \subseteq tick.dead, t.at = tick.at,
           t.births = tick.births, t.live = tick.live, tick' = Running(t),
           NEW l \in Lives, l.proj = life[w].proj, l.asked = life[w].asked, ~l.held,
           life' = [life EXCEPT ![w] = Settled(w, l)],
           faults' \in 0 .. MaxFaults,
           UNCHANGED <<registered, depth, backoff, exits, turns, commands>>
    PROVE  LoopInv' /\ ProbesStayAlone
<1>1. TypeOK /\ NamedAreKnown /\ TurnsArePrompted
  BY DEF LoopInv
<1>2. /\ health' \in [Projects -> Health]
      /\ tick' \in Ticks
      /\ tick'.at = tick.at /\ tick'.births = tick.births /\ tick'.live = tick.live
      /\ tick'.dead = t.dead
      /\ \A p \in Projects :
           /\ health[p].probe = NoWorker => health'[p].probe = NoWorker
           /\ health'[p].latched /\ p \in tick'.over => health[p].latched /\ p \in tick.over
  BY <1>1, DeathFacts
<1>3. /\ life' \in [Workers -> Lives \cup {Free}]
      /\ NamedAreKnown'
      /\ \A p \in Projects : Asked(p)' \subseteq Asked(p)
  <2>1. Range(exits') \subseteq Workers /\ tick'.dead \subseteq Workers
    BY <1>1, <1>2, Types
  <2>2. Range(exits') \cup tick'.dead \subseteq Range(exits) \cup tick.dead \cup {w}
    BY <1>2
  <2> QED
    BY <1>1, <2>1, <2>2, SettledFacts, OneLifeChanges
<1>4. TypeOK'
  BY <1>1, <1>2, <1>3 DEF TypeOK, Health
<1>5. TurnsArePrompted'
  BY <1>1 DEF TurnsArePrompted
<1> QED
  BY <1>2, <1>3, <1>4, <1>5, PlanUntouched

\* A teardown settles.
LEMMA StopSettlesStep ==
    ASSUME LoopInv, NEW w \in Workers, StopSettles(w)
    PROVE  LoopInv' /\ ProbesStayAlone
<1>1. TypeOK
  BY DEF LoopInv
<1>2. life[w] \in Lives
  BY <1>1, LivesAreKnown DEF StopSettles
<1> DEFINE l == [life[w] EXCEPT !.held = FALSE, !.stopping = FALSE]
<1>3. l \in Lives /\ l.proj = life[w].proj /\ l.asked = life[w].asked /\ ~l.held
  BY <1>2 DEF Lives
<1>4. life' = [life EXCEPT ![w] = Settled(w, l)]
  BY <1>1, Types DEF StopSettles
<1>5. faults' \in 0 .. MaxFaults
  BY <1>1, FaultFacts DEF StopSettles
<1>6. /\ record(w, FALSE) /\ tick' = Running(tick)
      /\ UNCHANGED <<registered, depth, backoff, exits, turns, commands>>
  BY DEF StopSettles
<1>7. tick \in Ticks
  BY <1>1, Types
<1> HIDE DEF l
<1> QED
  BY <1>2, <1>3, <1>4, <1>5, <1>6, <1>7, GivenUp

\* The sweep retires a Worker.
LEMMA TickRetiresStep ==
    ASSUME LoopInv, TickRetires
    PROVE  LoopInv' /\ ProbesStayAlone
<1>1. TypeOK /\ NamedAreKnown
  BY DEF LoopInv
<1>2. PICK w \in tick.dead :
        /\ record(w, FALSE)
        /\ UNCHANGED exits
        /\ tick' = Running([tick EXCEPT !.dead = @ \ {w}])
        /\ life' = [life EXCEPT ![w] = Settled(w, [@ EXCEPT !.held = FALSE])]
        /\ UNCHANGED <<registered, depth, backoff, turns, faults, commands>>
  BY DEF TickRetires
<1>3. w \in Workers /\ life[w] \in Lives
  BY <1>1, Types, LivesAreKnown DEF NamedAreKnown
<1> DEFINE l == [life[w] EXCEPT !.held = FALSE]
           t == [tick EXCEPT !.dead = tick.dead \ {w}]
<1>4. l \in Lives /\ l.proj = life[w].proj /\ l.asked = life[w].asked /\ ~l.held
  BY <1>3 DEF Lives
<1>5. life' = [life EXCEPT ![w] = Settled(w, l)]
  BY <1>1, <1>2, <1>3, Types
<1>6. /\ t \in Ticks /\ t.over = tick.over /\ t.dead \subseteq tick.dead /\ t.at = tick.at
      /\ t.births = tick.births /\ t.live = tick.live
  BY <1>1, Types DEF Ticks
<1>7. faults' \in 0 .. MaxFaults
  BY <1>1, <1>2 DEF TypeOK
<1>8. tick' = Running(t)
  BY <1>2
<1> HIDE DEF l, t
<1> QED
  BY <1>2, <1>3, <1>4, <1>5, <1>6, <1>7, <1>8, GivenUp

\* A Worker is started: its id was free, and its Project has it if the loop asked.
LEMMA StartFacts ==
    ASSUME TypeOK, NamedAreKnown, NEW w \in Workers, NEW q \in Projects, NEW asked \in BOOLEAN,
           Start(w, q, asked), exits' = exits, tick'.dead = tick.dead
    PROVE  /\ life' \in [Workers -> Lives \cup {Free}]
           /\ NamedAreKnown'
           /\ \A p \in Projects : (p # q \/ ~asked) => Asked(p)' \subseteq Asked(p)
           /\ Asked(q)' \subseteq Asked(q) \cup {w}
<1> DEFINE l == [state |-> "running", proj |-> q, age |-> 0, held |-> TRUE, by |-> "child",
                 stopping |-> FALSE, asked |-> asked]
<1>1. life \in [Workers -> Lives \cup {Free}]
  BY Types
<1>2. l \in Lives /\ l # Free /\ l.proj = q /\ l.asked = asked
  BY DEF Lives, Free, ShortLife
<1>3. life' = [life EXCEPT ![w] = l]
  BY DEF Start
<1> HIDE DEF l
<1>4. life' \in [Workers -> Lives \cup {Free}]
  BY <1>1, <1>2, <1>3
<1>5. life'[w] = l /\ \A v \in Workers \ {w} : life'[v] = life[v]
  BY <1>1, <1>3
<1>6. NamedAreKnown'
  <2>1. \A v \in Range(exits) \cup tick.dead : v \in Workers /\ life[v] # Free
    BY Types DEF NamedAreKnown
  <2> QED
    BY <1>2, <1>5, <2>1 DEF NamedAreKnown
<1>7. ASSUME NEW p \in Projects, p # q \/ ~asked
      PROVE  Asked(p)' \subseteq Asked(p)
  BY <1>2, <1>5, <1>7 DEF Asked, Held
<1>8. Asked(q)' \subseteq Asked(q) \cup {w}
  BY <1>2, <1>5 DEF Asked, Held
<1> QED
  BY <1>4, <1>6, <1>7, <1>8

\* An unattended turn reaches its admission.
LEMMA TurnStartsStep ==
    ASSUME LoopInv, NEW q \in Projects, TurnStarts(q)
    PROVE  LoopInv' /\ ProbesStayAlone
<1>1. TypeOK /\ NamedAreKnown /\ TurnsArePrompted
  BY DEF LoopInv
<1>2. turns \in [Projects -> 0 .. MaxTurns]
  BY <1>1, Types
<1>3. /\ turns[q] > 0 /\ turns' = [turns EXCEPT ![q] = @ - 1]
      /\ tick' = tick /\ exits' = exits /\ health' = health
      /\ UNCHANGED <<registered, depth, backoff, faults, commands>>
  BY DEF TurnStarts
<1>4. q \in Prompted
  BY <1>1, <1>3 DEF TurnsArePrompted
<1>5. turns' \in [Projects -> 0 .. MaxTurns] /\ TurnsArePrompted'
  <2>1. turns' \in [Projects -> 0 .. MaxTurns]
    BY <1>2, <1>3, ConstantFacts
  <2> QED
    BY <1>1, <1>2, <1>3, <1>4, <2>1 DEF TurnsArePrompted
<1>6. /\ life' \in [Workers -> Lives \cup {Free}]
      /\ NamedAreKnown'
      /\ \A p \in Projects \ Prompted : Asked(p)' \subseteq Asked(p)
  <2>1. CASE \E w \in Workers : Start(w, q, TRUE)
    BY <1>1, <1>3, <1>4, <2>1, StartFacts
  <2>2. CASE life' = life
    BY <1>1, <1>3, <2>2, Types DEF NamedAreKnown, Asked, Held
  <2> QED
    BY <2>1, <2>2 DEF TurnStarts
<1>7. TypeOK'
  BY <1>1, <1>3, <1>5, <1>6 DEF TypeOK
<1> QED
  BY <1>3, <1>5, <1>6, <1>7, PlanUntouched

\* A client starts a Worker, which the loop did not ask for.
LEMMA ClientStartsStep ==
    ASSUME LoopInv, NEW q \in Projects, ClientStarts(q)
    PROVE  LoopInv' /\ ProbesStayAlone
<1>1. TypeOK /\ NamedAreKnown /\ TurnsArePrompted
  BY DEF LoopInv
<1>2. /\ tick' = tick /\ exits' = exits /\ health' = health /\ turns' = turns
      /\ UNCHANGED <<registered, depth, backoff, faults>>
  BY DEF ClientStarts
<1>3. commands' \in 0 .. MaxCommands
  BY <1>1, CommandFacts DEF ClientStarts
<1>4. PICK w \in Workers : Start(w, q, FALSE)
  BY DEF ClientStarts
<1>5. /\ life' \in [Workers -> Lives \cup {Free}]
      /\ NamedAreKnown'
      /\ \A p \in Projects : Asked(p)' \subseteq Asked(p)
  BY <1>1, <1>2, <1>4, StartFacts
<1>6. TypeOK'
  BY <1>1, <1>2, <1>3, <1>5 DEF TypeOK
<1>7. TurnsArePrompted'
  BY <1>1, <1>2 DEF TurnsArePrompted
<1> QED
  BY <1>2, <1>5, <1>6, <1>7, PlanUntouched

\* An operator resets a breaker.
LEMMA ResetStep ==
    ASSUME LoopInv, NEW q \in Projects, resetProjectBirthBreaker(q)
    PROVE  LoopInv' /\ ProbesStayAlone
<1>1. TypeOK /\ NamedAreKnown /\ TurnsArePrompted
  BY DEF LoopInv
<1>2. /\ tick' = tick /\ exits' = exits /\ life' = life /\ turns' = turns
      /\ health' = [health EXCEPT ![q] = EMPTY_BIRTH_HEALTH]
      /\ UNCHANGED <<registered, depth, backoff, faults>>
  BY DEF resetProjectBirthBreaker
<1>3. commands' \in 0 .. MaxCommands
  BY <1>1, CommandFacts DEF resetProjectBirthBreaker
<1>4. health' \in [Projects -> Health]
  BY <1>1, <1>2, Types, EmptyHealth
<1>5. \A p \in Projects :
         /\ health[p].probe = NoWorker => health'[p].probe = NoWorker
         /\ health'[p].latched => health[p].latched
  BY <1>1, <1>2, Types DEF EMPTY_BIRTH_HEALTH
<1>6. TypeOK'
  BY <1>1, <1>2, <1>3, <1>4 DEF TypeOK, Health
<1>7. TurnsArePrompted' /\ NamedAreKnown' /\ \A p : Asked(p)' = Asked(p)
  BY <1>1, <1>2 DEF TurnsArePrompted, NamedAreKnown, Asked, Held
<1> QED
  BY <1>2, <1>5, <1>6, <1>7, PlanUntouched

\* A Project is registered or deregistered, or its queue polled.
LEMMA OutsideStep ==
    ASSUME LoopInv,
           \/ PollTimer
           \/ \E q \in Projects : registerProject(q) \/ deregisterProject(q)
    PROVE  LoopInv' /\ ProbesStayAlone
<1>1. TypeOK /\ NamedAreKnown /\ TurnsArePrompted
  BY DEF LoopInv
<1>2. UNCHANGED <<health, backoff, life, exits, turns, tick, faults>>
  BY DEF PollTimer, registerProject, deregisterProject
<1>3. TypeOK'
  <2>1. CASE PollTimer
    BY <1>1, <2>1 DEF TypeOK, PollTimer, pollQueueDiscovery
  <2>2. CASE \E q \in Projects : registerProject(q) \/ deregisterProject(q)
    <3>1. commands' \in 0 .. MaxCommands
      BY <1>1, <2>2, CommandFacts DEF registerProject, deregisterProject
    <3>2. registered' \subseteq Projects /\ depth' = depth
      BY <1>1, <2>2 DEF TypeOK, registerProject, deregisterProject
    <3> QED
      BY <1>1, <1>2, <3>1, <3>2 DEF TypeOK
  <2> QED
    BY <2>1, <2>2
<1>4. TurnsArePrompted' /\ NamedAreKnown' /\ \A p : Asked(p)' = Asked(p)
  BY <1>1, <1>2 DEF TurnsArePrompted, NamedAreKnown, Asked, Held
<1> QED
  BY <1>2, <1>3, <1>4, PlanUntouched

\* Time passes: lives age, halts and the backoff run out.
LEMMA TimeStep ==
    ASSUME LoopInv, Time
    PROVE  LoopInv' /\ ProbesStayAlone
<1>1. TypeOK /\ NamedAreKnown /\ TurnsArePrompted
  BY DEF LoopInv
<1>2. UNCHANGED <<registered, depth, exits, turns, tick, faults, commands>>
  BY DEF Time
<1>3. ASSUME NEW v \in Workers
      PROVE  /\ life[v] = Free => life'[v] = Free
             /\ life[v] # Free => /\ life'[v] \in Lives
                                  /\ life'[v].held = life[v].held
                                  /\ life'[v].proj = life[v].proj
                                  /\ life'[v].asked = life[v].asked
                                  /\ life'[v].by = life[v].by
  <2>1. life'[v] = IF life[v] # Free /\ life[v].age < ShortLife
                     THEN [life[v] EXCEPT !.age = @ + 1] ELSE life[v]
    BY DEF Time
  <2>2. CASE life[v] = Free
    BY <2>1, <2>2
  <2>3. CASE life[v] # Free
    <3>1. life[v] \in Lives
      BY <1>1, <2>3, LivesAreKnown
    <3>2. CASE life[v].age < ShortLife
      <4>1. life'[v] = [life[v] EXCEPT !.age = life[v].age + 1]
        BY <2>1, <2>3, <3>2
      <4>2. life[v].age + 1 \in 0 .. ShortLife
        BY <3>1, <3>2 DEF Lives, ShortLife
      <4> QED
        BY <2>3, <3>1, <4>1, <4>2 DEF Lives
    <3>3. CASE ~(life[v].age < ShortLife)
      BY <2>1, <2>3, <3>1, <3>3
    <3> QED
      BY <3>2, <3>3
  <2> QED
    BY <2>2, <2>3
<1>4. life' \in [Workers -> Lives \cup {Free}]
  <2>1. life' = [v \in Workers |-> life'[v]]
    BY DEF Time
  <2>2. \A v \in Workers : life'[v] \in Lives \cup {Free}
    BY <1>3
  <2> QED
    BY <2>1, <2>2
<1>5. Free \notin Lives
  BY DEF Lives, Free
<1>6. NamedAreKnown'
  <2>1. \A v \in Range(exits) \cup tick.dead : v \in Workers /\ life[v] # Free
    BY <1>1, Types DEF NamedAreKnown
  <2> QED
    BY <1>2, <1>3, <1>5, <2>1 DEF NamedAreKnown
<1>7. \A p : Asked(p)' = Asked(p)
  <2>1. \A v \in Workers : life'[v].held = life[v].held
    BY <1>3
  <2> QED
    BY <1>3, <2>1 DEF Asked, Held, Free
<1>8. /\ health' \in [Projects -> Health]
      /\ \A p \in Projects :
           health'[p].probe = health[p].probe /\ health'[p].latched = health[p].latched
  <2>1. health \in [Projects -> Health]
    BY <1>1, Types
  <2>2. ASSUME NEW p \in Projects
        PROVE  /\ health'[p] \in Health /\ health'[p].probe = health[p].probe
               /\ health'[p].latched = health[p].latched
    <3>1. PICK n : n = Less(health[p].left)
      OBVIOUS
    <3>2. n \in 0 .. Halt
      BY <2>1, <3>1 DEF Less, Health, Halt
    <3>3. health'[p] = [health[p] EXCEPT !.left = n]
      BY <3>1 DEF Time
    <3> QED
      BY <2>1, <3>2, <3>3 DEF Health
  <2>3. health' = [p \in Projects |-> health'[p]]
    BY DEF Time
  <2> QED
    BY <2>2, <2>3
<1>9. TypeOK'
  <2>1. backoff' \in 0 .. Backoff
    BY <1>1 DEF Time, Less, TypeOK, Backoff
  <2> QED
    BY <1>1, <1>2, <1>4, <1>8, <2>1 DEF TypeOK, Health
<1>10. TurnsArePrompted'
  BY <1>1, <1>2 DEF TurnsArePrompted
<1> QED
  BY <1>2, <1>6, <1>7, <1>8, <1>9, <1>10, PlanUntouched

-----------------------------------------------------------------------------
(* The steps of a tick                                                       *)

\* An idle tick is one.
LEMMA IdleIsATick ==
    /\ Idle \in Ticks /\ Idle.births = {} /\ Idle.at = "idle" /\ Idle.dead = {}
    /\ Cardinality(Workers) \in Nat
<1>1. Cardinality(Workers) \in Nat
  BY ConstantFacts, FS_CardinalityType
<1>2. [p \in Projects |-> 0] \in [Projects -> 0 .. Cardinality(Workers)]
  BY <1>1
<1> QED
  BY <1>1, <1>2 DEF Idle, Ticks

\* A step after which the tick has no plan, and no Project a Worker more.
LEMMA NoPlan ==
    ASSUME LoopInv, TypeOK', NamedAreKnown', TurnsArePrompted',
           tick'.births = {}, tick'.at \notin {"birth", "grant"},
           \A p \in Projects \ Prompted : Asked(p)' \subseteq Asked(p),
           tick'.at = "poll" =>
              \A p \in Projects \ Prompted : Cardinality(Asked(p)') <= tick'.live[p]
    PROVE  LoopInv' /\ ProbesStayAlone
<1>1. PlanIsCurrent' /\ PlanIsAlone'
  BY DEF PlanIsCurrent, PlanIsAlone
<1>2. CountHolds'
  <2> SUFFICES ASSUME NEW p \in Projects \ Prompted
               PROVE  /\ tick'.at = "poll" => Cardinality(Asked(p)') <= tick'.live[p]
                      /\ Cardinality(Asked(p)') + Cardinality(Due(p)') <= Target
    BY DEF CountHolds
  <2> DEFINE A == Asked(p)
             B == Asked(p)'
  <2>1. Cardinality(A) + Cardinality(Due(p)) <= Target
    BY DEF LoopInv, CountHolds
  <2>2. IsFiniteSet(A) /\ Cardinality(A) \in Nat /\ Cardinality(Due(p)) \in Nat
    BY CountsAreFinite DEF LoopInv
  <2>3. B \subseteq A
    OBVIOUS
  <2>4. Due(p)' = {}
    BY DEF Due, Wanting
  <2>5. Cardinality(Due(p)') = 0
    BY <2>4, FS_EmptySet
  <2> HIDE DEF A, B
  <2>6. Cardinality(B) <= Cardinality(A) /\ Cardinality(B) \in Nat
    BY <2>2, <2>3, FS_Subset, FS_CardinalityType
  <2>7. Cardinality(B) + 0 <= Target
    BY <2>1, <2>2, <2>6, ConstantFacts
  <2> QED
    BY <2>5, <2>7 DEF B
<1>3. ProbesStayAlone
  BY DEF ProbesStayAlone
<1> QED
  BY <1>1, <1>2, <1>3 DEF LoopInv

\* A tick begins: what its sweep condemns is held.
LEMMA TickBeginsStep ==
    ASSUME LoopInv, TickBegins
    PROVE  LoopInv' /\ ProbesStayAlone
<1>1. TypeOK /\ NamedAreKnown /\ TurnsArePrompted
  BY DEF LoopInv
<1>2. UNCHANGED <<registered, depth, health, backoff, life, exits, turns, commands>>
  BY DEF TickBegins
<1>3. PICK unread \in {{}} \cup {{w} : w \in {v \in Judged : life[v].state = "running"}} :
         /\ Fault(unread # {})
         /\ tick' = [Idle EXCEPT
              !.at = "sweep",
              !.over = {p \in Projects : health[p].latched /\ health[p].left = 0},
              !.survived = {p \in Projects : \E w \in Held :
                              health[p].probe = w /\ life[w].age = ShortLife},
              !.holding = backoff > 0,
              !.dead = {w \in Judged : life[w].state = "ended"} \cup unread]
  BY DEF TickBegins
<1>4. faults' \in 0 .. MaxFaults
  BY <1>1, <1>3, FaultFacts
<1>5. \A w \in Judged : w \in Workers /\ life[w] # Free
  BY DEF Judged, Held, Free
<1>6. PICK over, survived, dead :
        /\ over \subseteq Projects /\ survived \subseteq Projects /\ dead \subseteq Judged
        /\ tick' = [Idle EXCEPT !.at = "sweep", !.over = over, !.survived = survived,
                                !.holding = backoff > 0, !.dead = dead]
  <2>1. unread \subseteq Judged
    OBVIOUS
  <2> QED
    BY <1>3, <2>1
<1>7. (backoff > 0) \in BOOLEAN
  BY <1>1 DEF TypeOK, Backoff
<1>8. /\ tick' \in Ticks /\ tick'.births = {} /\ tick'.at = "sweep" /\ tick'.dead = dead
  <2>1. dead \subseteq Workers
    BY <1>5, <1>6
  <2> QED
    BY <1>6, <1>7, <2>1, IdleIsATick DEF Ticks
<1>9. TypeOK'
  BY <1>1, <1>2, <1>4, <1>8 DEF TypeOK
<1>10. NamedAreKnown'
  BY <1>1, <1>2, <1>5, <1>6, <1>8 DEF NamedAreKnown
<1>11. TurnsArePrompted' /\ \A p : Asked(p)' = Asked(p)
  BY <1>1, <1>2 DEF TurnsArePrompted, Asked, Held
<1> QED
  BY <1>8, <1>9, <1>10, <1>11, NoPlan

\* The tick ends.
LEMMA OverStep ==
    ASSUME LoopInv, Over, life' = life, exits' = exits, turns' \in [Projects -> 0 .. MaxTurns],
           TurnsArePrompted', health' \in [Projects -> Health], backoff' \in 0 .. Backoff,
           depth' \in [Projects -> 0 .. MaxDepth], faults' \in 0 .. MaxFaults,
           UNCHANGED <<registered, commands>>
    PROVE  LoopInv' /\ ProbesStayAlone
<1>1. TypeOK /\ NamedAreKnown
  BY DEF LoopInv
<1>2. tick' \in Ticks /\ tick'.births = {} /\ tick'.at = "idle" /\ tick'.dead = {}
  BY IdleIsATick DEF Over
<1>3. TypeOK'
  BY <1>1, <1>2 DEF TypeOK, Health
<1>4. NamedAreKnown'
  BY <1>1, <1>2 DEF NamedAreKnown
<1>5. \A p : Asked(p)' = Asked(p)
  BY DEF Asked, Held
<1> QED
  BY <1>2, <1>3, <1>4, <1>5, NoPlan

\* The living are counted: who is left of them later was counted now.
LEMMA TickCountsStep ==
    ASSUME LoopInv, TickCounts
    PROVE  LoopInv' /\ ProbesStayAlone
<1>1. TypeOK /\ NamedAreKnown /\ TurnsArePrompted /\ PlanIsCurrent
  BY DEF LoopInv
<1>2. /\ UNCHANGED <<registered, depth, backoff, life, exits, turns, faults, commands>>
      /\ health' = closeProbes /\ tick.at = "sweep"
  BY DEF TickCounts
<1>3. health' \in [Projects -> Health]
  BY <1>1, <1>2, Types, EmptyHealth DEF closeProbes
<1>4. TurnsArePrompted' /\ \A p : Asked(p)' = Asked(p)
  BY <1>1, <1>2 DEF TurnsArePrompted, Asked, Held
<1>5. CASE Over
  BY <1>1, <1>2, <1>3, <1>4, <1>5, OverStep DEF TypeOK
<1>6. CASE tick' = [tick EXCEPT !.at = "poll", !.live = liveCount, !.survived = {}]
  <2>1. ASSUME NEW p \in Projects
        PROVE  /\ liveCount[p] \in 0 .. Cardinality(Workers)
               /\ Cardinality(Asked(p)) <= liveCount[p]
    <3> DEFINE A == Asked(p)
               B == {w \in Held : life[w].proj = p}
    <3>1. A \subseteq B /\ B \subseteq Workers
      BY DEF Asked, Held
    <3>2. liveCount[p] = Cardinality(B)
      BY DEF liveCount
    <3> HIDE DEF A, B
    <3>3. IsFiniteSet(Workers)
      BY ConstantFacts
    <3>4. IsFiniteSet(B) /\ Cardinality(B) <= Cardinality(Workers)
      BY <3>1, <3>3, FS_Subset
    <3>5. Cardinality(A) <= Cardinality(B)
      BY <3>1, <3>4, FS_Subset
    <3>6. Cardinality(B) \in Nat /\ Cardinality(Workers) \in Nat
      BY <3>3, <3>4, FS_CardinalityType
    <3>7. Cardinality(Asked(p)) <= Cardinality(B)
      BY <3>5 DEF A
    <3> QED
      BY <3>2, <3>4, <3>6, <3>7
  <2>2. liveCount \in [Projects -> 0 .. Cardinality(Workers)]
    <3>1. liveCount = [p \in Projects |-> liveCount[p]]
      BY DEF liveCount
    <3> QED
      BY <2>1, <3>1
  <2>3. /\ tick' \in Ticks /\ tick'.at = "poll" /\ tick'.births = tick.births
        /\ tick'.dead = tick.dead /\ tick'.live = liveCount
    <3>1. tick \in Ticks
      BY <1>1, Types
    <3> QED
      BY <1>6, <2>2, <3>1 DEF Ticks
  <2>4. tick'.births = {}
    BY <1>1, <1>2, <2>3 DEF PlanIsCurrent
  <2>5. TypeOK'
    BY <1>1, <1>2, <1>3, <2>3 DEF TypeOK, Health
  <2>6. NamedAreKnown'
    BY <1>1, <1>2, <2>3 DEF NamedAreKnown
  <2>7. \A p \in Projects \ Prompted : Cardinality(Asked(p)') <= tick'.live[p]
    BY <1>4, <2>1, <2>3
  <2> QED
    BY <1>4, <2>3, <2>4, <2>5, <2>6, <2>7, NoPlan
<1> QED
  BY <1>5, <1>6 DEF TickCounts

\* What the planner asks for a Project: no more than it wants, nothing while it has a
\* probe, and one when it is half-open.
LEMMA PlanFacts ==
    ASSUME TypeOK, NEW q \in [Projects -> 0 .. MaxDepth], NEW p \in Projects,
           tick.live[p] \in Nat
    PROVE  LET S == {b \in planHostDemand(health, tick.live, q) : b[2] = p} IN
             /\ Cardinality(S) \in Nat
             /\ Cardinality(S) <= IF Target > tick.live[p] THEN Target - tick.live[p] ELSE 0
             /\ S # {} => health[p].probe = NoWorker
             /\ halfOpen(p, health[p]) => \A b \in S : S = {b}
<1> DEFINE S == {b \in planHostDemand(health, tick.live, q) : b[2] = p}
           n == admitted(p, health[p], tick.live[p], q[p])
           room == IF Target > tick.live[p] THEN Target - tick.live[p] ELSE 0
<1>1. wanted(tick.live[p], q[p]) \in Nat /\ wanted(tick.live[p], q[p]) <= room
  BY ConstantFacts DEF wanted
<1>2. /\ n \in Nat /\ n <= room
      /\ n # 0 => health[p].probe = NoWorker
      /\ halfOpen(p, health[p]) => n <= 1
  BY <1>1, ConstantFacts DEF admitted, Withheld
<1>3. room \in Nat
  BY ConstantFacts
<1>4. S = {b \in Births : b[2] = p /\ b[1] <= n}
  BY DEF planHostDemand
<1> HIDE DEF n, room
<1>5. Cardinality(S) \in Nat /\ Cardinality(S) <= n
  BY <1>2, <1>4, RoundsAreFinite
<1>6. ASSUME NEW b \in S
      PROVE  b = <<b[1], p>> /\ b[1] \in Nat /\ b[1] >= 1 /\ b[1] <= n
  BY <1>4, ConstantFacts DEF Births
<1>7. S # {} => n # 0
  BY <1>2, <1>6
<1>8. n <= 1 => \A b \in S : S = {b}
  <2> SUFFICES ASSUME n <= 1, NEW b \in S, NEW c \in S
               PROVE  c = b
    OBVIOUS
  <2>1. b[1] = 1 /\ c[1] = 1
    BY <1>2, <1>6
  <2> QED
    BY <1>6, <2>1
<1>9. Cardinality(S) <= room
  BY <1>2, <1>3, <1>5
<1> QED
  BY <1>2, <1>5, <1>7, <1>8, <1>9 DEF room

\* The queue is polled again and the plan made: it fits beside what is left of the
\* Workers the tick counted.
LEMMA TickPollsStep ==
    ASSUME LoopInv, TickPolls
    PROVE  LoopInv' /\ ProbesStayAlone
<1>1. TypeOK /\ NamedAreKnown /\ TurnsArePrompted /\ CountHolds
  BY DEF LoopInv
<1>2. /\ UNCHANGED <<registered, health, backoff, life, exits, turns, commands>>
      /\ tick.at = "poll"
  BY DEF TickPolls
<1>3. TurnsArePrompted' /\ \A p : Asked(p)' = Asked(p)
  BY <1>1, <1>2 DEF TurnsArePrompted, Asked, Held
<1>4. depth' \in [Projects -> 0 .. MaxDepth] /\ faults' \in 0 .. MaxFaults
  <2>1. CASE pollQueueDiscovery /\ UNCHANGED faults
    BY <1>1, <2>1 DEF pollQueueDiscovery, TypeOK
  <2>2. CASE Fault(TRUE) /\ UNCHANGED depth
    BY <1>1, <2>2, FaultFacts DEF TypeOK
  <2> QED
    BY <2>1, <2>2 DEF TickPolls
<1>5. CASE Over
  BY <1>1, <1>2, <1>3, <1>4, <1>5, OverStep DEF TypeOK, Health
<1> DEFINE plan == planHostDemand(health, tick.live, depth')
<1>6. CASE plan # {} /\ tick' = [tick EXCEPT !.at = "birth", !.births = plan]
  <2>1. plan \subseteq Births
    BY DEF planHostDemand
  <2>2. /\ tick' \in Ticks /\ tick'.at = "birth" /\ tick'.births = plan
        /\ tick'.dead = tick.dead /\ tick'.over = tick.over
    <3>1. tick \in Ticks
      BY <1>1, Types
    <3> HIDE DEF plan
    <3> QED
      BY <1>6, <2>1, <3>1 DEF Ticks
  <2>3. \A p \in Projects : tick.live[p] \in Nat
    BY <1>1, IdleIsATick DEF TypeOK, Ticks
  <2>4. \A p : Wanting(p)' = {b \in plan : b[2] = p}
    BY <2>2 DEF Wanting
  <2>5. ASSUME NEW p \in Projects
        PROVE  /\ Cardinality(Wanting(p)') \in Nat
               /\ Cardinality(Wanting(p)')
                    <= IF Target > tick.live[p] THEN Target - tick.live[p] ELSE 0
               /\ Wanting(p)' # {} => health[p].probe = NoWorker
               /\ halfOpen(p, health[p]) => \A b \in Wanting(p)' : Wanting(p)' = {b}
    BY <1>1, <1>4, <2>3, <2>4, PlanFacts
  <2>6. TypeOK'
    BY <1>1, <1>2, <1>4, <2>2 DEF TypeOK
  <2>7. NamedAreKnown'
    BY <1>1, <1>2, <2>2 DEF NamedAreKnown
  <2>8. PlanIsCurrent'
    BY <1>6, <2>2 DEF PlanIsCurrent
  <2>9. PlanIsAlone'
    <3> SUFFICES ASSUME NEW b \in plan
                 PROVE  /\ health'[b[2]].probe = NoWorker
                        /\ halfOpen(b[2], health[b[2]])' => Wanting(b[2])' = {b}
      BY <2>2 DEF PlanIsAlone
    <3>1. b[2] \in Projects /\ b \in Wanting(b[2])'
      BY <2>1, <2>4 DEF Births
    <3>2. halfOpen(b[2], health[b[2]])' = halfOpen(b[2], health[b[2]])
      BY <1>2, <2>2 DEF halfOpen
    <3> QED
      BY <1>2, <2>5, <3>1, <3>2
  <2>10. CountHolds'
    <3> SUFFICES ASSUME NEW p \in Projects \ Prompted
                 PROVE  Cardinality(Asked(p)') + Cardinality(Due(p)') <= Target
      BY <2>2 DEF CountHolds
    <3>1. Due(p)' = Wanting(p)'
      BY <2>2 DEF Due
    <3>2. Asked(p)' = Asked(p)
      BY <1>3
    <3>3. /\ Cardinality(Asked(p)) <= tick.live[p]
          /\ Cardinality(Asked(p)) + Cardinality(Due(p)) <= Target
      BY <1>1, <1>2 DEF CountHolds
    <3>4. Cardinality(Asked(p)) \in Nat /\ Cardinality(Due(p)) \in Nat
      BY <1>1, CountsAreFinite
    <3> DEFINE a == Cardinality(Asked(p))
               d == Cardinality(Wanting(p)')
    <3>5. d \in Nat /\ d <= IF Target > tick.live[p] THEN Target - tick.live[p] ELSE 0
      BY <2>5
    <3>6. a \in Nat /\ a <= tick.live[p] /\ a <= Target
      BY <3>3, <3>4, ConstantFacts
    <3>7. tick.live[p] \in Nat
      BY <2>3
    <3> HIDE DEF a, d
    <3>8. a + d <= Target
      BY <3>5, <3>6, <3>7, ConstantFacts
    <3> QED
      BY <3>1, <3>2, <3>8 DEF a, d
  <2>11. ProbesStayAlone
    BY <1>3 DEF ProbesStayAlone
  <2> QED
    BY <1>3, <2>6, <2>7, <2>8, <2>9, <2>10, <2>11 DEF LoopInv
<1> QED
  BY <1>5, <1>6 DEF TickPolls

\* While births are to come, the next of them is one of them.
LEMMA NextIsPlanned ==
    ASSUME LoopInv, tick.at \in {"birth", "grant"}
    PROVE  NextBirth \in tick.births /\ NextBirth \in Births /\ Asking \in Projects
<1>1. tick.births \subseteq Births /\ tick.births # {}
  BY Types DEF LoopInv, PlanIsCurrent
<1>2. NextBirth \in tick.births
  BY <1>1, FirstIsPlanned DEF NextBirth
<1> QED
  BY <1>1, <1>2 DEF Asking, Births

\* A Worker is started: it takes the place of the birth that was due.
LEMMA TickStartsStep ==
    ASSUME LoopInv, TickStarts
    PROVE  LoopInv' /\ ProbesStayAlone
<1>1. TypeOK /\ NamedAreKnown /\ TurnsArePrompted /\ PlanIsCurrent /\ PlanIsAlone /\ CountHolds
  BY DEF LoopInv
<1>2. /\ UNCHANGED <<registered, depth, health, backoff, exits, turns, faults, commands>>
      /\ tick.at = "birth"
  BY DEF TickStarts
<1>3. PICK w \in Workers :
        Start(w, Asking, TRUE) /\ tick' = [tick EXCEPT !.at = "grant", !.started = w]
  BY DEF TickStarts
<1>4. NextBirth \in tick.births /\ Asking \in Projects
  BY <1>2, NextIsPlanned
<1>5. /\ tick' \in Ticks /\ tick'.at = "grant" /\ tick'.births = tick.births
      /\ tick'.dead = tick.dead /\ tick'.over = tick.over
  <2>1. tick \in Ticks
    BY <1>1, Types
  <2> QED
    BY <1>3, <2>1 DEF Ticks
<1>6. PICK q \in Projects : q = Asking
  BY <1>4
<1>7. /\ life' \in [Workers -> Lives \cup {Free}]
      /\ NamedAreKnown'
      /\ \A p \in Projects : p # q => Asked(p)' \subseteq Asked(p)
      /\ Asked(q)' \subseteq Asked(q) \cup {w}
  <2>1. Start(w, q, TRUE) /\ exits' = exits /\ tick'.dead = tick.dead
    BY <1>2, <1>3, <1>5, <1>6
  <2> QED
    BY <1>1, <2>1, StartFacts
<1>8. TypeOK'
  BY <1>1, <1>2, <1>5, <1>7 DEF TypeOK
<1>9. TurnsArePrompted' /\ PlanIsCurrent'
  BY <1>1, <1>2, <1>5 DEF TurnsArePrompted, PlanIsCurrent
<1>10. /\ \A p : Wanting(p)' = Wanting(p)
      /\ NextBirth' = NextBirth
  BY <1>5 DEF Wanting, NextBirth
<1>11. PlanIsAlone'
  <2>1. \A p : halfOpen(p, health[p])' = halfOpen(p, health[p])
    BY <1>2, <1>5 DEF halfOpen
  <2> QED
    BY <1>1, <1>2, <1>5, <1>10, <2>1 DEF PlanIsAlone
<1>12. CountHolds'
  <2> SUFFICES ASSUME NEW p \in Projects \ Prompted
               PROVE  Cardinality(Asked(p)') + Cardinality(Due(p)') <= Target
    BY <1>5 DEF CountHolds
  <2> DEFINE A == Asked(p)
             B == Asked(p)'
             D == Due(p)
             E == Due(p)'
  <2>1. D = Wanting(p) /\ E = Wanting(p) \ {NextBirth}
    BY <1>2, <1>5, <1>10 DEF Due
  <2>2. Cardinality(A) + Cardinality(D) <= Target
    BY <1>1 DEF CountHolds
  <2>3. /\ IsFiniteSet(A) /\ Cardinality(A) \in Nat
        /\ IsFiniteSet(D) /\ Cardinality(D) \in Nat
    BY <1>1, CountsAreFinite
  <2>4. CASE p # q
    <3>1. B \subseteq A
      BY <1>7, <2>4
    <3>2. E \subseteq D
      BY <2>1
    <3> HIDE DEF A, B, D, E
    <3>3. /\ Cardinality(B) \in Nat /\ Cardinality(B) <= Cardinality(A)
          /\ Cardinality(E) \in Nat /\ Cardinality(E) <= Cardinality(D)
      BY <2>3, <3>1, <3>2, FS_Subset, FS_CardinalityType
    <3>4. Cardinality(B) + Cardinality(E) <= Target
      BY <2>2, <2>3, <3>3, ConstantFacts
    <3> QED
      BY <3>4 DEF B, E
  <2>5. CASE p = q
    <3>1. B \subseteq A \cup {w}
      BY <1>7, <2>5
    <3>2. NextBirth \in D
      BY <1>4, <1>6, <2>1, <2>5 DEF Wanting, Asking
    <3>3. PICK b : b \in D /\ E = D \ {b}
      BY <2>1, <3>2
    <3> HIDE DEF A, B, D, E
    <3>4. Cardinality(E) = Cardinality(D) - 1
      BY <2>3, <3>3, FS_RemoveElement
    <3>5. /\ IsFiniteSet(A \cup {w}) /\ Cardinality(A \cup {w}) <= Cardinality(A) + 1
          /\ Cardinality(A \cup {w}) \in Nat
      <4>1. /\ IsFiniteSet(A \cup {w})
            /\ Cardinality(A \cup {w})
                 = IF w \in A THEN Cardinality(A) ELSE Cardinality(A) + 1
        BY <2>3, FS_AddElement
      <4> QED
        BY <2>3, <4>1
    <3>6. Cardinality(B) \in Nat /\ Cardinality(B) <= Cardinality(A \cup {w})
      BY <3>1, <3>5, FS_Subset, FS_CardinalityType
    <3>7. Cardinality(B) + Cardinality(E) <= Target
      BY <2>2, <2>3, <3>4, <3>5, <3>6, ConstantFacts
    <3> QED
      BY <3>7 DEF B, E
  <2> QED
    BY <2>4, <2>5
<1>13. ProbesStayAlone
  <2>1. health[q].probe = NoWorker
    BY <1>1, <1>4, <1>6 DEF PlanIsAlone, Asking
  <2> QED
    BY <1>7, <2>1 DEF ProbesStayAlone
<1> QED
  BY <1>7, <1>8, <1>9, <1>11, <1>12, <1>13 DEF LoopInv

\* The loop goes on to its next birth.
LEMMA GoOnStep ==
    ASSUME LoopInv, tick.at \in {"birth", "grant"}, GoOn, life' = life, exits' = exits,
           turns' \in [Projects -> 0 .. MaxTurns], TurnsArePrompted',
           health' \in [Projects -> Health],
           \A b \in tick.births \ {NextBirth} : health'[b[2]] = health[b[2]],
           UNCHANGED <<registered, depth, backoff, faults, commands>>
    PROVE  LoopInv' /\ ProbesStayAlone
<1>1. TypeOK /\ NamedAreKnown /\ PlanIsCurrent /\ PlanIsAlone /\ CountHolds
  BY DEF LoopInv
<1>2. CASE Over
  BY <1>1, <1>2, OverStep DEF TypeOK
<1>3. CASE /\ tick.births # {NextBirth}
           /\ tick' = [tick EXCEPT !.at = "birth", !.births = @ \ {NextBirth}, !.started = NoWorker]
  <2>1. NextBirth \in tick.births
    BY NextIsPlanned
  <2>2. /\ tick' \in Ticks /\ tick'.at = "birth" /\ tick'.births = tick.births \ {NextBirth}
        /\ tick'.dead = tick.dead /\ tick'.over = tick.over
    <3>1. tick \in Ticks
      BY <1>1, Types
    <3>2. PICK left : left = tick.births \ {NextBirth}
      OBVIOUS
    <3>3. tick' = [tick EXCEPT !.at = "birth", !.births = left, !.started = NoWorker]
      BY <1>3, <3>2
    <3>4. left \subseteq Births
      BY <1>1, <3>2, Types
    <3>5. tick'.births = left /\ tick' \in Ticks
      BY <3>1, <3>3, <3>4 DEF Ticks
    <3> QED
      BY <3>1, <3>2, <3>3, <3>5 DEF Ticks
  <2>3. tick'.births # {}
    BY <1>3, <2>1, <2>2
  <2>4. TypeOK'
    BY <1>1, <2>2 DEF TypeOK, Health
  <2>5. NamedAreKnown' /\ PlanIsCurrent'
    BY <1>1, <2>2, <2>3 DEF NamedAreKnown, PlanIsCurrent
  <2>6. \A p : Asked(p)' = Asked(p)
    BY DEF Asked, Held
  <2>7. \A p : Wanting(p)' = Wanting(p) \ {NextBirth}
    BY <2>2 DEF Wanting
  <2>8. PlanIsAlone'
    <3> SUFFICES ASSUME NEW b \in tick.births \ {NextBirth}
                 PROVE  /\ health'[b[2]].probe = NoWorker
                        /\ halfOpen(b[2], health[b[2]])' => Wanting(b[2])' = {b}
      BY <2>2 DEF PlanIsAlone
    <3>1. health[b[2]].probe = NoWorker /\ (halfOpen(b[2], health[b[2]]) => Wanting(b[2]) = {b})
      BY <1>1 DEF PlanIsAlone
    <3>2. health'[b[2]] = health[b[2]]
      OBVIOUS
    <3>3. halfOpen(b[2], health[b[2]])' => halfOpen(b[2], health[b[2]])
      BY <2>2, <3>2 DEF halfOpen
    <3>4. b # NextBirth
      OBVIOUS
    <3> QED
      BY <2>7, <3>1, <3>2, <3>3, <3>4
  <2>9. CountHolds'
    <3> SUFFICES ASSUME NEW p \in Projects \ Prompted
                 PROVE  Cardinality(Asked(p)') + Cardinality(Due(p)') <= Target
      BY <2>2 DEF CountHolds
    <3> DEFINE D == Due(p)
               E == Due(p)'
    <3>1. E \subseteq D
      BY <2>2, <2>7 DEF Due
    <3>2. Cardinality(Asked(p)) + Cardinality(D) <= Target
      BY <1>1 DEF CountHolds
    <3>3. Cardinality(Asked(p)) \in Nat /\ IsFiniteSet(D) /\ Cardinality(D) \in Nat
      BY <1>1, CountsAreFinite
    <3> HIDE DEF D, E
    <3>4. Cardinality(E) \in Nat /\ Cardinality(E) <= Cardinality(D)
      BY <3>1, <3>3, FS_Subset, FS_CardinalityType
    <3>5. Cardinality(Asked(p)) + Cardinality(E) <= Target
      BY <3>2, <3>3, <3>4, ConstantFacts
    <3> QED
      BY <2>6, <3>5 DEF E
  <2>10. ProbesStayAlone
    BY <2>6 DEF ProbesStayAlone
  <2> QED
    BY <2>4, <2>5, <2>8, <2>9, <2>10 DEF LoopInv
<1> QED
  BY <1>2, <1>3 DEF GoOn

\* A turn is begun.
LEMMA TickTurnsStep ==
    ASSUME LoopInv, TickTurns
    PROVE  LoopInv' /\ ProbesStayAlone
<1>1. TypeOK /\ TurnsArePrompted
  BY DEF LoopInv
<1>2. /\ tick.at = "birth" /\ Turned(Asking) /\ turns[Asking] < MaxTurns
      /\ turns' = [turns EXCEPT ![Asking] = @ + 1]
      /\ GoOn
      /\ UNCHANGED <<registered, depth, health, backoff, life, exits, faults, commands>>
  BY DEF TickTurns
<1>3. PICK q \in Projects : q = Asking
  BY <1>2, NextIsPlanned
<1>4. turns \in [Projects -> 0 .. MaxTurns]
  BY <1>1, Types
<1>5. turns' \in [Projects -> 0 .. MaxTurns]
  BY <1>2, <1>3, <1>4, ConstantFacts
<1>6. TurnsArePrompted'
  <2>1. q \in Prompted
    BY <1>2, <1>3 DEF Turned
  <2>2. \A p \in Projects \ {q} : turns'[p] = turns[p]
    BY <1>2, <1>3, <1>4
  <2> QED
    BY <1>1, <2>1, <2>2 DEF TurnsArePrompted
<1>7. health' \in [Projects -> Health]
  BY <1>1, <1>2, Types
<1> QED
  BY <1>2, <1>5, <1>6, <1>7, GoOnStep

\* A start is refused.
LEMMA TickRefusedStep ==
    ASSUME LoopInv, TickRefused
    PROVE  LoopInv' /\ ProbesStayAlone
<1>1. TypeOK /\ TurnsArePrompted
  BY DEF LoopInv
<1>2. Over /\ UNCHANGED <<registered, depth, health, life, exits, turns, commands>>
  BY DEF TickRefused
<1>3. backoff' \in 0 .. Backoff /\ faults' \in 0 .. MaxFaults
  <2>1. backoff \in 0 .. Backoff /\ Backoff \in 0 .. Backoff /\ faults \in 0 .. MaxFaults
    BY <1>1 DEF TypeOK, Backoff
  <2>2. Fault(TRUE) => faults' \in 0 .. MaxFaults
    BY <1>1, FaultFacts
  <2>3. /\ Fault(TRUE) \/ faults' = faults
        /\ backoff' = backoff \/ backoff' = Backoff
    BY DEF TickRefused
  <2> QED
    BY <2>1, <2>2, <2>3
<1>4. TurnsArePrompted'
  BY <1>1, <1>2 DEF TurnsArePrompted
<1> QED
  BY <1>1, <1>2, <1>3, <1>4, OverStep DEF TypeOK, Health

\* The Worker is granted, and made the probe of a half-open Project: then no other birth
\* of that Project is to come.
LEMMA TickGrantsStep ==
    ASSUME LoopInv, TickGrants
    PROVE  LoopInv' /\ ProbesStayAlone
<1>1. TypeOK /\ TurnsArePrompted /\ PlanIsAlone
  BY DEF LoopInv
<1>2. /\ tick.at = "grant"
      /\ health' = IF halfOpen(Asking, health[Asking])
                     THEN [health EXCEPT ![Asking] = beginBirthProbe(@, tick.started)] ELSE health
      /\ GoOn
      /\ UNCHANGED <<registered, depth, backoff, life, exits, turns, faults, commands>>
  BY DEF TickGrants
<1>3. NextBirth \in tick.births /\ Asking \in Projects
  BY <1>2, NextIsPlanned
<1>4. health \in [Projects -> Health]
  BY <1>1, Types
<1>5. CASE ~halfOpen(Asking, health[Asking])
  <2>1. health' = health
    BY <1>2, <1>5
  <2>2. TurnsArePrompted' /\ turns' \in [Projects -> 0 .. MaxTurns]
    BY <1>1, <1>2, Types DEF TurnsArePrompted
  <2> QED
    BY <1>2, <1>4, <2>1, <2>2, GoOnStep
<1>6. CASE halfOpen(Asking, health[Asking])
  <2>1. PICK q \in Projects : q = Asking
    BY <1>3
  <2>2. PICK h : h = beginBirthProbe(health[q], tick.started)
    OBVIOUS
  <2>3. h \in Health
    <3>1. tick.started \in Workers \cup {NoWorker} /\ health[q] \in Health
      BY <1>1, <1>4 DEF TypeOK, Ticks
    <3> QED
      BY <2>2, <3>1 DEF beginBirthProbe, Health
  <2>4. health' = [health EXCEPT ![q] = h]
    BY <1>2, <1>4, <1>6, <2>1, <2>2
  <2>5. health' \in [Projects -> Health] /\ \A p \in Projects \ {q} : health'[p] = health[p]
    BY <1>4, <2>3, <2>4
  <2>6. ASSUME NEW b \in tick.births \ {NextBirth}
        PROVE  health'[b[2]] = health[b[2]]
    <3>1. Wanting(q) = {NextBirth}
      BY <1>1, <1>3, <1>6, <2>1 DEF PlanIsAlone, Asking
    <3>2. b[2] # q
      BY <3>1 DEF Wanting
    <3>3. b[2] \in Projects
      BY <1>1, Types DEF Births
    <3> QED
      BY <2>5, <3>2, <3>3
  <2>7. TurnsArePrompted' /\ turns' \in [Projects -> 0 .. MaxTurns]
    BY <1>1, <1>2, Types DEF TurnsArePrompted
  <2> QED
    BY <1>2, <2>5, <2>6, <2>7, GoOnStep
<1> QED
  BY <1>5, <1>6

-----------------------------------------------------------------------------
(* The theorems                                                              *)

\* The invariant holds at first.
LEMMA LoopInit == Init => LoopInv
<1> SUFFICES ASSUME Init
             PROVE  LoopInv
  OBVIOUS
<1>1. tick = Idle /\ tick \in Ticks /\ tick.births = {} /\ tick.at = "idle" /\ tick.dead = {}
  BY IdleIsATick DEF Init
<1>2. exits \in Seq(Workers) /\ Range(exits) = {}
  BY DEF Init, Range
<1>3. TypeOK
  <2>1. EMPTY_BIRTH_HEALTH \in Health
    BY EmptyHealth
  <2> QED
    BY <1>1, <1>2, <2>1, ConstantFacts DEF Init, TypeOK, Health, Backoff
<1>4. NamedAreKnown /\ PlanIsCurrent /\ PlanIsAlone
  BY <1>1, <1>2 DEF NamedAreKnown, PlanIsCurrent, PlanIsAlone
<1>5. TurnsArePrompted
  BY DEF Init, TurnsArePrompted
<1>6. CountHolds
  <2> SUFFICES ASSUME NEW p \in Projects \ Prompted
               PROVE  Cardinality(Asked(p)) + Cardinality(Due(p)) <= Target
    BY <1>1 DEF CountHolds
  <2>1. Asked(p) = {}
    BY DEF Asked, Held, Init, Free
  <2>2. Due(p) = {}
    BY <1>1 DEF Due, Wanting
  <2>3. Cardinality(Asked(p)) = 0 /\ Cardinality(Due(p)) = 0
    BY <2>1, <2>2, FS_EmptySet
  <2> QED
    BY <2>3, ConstantFacts
<1> QED
  BY <1>3, <1>4, <1>5, <1>6 DEF LoopInv

\* Every step keeps the invariant and leaves a probe alone.
LEMMA LoopStep == LoopInv /\ [Next]_vars => LoopInv' /\ [ProbesStayAlone]_vars
<1> SUFFICES ASSUME LoopInv, [Next]_vars
             PROVE  LoopInv' /\ [ProbesStayAlone]_vars
  OBVIOUS
<1>1. CASE UNCHANGED vars
  <2>1. UNCHANGED <<registered, depth, health, backoff, life, exits, turns, tick, faults, commands>>
    BY <1>1 DEF vars
  <2>2. TypeOK' /\ NamedAreKnown' /\ TurnsArePrompted' /\ \A p : Asked(p)' = Asked(p)
    BY <2>1 DEF LoopInv, TypeOK, NamedAreKnown, TurnsArePrompted, Asked, Held
  <2> QED
    BY <2>1, <2>2, PlanUntouched
<1>2. CASE TickBegins
  BY <1>2, TickBeginsStep
<1>3. CASE TickStep
  BY <1>3, TickRetiresStep, TickCountsStep, TickPollsStep, TickStartsStep, TickTurnsStep,
     TickRefusedStep, TickGrantsStep DEF TickStep
<1>4. CASE ResolveExit \/ PollTimer \/ Time
  BY <1>4, ResolveExitStep, OutsideStep, TimeStep
<1>5. CASE \E w \in Workers : Ends(w) \/ ClientEnds(w) \/ StopBegins(w) \/ StopSettles(w)
  BY <1>5, EndsStep, ClientEndsStep, StopBeginsStep, StopSettlesStep
<1>6. CASE \E p \in Projects :
             \/ TurnStarts(p) \/ ClientStarts(p)
             \/ resetProjectBirthBreaker(p) \/ registerProject(p) \/ deregisterProject(p)
  BY <1>6, TurnStartsStep, ClientStartsStep, ResetStep, OutsideStep
<1> QED
  BY <1>1, <1>2, <1>3, <1>4, <1>5, <1>6 DEF Next

\* The breakers, the Workers, the queue of exits and the tick are always well typed: a
\* probe is a Worker, and every death is folded into a Project's breaker, for any
\* number of Projects and Workers.
THEOREM TypeCorrect == Spec => []TypeOK
<1>1. LoopInv => TypeOK
  BY DEF LoopInv
<1> QED
  BY <1>1, LoopInit, LoopStep, PTL DEF Spec

\* The loop never gives a Project without a prompt more Workers than its target,
\* although it counts them once and starts them several awaited steps later: for any
\* number of Projects, Workers, clients and failures.
THEOREM TargetsAreKept == Spec => []TargetIsKept
<1>1. LoopInv => TargetIsKept
  <2> SUFFICES ASSUME LoopInv, NEW p \in Projects \ Prompted
               PROVE  Cardinality(Asked(p)) <= Target
    BY DEF TargetIsKept
  <2>1. Cardinality(Asked(p)) + Cardinality(Due(p)) <= Target
    BY DEF LoopInv, CountHolds
  <2>2. Cardinality(Asked(p)) \in Nat /\ Cardinality(Due(p)) \in Nat
    BY CountsAreFinite DEF LoopInv
  <2> QED
    BY <2>1, <2>2, ConstantFacts
<1> QED
  BY <1>1, LoopInit, LoopStep, PTL DEF Spec

\* While the probe of a half-open breaker runs, its Project gets no second Worker of the
\* loop's, whatever the plan of the tick was made from and whoever dies or is reset
\* meanwhile.
THEOREM ProbesAreAlone == Spec => SoleProbe
<1>1. LoopInv /\ [Next]_vars
        => [\A p \in Projects \ Prompted :
              (health[p].probe # NoWorker /\ health'[p].probe = health[p].probe)
                 => Asked(p)' \subseteq Asked(p)]_vars
  BY LoopStep DEF ProbesStayAlone
<1> QED
  BY <1>1, LoopInit, LoopStep, PTL DEF Spec, SoleProbe
=============================================================================

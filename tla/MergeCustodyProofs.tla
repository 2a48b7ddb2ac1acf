-------------------------- MODULE MergeCustodyProofs --------------------------
(***************************************************************************)
(* Proofs about MergeCustody: its types, and that a promise in the file is *)
(* kept until the pull request has ended.                                  *)
(***************************************************************************)
EXTENDS MergeCustody, TLAPS, FiniteSetTheorems

-----------------------------------------------------------------------------
(* The inductive invariant, over snapshots s and f and the forge g           *)

\* What s records as ended has ended, and so.
EndsAreTrue(s, g) == \A p \in Terminal(s) : s[p].outcome = g[p].state

\* s has every promise of f whose pull request is open.
Ahead(f, s, g) ==
    \A p \in Active(f) :
       g[p].state # "open" \/ (p \in Active(s) /\ s[p].owner = f[p].owner)

\* A pass runs over a snapshot that was read, and the end it has seen is the end.
PassIsTrue ==
    \A p \in PRs :
       /\ drive[p].at # "idle" => loaded
       /\ ends(drive[p].state) => forge[p].state = drive[p].state

CustodyInv ==
    /\ TypeOK
    /\ EndsAreTrue(mem, forge)
    /\ EndsAreTrue(file, forge)
    /\ loaded => Ahead(file, mem, forge)
    /\ exec # {} => loaded
    /\ PassIsTrue

\* The step of the property, from f to t.
Kept(f, t, g) ==
    \A p \in Active(f) :
       \/ p \in Active(t) /\ t[p].owner = f[p].owner
       \/ /\ g[p].state # "open"
          /\ p \in Terminal(t) => t[p].outcome = g[p].state

-----------------------------------------------------------------------------
(* Facts about records and snapshots                                         *)

Forges == [PRs -> [state : {"open", "merged", "closed"}, head : Commits, intent : BOOLEAN]]

Nexts == {"observe-forge", "await-forge", "retry-forge", "report-moved-head", "none"}

\* Pull requests can be counted.
LEMMA CountIsNat ==
    ASSUME NEW S \in SUBSET PRs
    PROVE  Cardinality(S) \in Nat
BY CustodyConstants, FS_Subset, FS_CardinalityType

\* A record is not the absent one, and has its fields.
LEMMA RecordFacts ==
    ASSUME NEW r \in Record
    PROVE  /\ r # Absent
           /\ r.owner \in Tickets /\ r.head \in Heads /\ r.state \in {"active", "terminal"}
           /\ r.at \in Nat /\ r.next \in Nexts /\ r.outcome \in {"none", "merged", "closed"}
<1>1. /\ r.owner \in Tickets /\ r.head \in Heads /\ r.state \in {"active", "terminal"}
      /\ r.at \in Nat /\ r.next \in Nexts /\ r.outcome \in {"none", "merged", "closed"}
  BY DEF Record, Nexts
<1>2. Absent.state = "absent"
  BY DEF Absent
<1> QED
  BY <1>1, <1>2

\* The changes of a record's place, head and next action leave the rest alone.
LEMMA ChangedRecord ==
    ASSUME NEW r \in Record
    PROVE  /\ \A n \in Nat : /\ [r EXCEPT !.at = n] \in Record
                             /\ [r EXCEPT !.at = n].owner = r.owner
                             /\ [r EXCEPT !.at = n].state = r.state
                             /\ [r EXCEPT !.at = n].outcome = r.outcome
           /\ \A h \in Heads : /\ [r EXCEPT !.head = h] \in Record
                               /\ [r EXCEPT !.head = h].owner = r.owner
                               /\ [r EXCEPT !.head = h].state = r.state
                               /\ [r EXCEPT !.head = h].outcome = r.outcome
           /\ \A a \in Nexts : /\ [r EXCEPT !.next = a] \in Record
                               /\ [r EXCEPT !.next = a].owner = r.owner
                               /\ [r EXCEPT !.next = a].state = r.state
                               /\ [r EXCEPT !.next = a].outcome = r.outcome
                               /\ [r EXCEPT !.next = a].head = r.head
BY DEF Record, Nexts

\* What a snapshot holds is a record, active or terminal.
LEMMA HeldFacts ==
    ASSUME NEW s \in Snapshots
    PROVE  /\ \A p \in Held(s) : p \in PRs /\ s[p] \in Record
           /\ Active(s) = {p \in PRs : s[p] \in Record /\ s[p].state = "active"}
           /\ Terminal(s) = {p \in PRs : s[p] \in Record /\ s[p].state = "terminal"}
<1>1. \A p \in PRs : s[p] \in Record \/ s[p] = Absent
  BY DEF Snapshots
<1>2. Held(s) = {p \in PRs : s[p] \in Record}
  BY <1>1, RecordFacts DEF Held
<1> QED
  BY <1>2, RecordFacts DEF Active, Terminal

\* Filtering keeps the owners, states and outcomes of what it keeps.
LEMMA FilteredFacts ==
    ASSUME NEW s \in Snapshots, NEW kept \in SUBSET Held(s)
    PROVE  /\ Filtered(s, kept) \in Snapshots
           /\ Held(Filtered(s, kept)) = kept
           /\ \A p \in kept : /\ Filtered(s, kept)[p].owner = s[p].owner
                              /\ Filtered(s, kept)[p].state = s[p].state
                              /\ Filtered(s, kept)[p].outcome = s[p].outcome
<1> DEFINE t == Filtered(s, kept)
           at(p) == Cardinality({q \in kept : s[q].at <= s[p].at})
<1>0. kept \subseteq PRs
  BY DEF Held
<1>1. ASSUME NEW p \in kept
      PROVE  /\ t[p] \in Record /\ t[p].owner = s[p].owner
             /\ t[p].state = s[p].state /\ t[p].outcome = s[p].outcome
  <2>1. at(p) \in Nat
    BY <1>0, CountIsNat
  <2>2. s[p] \in Record
    BY HeldFacts
  <2>3. PICK n \in Nat : t[p] = [s[p] EXCEPT !.at = n]
    BY <1>0, <2>1 DEF Filtered
  <2> QED
    BY <2>2, <2>3, ChangedRecord
<1>2. ASSUME NEW p \in PRs \ kept PROVE t[p] = Absent
  BY DEF Filtered
<1>3. t \in Snapshots
  <2>1. t = [p \in PRs |-> t[p]]
    BY DEF Filtered
  <2> QED
    BY <1>1, <1>2, <2>1 DEF Snapshots
<1>4. Held(t) = kept
  BY <1>0, <1>1, <1>2, RecordFacts DEF Held
<1> QED
  BY <1>1, <1>3, <1>4

\* Compaction keeps every active record with its owner, and invents no end.
LEMMA CompactFacts ==
    ASSUME NEW s \in Snapshots
    PROVE  /\ compactGithubCustodySnapshot(s) \in Snapshots
           /\ Active(compactGithubCustodySnapshot(s)) = Active(s)
           /\ Terminal(compactGithubCustodySnapshot(s)) \subseteq Terminal(s)
           /\ \A p \in Held(compactGithubCustodySnapshot(s)) :
                /\ compactGithubCustodySnapshot(s)[p].owner = s[p].owner
                /\ compactGithubCustodySnapshot(s)[p].outcome = s[p].outcome
<1> DEFINE kept == Active(s) \cup {p \in Terminal(s) :
                     Cardinality({q \in Terminal(s) : s[q].at > s[p].at}) < Retention}
           t == compactGithubCustodySnapshot(s)
<1>1. kept \in SUBSET Held(s)
  BY DEF Active, Terminal
<1>2. t = Filtered(s, kept)
  BY DEF compactGithubCustodySnapshot
<1>3. Active(s) \subseteq kept
  OBVIOUS
<1> HIDE DEF t, kept
<1>4. /\ t \in Snapshots
      /\ Held(t) = kept
      /\ \A p \in kept : t[p].owner = s[p].owner /\ t[p].state = s[p].state /\ t[p].outcome = s[p].outcome
  BY <1>1, <1>2, FilteredFacts
<1>5. Active(t) = Active(s) /\ Terminal(t) \subseteq Terminal(s)
  BY <1>1, <1>3, <1>4 DEF Active, Terminal
<1> QED
  BY <1>4, <1>5 DEF t

\* So compaction loses no promise, and what it records as ended has ended.
LEMMA CompactKeeps ==
    ASSUME NEW s \in Snapshots, NEW g, EndsAreTrue(s, g)
    PROVE  /\ Ahead(s, compactGithubCustodySnapshot(s), g)
           /\ EndsAreTrue(compactGithubCustodySnapshot(s), g)
<1> DEFINE t == compactGithubCustodySnapshot(s)
<1>1. /\ Active(t) = Active(s) /\ Terminal(t) \subseteq Terminal(s)
      /\ \A p \in Held(t) : t[p].owner = s[p].owner /\ t[p].outcome = s[p].outcome
  BY CompactFacts
<1>2. Active(t) \subseteq Held(t) /\ Terminal(t) \subseteq Held(t)
  BY DEF Active, Terminal
<1> HIDE DEF t
<1>3. Ahead(s, t, g) /\ EndsAreTrue(t, g)
  BY <1>1, <1>2 DEF Ahead, EndsAreTrue
<1> QED
  BY <1>3 DEF t

\* Being ahead is transitive.
LEMMA AheadTransitive ==
    ASSUME NEW f, NEW s, NEW t, NEW g, Ahead(f, s, g), Ahead(s, t, g)
    PROVE  Ahead(f, t, g)
BY DEF Ahead

\* A snapshot that is ahead, and true of the ends, keeps the promises.
LEMMA AheadKeeps ==
    ASSUME NEW f, NEW t, NEW g, Ahead(f, t, g), EndsAreTrue(t, g)
    PROVE  Kept(f, t, g)
BY DEF Ahead, EndsAreTrue, Kept

\* A snapshot keeps its own promises.
LEMMA SameIsKept ==
    ASSUME NEW f, NEW g
    PROVE  Kept(f, f, g) /\ Ahead(f, f, g)
BY DEF Kept, Ahead

\* What the daemon works on, read now or before: a snapshot ahead of the file.
LEMMA LoadFacts ==
    ASSUME CustodyInv
    PROVE  load \in Snapshots /\ Ahead(file, load, forge) /\ EndsAreTrue(load, forge)
<1>1. CASE loaded
  BY <1>1 DEF load, CustodyInv, TypeOK
<1>2. CASE ~loaded
  <2>1. file \in Snapshots /\ EndsAreTrue(file, forge)
    BY DEF CustodyInv, TypeOK
  <2> QED
    BY <1>2, <2>1, CompactFacts, CompactKeeps DEF load
<1> QED
  BY <1>1, <1>2

-----------------------------------------------------------------------------
(* Steps                                                                     *)

\* The part of the invariant that is about the snapshots.
SnapshotInv ==
    /\ file \in Snapshots
    /\ mem \in Snapshots
    /\ loaded \in BOOLEAN
    /\ EndsAreTrue(mem, forge)
    /\ EndsAreTrue(file, forge)
    /\ loaded => Ahead(file, mem, forge)
    /\ exec # {} => loaded

\* The types of the rest.
HostTypes ==
    /\ forge \in Forges
    /\ exec \subseteq PRs
    /\ timers \subseteq PRs
    /\ drive \in [PRs -> Passes]
    /\ faults \in 0 .. MaxFaults
    /\ moves \in 0 .. MaxMoves

\* The invariant, by parts.
LEMMA InvParts == CustodyInv <=> SnapshotInv /\ HostTypes /\ PassIsTrue
BY DEF CustodyInv, TypeOK, SnapshotInv, HostTypes, Forges

\* A change of the snapshot that loses no promise and records no false end may be
\* written or not.
LEMMA PersistStep ==
    ASSUME CustodyInv, forge' = forge, NEW t \in Snapshots, Ahead(load, t, forge),
           EndsAreTrue(t, forge), NEW ok \in BOOLEAN, persist(t, ok)
    PROVE  SnapshotInv' /\ loaded' /\ Kept(file, file', forge)
<1>0. Ahead(file, t, forge)
  BY LoadFacts, AheadTransitive
<1>1. mem' = t /\ loaded' = TRUE /\ file' = IF ok THEN t ELSE file
  BY DEF persist
<1>2. CASE ok
  <2>1. Ahead(t, t, forge) /\ Kept(file, t, forge)
    BY <1>0, SameIsKept, AheadKeeps
  <2> QED
    BY <1>1, <1>2, <2>1 DEF SnapshotInv
<1>3. CASE ~ok
  <2>1. Kept(file, file, forge) /\ EndsAreTrue(file, forge) /\ file \in Snapshots
    BY SameIsKept DEF CustodyInv, TypeOK
  <2> QED
    BY <1>0, <1>1, <1>3, <2>1 DEF SnapshotInv
<1> QED
  BY <1>2, <1>3

\* So may the snapshot that was read.
LEMMA LoadedStep ==
    ASSUME CustodyInv, forge' = forge, Loaded
    PROVE  SnapshotInv' /\ loaded' /\ Kept(file, file', forge)
<1>1. mem' = load /\ loaded' = TRUE /\ file' = file
  BY DEF Loaded
<1>2. load \in Snapshots /\ Ahead(file, load, forge) /\ EndsAreTrue(load, forge)
  BY LoadFacts
<1>3. Kept(file, file, forge) /\ EndsAreTrue(file, forge) /\ file \in Snapshots
  BY SameIsKept DEF CustodyInv, TypeOK
<1> QED
  BY <1>1, <1>2, <1>3 DEF SnapshotInv

\* An update of a record by its owner's pass, true of the forge.
Sound(p, r) ==
    /\ r \in Record
    /\ r.owner = mem[p].owner
    /\ r.state = "terminal" => r.outcome = forge[p].state

\* updateRecord with a sound record, or with none to update.
LEMMA UpdateStep ==
    ASSUME CustodyInv, loaded, forge' = forge, NEW p \in PRs, NEW r, NEW ok \in BOOLEAN,
           mem[p] \in Record => Sound(p, r), updateRecord(p, r, ok)
    PROVE  SnapshotInv' /\ loaded' /\ Kept(file, file', forge)
<1>0. mem \in Snapshots /\ file \in Snapshots /\ EndsAreTrue(mem, forge) /\ load = mem /\ forge \in Forges
  BY DEF CustodyInv, TypeOK, load, Forges
<1>1. CASE mem[p] = Absent
  <2>1. UNCHANGED <<file, mem, loaded>>
    BY <1>1 DEF updateRecord
  <2> QED
    BY <2>1, InvParts, SameIsKept DEF SnapshotInv
<1>2. CASE mem[p] # Absent
  <2> DEFINE t == [mem EXCEPT ![p] = r]
  <2>1. mem[p] \in Record /\ Sound(p, r)
    BY <1>0, <1>2 DEF Snapshots
  <2>2. persist(t, ok)
    BY <1>2 DEF updateRecord
  <2>3. t \in Snapshots /\ t[p] = r /\ \A q \in PRs \ {p} : t[q] = mem[q]
    BY <1>0, <2>1 DEF Snapshots, Sound
  <2> HIDE DEF t
  <2>4. EndsAreTrue(t, forge)
    BY <1>0, <2>1, <2>3, HeldFacts DEF EndsAreTrue, Sound
  <2>5. r.state = "active" \/ forge[p].state # "open"
    BY <2>1, RecordFacts DEF Sound
  <2>6. Ahead(mem, t, forge)
    BY <1>0, <2>1, <2>3, <2>5, HeldFacts DEF Ahead, Sound
  <2> QED
    BY <1>0, <2>2, <2>3, <2>4, <2>6, PersistStep
<1> QED
  BY <1>1, <1>2

\* A pass of p goes on with d, over a snapshot that is read, and with a true end.
LEMMA PassGoesOn ==
    ASSUME CustodyInv, NEW p \in PRs, NEW d \in Passes, Pass(p, d),
           d.at # "idle" => loaded', loaded => loaded',
           ends(d.state) => forge[p].state = d.state,
           \A q \in PRs : forge'[q].state = forge[q].state
    PROVE  drive' \in [PRs -> Passes] /\ PassIsTrue'
<1>1. drive \in [PRs -> Passes] /\ drive' = [drive EXCEPT ![p] = d]
  BY DEF CustodyInv, TypeOK, Pass
<1>2. drive' \in [PRs -> Passes]
  BY <1>1
<1>3. ASSUME NEW q \in PRs
      PROVE  /\ drive'[q].at # "idle" => loaded'
             /\ ends(drive'[q].state) => forge'[q].state = drive'[q].state
  <2>1. CASE q = p
    BY <1>1, <2>1
  <2>2. CASE q # p
    BY <1>1, <2>2 DEF CustodyInv, PassIsTrue
  <2> QED
    BY <2>1, <2>2
<1> QED
  BY <1>2, <1>3 DEF PassIsTrue, ends

\* The passes are where they were.
LEMMA PassStays ==
    ASSUME CustodyInv, drive' = drive, loaded => loaded',
           \A q \in PRs : forge'[q].state = forge[q].state
    PROVE  drive' \in [PRs -> Passes] /\ PassIsTrue'
<1>1. drive \in [PRs -> Passes]
  BY DEF CustodyInv, TypeOK
<1>2. ASSUME NEW q \in PRs
      PROVE  /\ drive'[q].at # "idle" => loaded'
             /\ ends(drive'[q].state) => forge'[q].state = drive'[q].state
  BY DEF CustodyInv, PassIsTrue
<1> QED
  BY <1>1, <1>2 DEF PassIsTrue, ends

\* An update of three fields of a record of four.
LEMMA PassUpdate ==
    ASSUME NEW A, NEW H, NEW S, NEW M, NEW d \in [at : A, armed : H, state : S, moved : M],
           NEW a \in A, NEW s \in S, NEW m \in M
    PROVE  /\ [d EXCEPT !.at = a, !.state = s, !.moved = m] \in [at : A, armed : H, state : S, moved : M]
           /\ [d EXCEPT !.at = a, !.state = s, !.moved = m].state = s
OBVIOUS

\* The places a pass goes to are passes.
LEMMA PassFacts ==
    ASSUME NEW d \in Passes
    PROVE  /\ Idle \in Passes /\ Idle.at = "idle" /\ ~ends(Idle.state)
           /\ [Idle EXCEPT !.at = "tick"] \in Passes /\ [Idle EXCEPT !.at = "tick"].state = "none"
           /\ \A a \in Steps : [d EXCEPT !.at = a] \in Passes /\ [d EXCEPT !.at = a].state = d.state
<1> USE DEF Passes, Steps
<1>1. Idle \in Passes /\ Idle.at = "idle" /\ ~ends(Idle.state)
  BY DEF Idle, Heads, ends
<1>2. [Idle EXCEPT !.at = "tick"] \in Passes /\ [Idle EXCEPT !.at = "tick"].state = "none"
  BY DEF Idle, Heads
<1>3. \A a \in Steps : [d EXCEPT !.at = a] \in Passes /\ [d EXCEPT !.at = a].state = d.state
  OBVIOUS
<1> QED
  BY <1>1, <1>2, <1>3

\* So is one that has read the head of its record.
LEMMA ArmedPass ==
    ASSUME NEW d \in Passes, NEW a \in Steps, NEW h \in Heads
    PROVE  /\ [d EXCEPT !.at = a, !.armed = h] \in Passes
           /\ [d EXCEPT !.at = a, !.armed = h].state = d.state
BY DEF Passes

\* A pass that has looked the pull request up, and one that has observed the forge.
Seen(d, a, s) == [d EXCEPT !.at = a, !.state = s]

Observed(d, a, s, m) == [d EXCEPT !.at = a, !.state = s, !.moved = m]

\* They are passes too.
LEMMA SeenPass ==
    ASSUME NEW d \in Passes, NEW a \in Steps, NEW s \in {"none", "open", "merged", "closed"}
    PROVE  Seen(d, a, s) \in Passes /\ Seen(d, a, s).state = s
BY DEF Passes, Seen

\* They are passes too.
LEMMA ObservedPass ==
    ASSUME NEW d \in Passes, NEW a \in Steps, NEW s \in {"none", "open", "merged", "closed"}, NEW m \in BOOLEAN
    PROVE  Observed(d, a, s, m) \in Passes /\ Observed(d, a, s, m).state = s
BY PassUpdate DEF Passes, Observed

\* Faults are counted up to the bound.
LEMMA FaultCount ==
    ASSUME faults \in 0 .. MaxFaults, NEW happens, Fault(happens)
    PROVE  faults' \in 0 .. MaxFaults
BY CustodyConstants DEF Fault

\* What a handoff makes of the snapshot s: a new record, a restated head, or s.
Handed(s, p, owner, head) ==
    LET fresh == [owner |-> owner, head |-> head, state |-> "active",
                  at |-> Cardinality(Held(s)) + 1, next |-> "observe-forge", outcome |-> "none"]
        restated == s[p] # Absent /\ head # NoHead /\ head # s[p].head
    IN IF s[p] = Absent THEN compactGithubCustodySnapshot([s EXCEPT ![p] = fresh])
       ELSE IF restated THEN [s EXCEPT ![p].head = head] ELSE s

\* A handoff loses no promise and records no end.
LEMMA HandoffKeeps ==
    ASSUME NEW s \in Snapshots, NEW g, EndsAreTrue(s, g),
           NEW p \in PRs, NEW owner \in Tickets, NEW head \in Heads
    PROVE  LET t == Handed(s, p, owner, head)
           IN  t \in Snapshots /\ Ahead(s, t, g) /\ EndsAreTrue(t, g)
<1> DEFINE t == Handed(s, p, owner, head)
<1>1. CASE s[p] = Absent
  <2> DEFINE fresh == [owner |-> owner, head |-> head, state |-> "active",
                       at |-> Cardinality(Held(s)) + 1, next |-> "observe-forge", outcome |-> "none"]
             u == [s EXCEPT ![p] = fresh]
  <2>1. Cardinality(Held(s)) \in Nat
    BY CountIsNat DEF Held
  <2>2. fresh \in Record /\ fresh.state = "active"
    BY <2>1 DEF Record
  <2>3. t = compactGithubCustodySnapshot(u)
    BY <1>1 DEF Handed
  <2> HIDE DEF fresh, t
  <2>4. u \in Snapshots /\ u[p] = fresh /\ \A q \in PRs \ {p} : u[q] = s[q]
    BY <2>2 DEF Snapshots
  <2> HIDE DEF u
  <2>5. p \notin Active(s)
    BY <1>1 DEF Active, Held
  <2>6. Ahead(s, u, g)
    BY <2>4, <2>5, HeldFacts DEF Ahead
  <2>7. EndsAreTrue(u, g)
    BY <2>2, <2>4, HeldFacts DEF EndsAreTrue
  <2>8. t \in Snapshots /\ Ahead(u, t, g) /\ EndsAreTrue(t, g)
    BY <2>3, <2>4, <2>7, CompactFacts, CompactKeeps
  <2>9. Ahead(s, t, g)
    BY <2>6, <2>8, AheadTransitive
  <2> QED
    BY <2>8, <2>9 DEF t
<1>2. CASE s[p] # Absent /\ head # NoHead /\ head # s[p].head
  <2> DEFINE r == [s[p] EXCEPT !.head = head]
  <2>1. t = [s EXCEPT ![p] = r]
    BY <1>2 DEF Handed
  <2>2. s[p] \in Record
    BY <1>2 DEF Snapshots
  <2>3. r \in Record /\ r.owner = s[p].owner /\ r.state = s[p].state /\ r.outcome = s[p].outcome
    BY <2>2, ChangedRecord
  <2> HIDE DEF r, t
  <2>4. t \in Snapshots /\ t[p] = r /\ \A q \in PRs \ {p} : t[q] = s[q]
    BY <2>1, <2>3 DEF Snapshots
  <2>5. Ahead(s, t, g)
    BY <2>3, <2>4, HeldFacts DEF Ahead
  <2>6. EndsAreTrue(t, g)
    BY <2>2, <2>3, <2>4, HeldFacts DEF EndsAreTrue
  <2> QED
    BY <2>4, <2>5, <2>6 DEF t
<1>3. CASE s[p] # Absent /\ ~(head # NoHead /\ head # s[p].head)
  <2>1. t = s
    BY <1>3 DEF Handed
  <2> QED
    BY <2>1, SameIsKept
<1> QED
  BY <1>1, <1>2, <1>3

\* The daemon's steps that read or change the snapshot outside of a pass.
LEMMA CustodianStep ==
    ASSUME CustodyInv,
           \/ \E p \in PRs, owner \in Tickets : HandoffRefused(p, owner)
           \/ \E p \in PRs, owner \in Tickets, head \in Heads : Handoff(p, owner, head)
           \/ Status
    PROVE  CustodyInv' /\ Kept(file, file', forge)
<1>0. SnapshotInv /\ HostTypes /\ PassIsTrue
  BY InvParts
<1>a. ASSUME SnapshotInv', loaded', forge' = forge, drive' = drive, moves' = moves,
             exec' \subseteq PRs, timers' \subseteq PRs, faults' \in 0 .. MaxFaults
      PROVE  CustodyInv'
  <2>1. drive' \in [PRs -> Passes] /\ PassIsTrue'
    BY <1>a, PassStays
  <2> QED
    BY <1>0, <1>a, <2>1, InvParts DEF HostTypes, CustodyInv, TypeOK, SnapshotInv, PassIsTrue, Forges
<1>r. ASSUME Loaded, register(load), UNCHANGED <<forge, drive, faults, moves>>
      PROVE  CustodyInv' /\ Kept(file, file', forge)
  <2>1. SnapshotInv' /\ loaded' /\ Kept(file, file', forge)
    BY <1>r, LoadedStep
  <2>2. exec' \subseteq PRs /\ timers' \subseteq PRs
    BY <1>0, <1>r DEF register, HostTypes, Active, Held
  <2> QED
    BY <1>0, <1>a, <1>r, <2>1, <2>2 DEF HostTypes
<1>1. ASSUME NEW p \in PRs, NEW owner \in Tickets, NEW head \in Heads, Handoff(p, owner, head)
      PROVE  CustodyInv' /\ Kept(file, file', forge)
  <2> DEFINE t == Handed(load, p, owner, head)
             served(ok) == Active(load) \cup (IF ok /\ t[p].state = "active" THEN {p} ELSE {})
  <2>1. PICK ok \in BOOLEAN :
           /\ Fault(~ok)
           /\ IF t # load THEN persist(t, ok) ELSE Loaded
           /\ exec' = exec \cup served(ok) \cup (IF ok THEN {p} ELSE {})
           /\ timers' = timers \cup served(ok)
    BY <1>1 DEF Handoff, Handed
  <2>2. forge' = forge /\ drive' = drive /\ moves' = moves
    BY <1>1 DEF Handoff
  <2>3. load \in Snapshots /\ EndsAreTrue(load, forge)
    BY LoadFacts
  <2>4. t \in Snapshots /\ Ahead(load, t, forge) /\ EndsAreTrue(t, forge)
    BY <2>3, HandoffKeeps
  <2>5. served(ok) \subseteq PRs
    BY DEF Active, Held
  <2> HIDE DEF t, served
  <2>6. SnapshotInv' /\ loaded' /\ Kept(file, file', forge)
    BY <2>1, <2>2, <2>4, PersistStep, LoadedStep
  <2>7. exec' \subseteq PRs /\ timers' \subseteq PRs
    BY <1>0, <2>1, <2>5 DEF HostTypes
  <2>8. faults' \in 0 .. MaxFaults
    BY <1>0, <2>1, FaultCount DEF HostTypes
  <2> QED
    BY <1>a, <2>2, <2>6, <2>7, <2>8
<1> QED
  BY <1>1, <1>r DEF HandoffRefused, Status

\* A record the pass may write: the pass's own copy of it, marked, or its end.
LEMMA MarkedIsSound ==
    ASSUME CustodyInv, NEW p \in PRs, mem[p] \in Record, NEW a \in Nexts
    PROVE  Sound(p, mem[p]) /\ Sound(p, [mem[p] EXCEPT !.next = a])
<1>1. mem \in Snapshots /\ EndsAreTrue(mem, forge)
  BY DEF CustodyInv, TypeOK
<1>2. mem[p].state = "terminal" => mem[p].outcome = forge[p].state
  BY <1>1, HeldFacts DEF EndsAreTrue
<1> QED
  BY <1>2, ChangedRecord DEF Sound

\* Every step of a pass, whichever of its calls fail.
LEMMA DriverStep ==
    ASSUME CustodyInv, NEW p \in PRs, PassStep(p)
    PROVE  CustodyInv' /\ Kept(file, file', forge)
<1>0. SnapshotInv /\ HostTypes /\ PassIsTrue
  BY InvParts
<1>d. drive[p] \in Passes /\ forge[p].state \in {"open", "merged", "closed"}
  BY <1>0 DEF HostTypes, Forges
<1>s. forge[p].state \in {"none", "open", "merged", "closed"}
  BY <1>d
<1>t. /\ drive[p].at # "idle" => loaded
      /\ ends(drive[p].state) => forge[p].state = drive[p].state
  BY <1>0 DEF PassIsTrue
<1>l. loaded
  BY <1>t DEF PassStep, Tick, Observe, ArmLookup, ArmPost, ArmView, Settle, Catch
<1>m. mem[p] \in Record \/ mem[p] = Absent
  BY <1>0 DEF SnapshotInv, Snapshots
<1>a. ASSUME SnapshotInv', loaded', forge' \in Forges, drive' \in [PRs -> Passes], PassIsTrue',
             moves' = moves, exec' = exec, timers' \subseteq PRs, faults' \in 0 .. MaxFaults
      PROVE  CustodyInv'
  BY <1>0, <1>a, InvParts DEF HostTypes, CustodyInv, TypeOK, SnapshotInv, PassIsTrue, Forges
<1>u. ASSUME UNCHANGED <<file, mem, loaded>>,
             \A q \in PRs : forge'[q].state = forge[q].state
      PROVE  SnapshotInv' /\ loaded' /\ Kept(file, file', forge)
  <2>1. \A s : EndsAreTrue(s, forge) => EndsAreTrue(s, forge')
    BY <1>u DEF EndsAreTrue, Terminal, Held
  <2>2. Ahead(file, mem, forge')
    BY <1>0, <1>l, <1>u DEF SnapshotInv, Ahead, Active, Held
  <2> QED
    BY <1>0, <1>l, <1>u, <2>1, <2>2, SameIsKept DEF SnapshotInv
<1>g. ASSUME loaded', \A q \in PRs : forge'[q].state = forge[q].state,
             Throws(p) \/ Settled(p)
      PROVE  drive' \in [PRs -> Passes] /\ PassIsTrue'
  <2>1. CASE Throws(p)
    <3> DEFINE d == [drive[p] EXCEPT !.at = "catch"]
    <3>1. d \in Passes /\ d.state = drive[p].state
      BY <1>d, PassFacts DEF Steps
    <3>2. Pass(p, d)
      BY <2>1 DEF Throws
    <3> HIDE DEF d
    <3> QED
      BY <1>g, <1>t, <3>1, <3>2, PassGoesOn DEF ends
  <2>2. CASE Settled(p)
    BY <1>d, <1>g, <2>2, PassFacts, PassGoesOn DEF Settled
  <2> QED
    BY <1>g, <2>1, <2>2
<1>1. CASE Tick(p)
  <2> DEFINE r == mem[p]
             ticking == IF r.state = "active" THEN [r EXCEPT !.next = "observe-forge"] ELSE r
             on == [drive[p] EXCEPT !.at = "observe", !.armed = ticking.head]
  <2>1. PICK ok \in BOOLEAN :
           /\ Fault(~ok)
           /\ updateRecord(p, ticking, ok)
           /\ IF ~ok THEN Throws(p)
              ELSE IF ticking.state = "active" THEN Pass(p, on) ELSE Settled(p)
    BY <1>1 DEF Tick
  <2>2. forge' = forge /\ exec' = exec /\ timers' = timers /\ moves' = moves
    BY <1>1 DEF Tick
  <2>3. mem[p] \in Record => Sound(p, ticking)
    BY MarkedIsSound DEF Nexts
  <2>4. ticking.state = "active" => ticking.head \in Heads
    <3>1. CASE mem[p] \in Record
      BY <2>3, <3>1, RecordFacts DEF Sound
    <3>2. CASE mem[p] = Absent
      BY <3>2 DEF Absent
    <3> QED
      BY <1>m, <3>1, <3>2
  <2>5. ticking.state = "active" => on \in Passes /\ on.state = drive[p].state
    BY <1>d, <2>4, ArmedPass DEF Steps
  <2> HIDE DEF ticking, on
  <2>6. SnapshotInv' /\ loaded' /\ Kept(file, file', forge)
    BY <1>l, <2>1, <2>2, <2>3, UpdateStep
  <2>7. drive' \in [PRs -> Passes] /\ PassIsTrue'
    <3>1. CASE Pass(p, on) /\ ticking.state = "active"
      BY <1>t, <2>2, <2>5, <2>6, <3>1, PassGoesOn DEF ends
    <3> QED
      BY <1>g, <2>1, <2>2, <2>6, <3>1
  <2>8. faults' \in 0 .. MaxFaults
    BY <1>0, <2>1, FaultCount DEF HostTypes
  <2> QED
    BY <1>0, <1>a, <2>2, <2>6, <2>7, <2>8 DEF HostTypes
<1>2. CASE Observe(p)
  <2> DEFINE to == IF forge[p].state = "open" /\ ~movedHead(p) /\ ~forge[p].intent
                     THEN "armLookup" ELSE "settle"
             on == [drive[p] EXCEPT !.at = to, !.state = forge[p].state, !.moved = movedHead(p)]
  <2>1. PICK ok \in BOOLEAN : Fault(~ok) /\ IF ~ok THEN Throws(p) ELSE Pass(p, on)
    BY <1>2 DEF Observe
  <2>2. UNCHANGED <<forge, file, mem, loaded, exec, timers, moves>>
    BY <1>2 DEF Observe
  <2>3. to \in Steps /\ movedHead(p) \in BOOLEAN
    BY DEF Steps, movedHead
  <2> HIDE DEF to
  <2>4. on \in Passes /\ on.state = forge[p].state
    <3>1. on = Observed(drive[p], to, forge[p].state, movedHead(p))
      BY DEF Observed
    <3>2. /\ Observed(drive[p], to, forge[p].state, TRUE) \in Passes
          /\ Observed(drive[p], to, forge[p].state, TRUE).state = forge[p].state
          /\ Observed(drive[p], to, forge[p].state, FALSE) \in Passes
          /\ Observed(drive[p], to, forge[p].state, FALSE).state = forge[p].state
      BY <1>d, <1>s, <2>3, ObservedPass
    <3>3. movedHead(p) = TRUE \/ movedHead(p) = FALSE
      BY <2>3
    <3> HIDE DEF on
    <3> QED
      BY <3>1, <3>2, <3>3, Zenon
  <2> HIDE DEF on
  <2>5. SnapshotInv' /\ loaded' /\ Kept(file, file', forge)
    BY <1>u, <2>2
  <2>6. drive' \in [PRs -> Passes] /\ PassIsTrue'
    <3>1. CASE Pass(p, on)
      BY <2>2, <2>4, <2>5, <3>1, PassGoesOn
    <3> QED
      BY <1>g, <2>1, <2>2, <2>5, <3>1
  <2>7. faults' \in 0 .. MaxFaults
    BY <1>0, <2>1, FaultCount DEF HostTypes
  <2> QED
    BY <1>0, <1>a, <2>2, <2>5, <2>6, <2>7 DEF HostTypes
<1>3. CASE ArmLookup(p)
  <2> DEFINE merged == [drive[p] EXCEPT !.at = "settle", !.state = "merged"]
             on == [drive[p] EXCEPT !.at = "armPost"]
  <2>1. PICK ok \in BOOLEAN :
           /\ Fault(~ok)
           /\ IF ~ok THEN Throws(p)
              ELSE IF forge[p].state = "merged" THEN Pass(p, merged) ELSE Pass(p, on)
    BY <1>3 DEF ArmLookup
  <2>2. UNCHANGED <<forge, file, mem, loaded, exec, timers, moves>>
    BY <1>3 DEF ArmLookup
  <2>3. merged \in Passes /\ merged.state = "merged" /\ on \in Passes /\ on.state = drive[p].state
    <3>1. merged = Seen(drive[p], "settle", "merged")
      BY DEF Seen
    <3>2. on \in Passes /\ on.state = drive[p].state
      BY <1>d, PassFacts DEF Steps
    <3> HIDE DEF merged, on
    <3> QED
      BY <1>d, <3>1, <3>2, SeenPass DEF Steps
  <2> HIDE DEF merged, on
  <2>4. SnapshotInv' /\ loaded' /\ Kept(file, file', forge)
    BY <1>u, <2>2
  <2>5. drive' \in [PRs -> Passes] /\ PassIsTrue'
    <3>1. CASE Pass(p, merged) /\ forge[p].state = "merged"
      BY <2>2, <2>3, <2>4, <3>1, PassGoesOn
    <3>2. CASE Pass(p, on)
      BY <1>t, <2>2, <2>3, <2>4, <3>2, PassGoesOn DEF ends
    <3> QED
      BY <1>g, <2>1, <2>2, <2>4, <3>1, <3>2
  <2>6. faults' \in 0 .. MaxFaults
    BY <1>0, <2>1, FaultCount DEF HostTypes
  <2> QED
    BY <1>0, <1>a, <2>2, <2>4, <2>5, <2>6 DEF HostTypes
<1>4. CASE ArmPost(p)
  <2> DEFINE on == [drive[p] EXCEPT !.at = "armView"]
  <2>1. PICK done \in BOOLEAN, ok \in BOOLEAN :
           /\ Fault(~ok /\ forge[p].state = "open")
           /\ forge' = [forge EXCEPT ![p].intent = @ \/ done]
           /\ IF ok THEN Pass(p, on) ELSE Throws(p)
    BY <1>4 DEF ArmPost
  <2>2. UNCHANGED <<file, mem, loaded, exec, timers, moves>>
    BY <1>4 DEF ArmPost
  <2>3. on \in Passes /\ on.state = drive[p].state
    BY <1>d, PassFacts DEF Steps
  <2> HIDE DEF on
  <2>4. forge' \in Forges /\ \A q \in PRs : forge'[q].state = forge[q].state
    BY <1>0, <2>1 DEF HostTypes, Forges
  <2>5. SnapshotInv' /\ loaded' /\ Kept(file, file', forge)
    BY <1>u, <2>2, <2>4
  <2>6. drive' \in [PRs -> Passes] /\ PassIsTrue'
    <3>1. CASE Pass(p, on)
      BY <1>t, <2>3, <2>4, <2>5, <3>1, PassGoesOn DEF ends
    <3> QED
      BY <1>g, <2>1, <2>4, <2>5, <3>1
  <2>7. faults' \in 0 .. MaxFaults
    BY <1>0, <2>1, FaultCount DEF HostTypes
  <2> QED
    BY <1>0, <1>a, <2>2, <2>4, <2>5, <2>6, <2>7 DEF HostTypes
<1>5. CASE ArmView(p)
  <2> DEFINE on == [drive[p] EXCEPT !.at = "settle", !.state = forge[p].state]
  <2>1. PICK ok \in BOOLEAN : Fault(~ok) /\ IF ~ok THEN Throws(p) ELSE Pass(p, on)
    BY <1>5 DEF ArmView
  <2>2. UNCHANGED <<forge, file, mem, loaded, exec, timers, moves>>
    BY <1>5 DEF ArmView
  <2>3. on \in Passes /\ on.state = forge[p].state
    <3>1. on = Seen(drive[p], "settle", forge[p].state)
      BY DEF Seen
    <3> HIDE DEF on
    <3> QED
      BY <1>d, <1>s, <3>1, SeenPass DEF Steps
  <2> HIDE DEF on
  <2>4. SnapshotInv' /\ loaded' /\ Kept(file, file', forge)
    BY <1>u, <2>2
  <2>5. drive' \in [PRs -> Passes] /\ PassIsTrue'
    <3>1. CASE Pass(p, on)
      BY <2>2, <2>3, <2>4, <3>1, PassGoesOn
    <3> QED
      BY <1>g, <2>1, <2>2, <2>4, <3>1
  <2>6. faults' \in 0 .. MaxFaults
    BY <1>0, <2>1, FaultCount DEF HostTypes
  <2> QED
    BY <1>0, <1>a, <2>2, <2>4, <2>5, <2>6 DEF HostTypes
<1>6. CASE Settle(p)
  <2> DEFINE d == drive[p]
             terminal == ends(d.state)
             to == IF terminal THEN "terminal" ELSE "active"
             a == IF terminal THEN "none" ELSE IF d.moved THEN "report-moved-head" ELSE "await-forge"
             r == [mem[p] EXCEPT !.state = to, !.next = a, !.outcome = terminal_outcome(d.state)]
  <2>1. PICK ok \in BOOLEAN :
           /\ Fault(~ok)
           /\ updateRecord(p, r, ok)
           /\ IF ok THEN Settled(p) ELSE Throws(p)
           /\ timers' = IF ok /\ ~terminal THEN timers \cup {p} ELSE timers
    BY <1>6 DEF Settle
  <2>2. forge' = forge /\ exec' = exec /\ moves' = moves
    BY <1>6 DEF Settle
  <2>3. /\ to \in {"active", "terminal"} /\ a \in Nexts
        /\ terminal_outcome(d.state) \in {"none", "merged", "closed"}
        /\ to = "terminal" => terminal_outcome(d.state) = forge[p].state
    BY <1>t DEF Nexts, terminal_outcome, ends
  <2> HIDE DEF to, a, terminal
  <2>4. ASSUME mem[p] \in Record PROVE Sound(p, r)
    <3>1. /\ r \in Record /\ r.owner = mem[p].owner /\ r.state = to
          /\ r.outcome = terminal_outcome(d.state)
      BY <2>3, <2>4 DEF Record, Nexts
    <3> QED
      BY <2>3, <3>1 DEF Sound
  <2> HIDE DEF r
  <2>5. SnapshotInv' /\ loaded' /\ Kept(file, file', forge)
    BY <1>l, <2>1, <2>2, <2>4, UpdateStep
  <2>6. drive' \in [PRs -> Passes] /\ PassIsTrue'
    BY <1>g, <2>1, <2>2, <2>5
  <2>7. faults' \in 0 .. MaxFaults /\ timers' \subseteq PRs
    BY <1>0, <2>1, FaultCount DEF HostTypes
  <2> QED
    BY <1>0, <1>a, <2>2, <2>5, <2>6, <2>7 DEF HostTypes
<1>7. CASE Catch(p)
  <2> DEFINE r == IF mem[p].state = "active" THEN [mem[p] EXCEPT !.next = "retry-forge"] ELSE mem[p]
  <2>1. PICK ok \in BOOLEAN : Fault(~ok) /\ updateRecord(p, r, ok)
    BY <1>7 DEF Catch
  <2>2. forge' = forge /\ exec' = exec /\ moves' = moves /\ timers' = timers \cup {p} /\ Settled(p)
    BY <1>7 DEF Catch
  <2>3. mem[p] \in Record => Sound(p, r)
    BY MarkedIsSound DEF Nexts
  <2> HIDE DEF r
  <2>4. SnapshotInv' /\ loaded' /\ Kept(file, file', forge)
    BY <1>l, <2>1, <2>2, <2>3, UpdateStep
  <2>5. drive' \in [PRs -> Passes] /\ PassIsTrue'
    BY <1>g, <2>2, <2>4
  <2>6. faults' \in 0 .. MaxFaults /\ timers' \subseteq PRs
    BY <1>0, <2>1, <2>2, FaultCount DEF HostTypes
  <2> QED
    BY <1>0, <1>a, <2>2, <2>4, <2>5, <2>6 DEF HostTypes
<1> QED
  BY <1>1, <1>2, <1>3, <1>4, <1>5, <1>6, <1>7 DEF PassStep

\* The forge's own steps, the timers' and the daemon's end.
LEMMA ForgeStep ==
    ASSUME CustodyInv,
           \/ \E p \in PRs : TimerFires(p) \/ ForgeMoves(p) \/ ForgeEnds(p)
           \/ Restart
           \/ UNCHANGED vars
    PROVE  CustodyInv' /\ Kept(file, file', forge)
<1>0. SnapshotInv /\ HostTypes /\ PassIsTrue
  BY InvParts
<1>f. forge \in Forges /\ \A p \in PRs : forge[p].state \in {"open", "merged", "closed"}
  BY <1>0 DEF HostTypes, Forges
<1>a. ASSUME SnapshotInv', forge' \in Forges, drive' \in [PRs -> Passes], PassIsTrue',
             moves' \in 0 .. MaxMoves, exec' \subseteq PRs, timers' \subseteq PRs,
             faults' \in 0 .. MaxFaults
      PROVE  CustodyInv'
  BY <1>a DEF CustodyInv, TypeOK, SnapshotInv, PassIsTrue, Forges
<1>u. ASSUME UNCHANGED <<file, mem, loaded, exec>>,
             \A q \in PRs : forge'[q].state = forge[q].state
      PROVE  SnapshotInv' /\ Kept(file, file', forge)
  <2>1. \A s : EndsAreTrue(s, forge) => EndsAreTrue(s, forge')
    BY <1>u DEF EndsAreTrue, Terminal, Held
  <2>2. loaded => Ahead(file, mem, forge')
    BY <1>0, <1>u DEF SnapshotInv, Ahead, Active, Held
  <2> QED
    BY <1>0, <1>u, <2>1, <2>2, SameIsKept DEF SnapshotInv
<1>1. ASSUME NEW p \in PRs, TimerFires(p) PROVE CustodyInv' /\ Kept(file, file', forge)
  <2>1. UNCHANGED <<forge, file, mem, loaded, exec, faults, moves>> /\ timers' = timers \ {p}
    BY <1>1 DEF TimerFires
  <2>2. drive' \in [PRs -> Passes] /\ PassIsTrue'
    <3>1. CASE drive[p].at = "idle" /\ p \in exec
      <4> DEFINE on == [Idle EXCEPT !.at = "tick"]
      <4>1. Pass(p, on)
        BY <1>1, <3>1 DEF TimerFires
      <4>2. on \in Passes /\ ~ends(on.state)
        <5>1. drive[p] \in Passes
          BY <1>0 DEF HostTypes
        <5> QED
          BY <5>1, PassFacts DEF ends
      <4>3. loaded
        BY <1>0, <3>1 DEF SnapshotInv
      <4> HIDE DEF on
      <4> QED
        BY <2>1, <4>1, <4>2, <4>3, PassGoesOn
    <3>2. CASE ~(drive[p].at = "idle" /\ p \in exec)
      BY <1>1, <2>1, <3>2, PassStays DEF TimerFires
    <3> QED
      BY <3>1, <3>2
  <2> QED
    BY <1>0, <1>a, <1>u, <2>1, <2>2 DEF HostTypes
<1>2. ASSUME NEW p \in PRs, ForgeMoves(p) PROVE CustodyInv' /\ Kept(file, file', forge)
  <2>1. UNCHANGED <<file, mem, loaded, exec, timers, drive, faults>>
    BY <1>2 DEF ForgeMoves
  <2>2. moves' \in 0 .. MaxMoves
    BY <1>0, <1>2, CustodyConstants DEF ForgeMoves, HostTypes
  <2>3. forge' \in Forges /\ \A q \in PRs : forge'[q].state = forge[q].state
    <3>1. CASE \E c \in Commits : forge' = [forge EXCEPT ![p].head = c]
      BY <1>f, <3>1 DEF Forges
    <3>2. CASE forge' = [forge EXCEPT ![p].intent = FALSE]
      BY <1>f, <3>2 DEF Forges
    <3> QED
      BY <1>2, <3>1, <3>2 DEF ForgeMoves
  <2>4. drive' \in [PRs -> Passes] /\ PassIsTrue'
    BY <2>1, <2>3, PassStays
  <2> QED
    BY <1>0, <1>a, <1>u, <2>1, <2>2, <2>3, <2>4 DEF HostTypes
<1>3. ASSUME NEW p \in PRs, ForgeEnds(p) PROVE CustodyInv' /\ Kept(file, file', forge)
  <2>1. UNCHANGED <<file, mem, loaded, exec, timers, drive, faults, moves>> /\ forge[p].state = "open"
    BY <1>3 DEF ForgeEnds
  <2>2. PICK end \in {"merged", "closed"} : forge' = [forge EXCEPT ![p].state = end, ![p].intent = FALSE]
    BY <1>3 DEF ForgeEnds
  <2>3. forge' \in Forges
    BY <1>f, <2>2 DEF Forges
  <2>4. \A q \in PRs : forge[q].state # "open" => forge'[q].state = forge[q].state
    BY <1>f, <2>1, <2>2 DEF Forges
  <2>5. \A s \in Snapshots : EndsAreTrue(s, forge) => EndsAreTrue(s, forge')
    <3> SUFFICES ASSUME NEW s \in Snapshots, EndsAreTrue(s, forge), NEW q \in Terminal(s)
                 PROVE  s[q].outcome = forge'[q].state
      BY DEF EndsAreTrue
    <3>1. q \in PRs /\ s[q] \in Record /\ s[q].outcome = forge[q].state
      BY HeldFacts DEF EndsAreTrue
    <3>2. s[q].outcome # "open"
      BY <3>1, RecordFacts
    <3> QED
      BY <2>4, <3>1, <3>2
  <2>6. Ahead(file, mem, forge) => Ahead(file, mem, forge')
    <3>1. \A q \in Active(file) : q \in PRs
      BY DEF Active, Held
    <3> QED
      BY <2>4, <3>1 DEF Ahead
  <2>7. SnapshotInv' /\ Kept(file, file', forge)
    BY <1>0, <2>1, <2>5, <2>6, SameIsKept DEF SnapshotInv
  <2>8. PassIsTrue'
    <3> SUFFICES ASSUME NEW q \in PRs
                 PROVE  /\ drive[q].at # "idle" => loaded
                        /\ ends(drive[q].state) => forge'[q].state = drive[q].state
      BY <2>1 DEF PassIsTrue, ends
    <3> QED
      BY <1>0, <2>4 DEF PassIsTrue, ends
  <2> QED
    BY <1>0, <1>a, <2>1, <2>3, <2>7, <2>8 DEF HostTypes
<1>4. CASE Restart
  <2>1. /\ mem' = Empty /\ loaded' = FALSE /\ exec' = {} /\ timers' = {} /\ drive' = [p \in PRs |-> Idle]
        /\ UNCHANGED <<forge, file, moves>>
    BY <1>4 DEF Restart
  <2>2. faults' \in 0 .. MaxFaults
    BY <1>0, <1>4, FaultCount DEF Restart, HostTypes
  <2>3. Empty \in Snapshots /\ Terminal(Empty) = {}
    BY DEF Empty, Snapshots, Terminal, Held
  <2>4. Idle \in Passes /\ Idle.at = "idle" /\ ~ends(Idle.state)
    BY DEF Idle, Passes, Steps, Heads, ends
  <2>5. SnapshotInv' /\ Kept(file, file', forge)
    BY <1>0, <2>1, <2>3, SameIsKept DEF SnapshotInv, EndsAreTrue
  <2>6. drive' \in [PRs -> Passes] /\ \A q \in PRs : drive'[q] = Idle
    BY <2>1, <2>4
  <2>7. PassIsTrue'
    BY <2>4, <2>6 DEF PassIsTrue, ends
  <2> QED
    BY <1>0, <1>a, <2>1, <2>2, <2>5, <2>6, <2>7 DEF HostTypes
<1>5. CASE UNCHANGED vars
  <2>1. UNCHANGED <<forge, file, mem, loaded, exec, timers, drive, faults, moves>>
    BY <1>5 DEF vars
  <2>2. drive' \in [PRs -> Passes] /\ PassIsTrue'
    BY <2>1, PassStays
  <2> QED
    BY <1>0, <1>a, <1>u, <2>1, <2>2 DEF HostTypes
<1> QED
  BY <1>1, <1>2, <1>3, <1>4, <1>5

\* The invariant holds of the first state: nothing is promised, nothing observed.
LEMMA CustodyInit == Init => CustodyInv
<1> SUFFICES ASSUME Init PROVE CustodyInv
  OBVIOUS
<1>1. Empty \in Snapshots /\ Terminal(Empty) = {} /\ Active(Empty) = {}
  BY DEF Empty, Snapshots, Terminal, Active, Held
<1>2. Idle \in Passes /\ Idle.at = "idle" /\ ~ends(Idle.state)
  BY DEF Idle, Passes, Steps, Heads, ends
<1>3. SnapshotInv
  BY <1>1 DEF Init, SnapshotInv, EndsAreTrue, Ahead
<1>4. HostTypes
  <2>1. forge \in Forges
    <3>1. [state : {"open"}, head : Commits, intent : {FALSE}]
            \subseteq [state : {"open", "merged", "closed"}, head : Commits, intent : BOOLEAN]
      OBVIOUS
    <3> QED
      BY <3>1 DEF Init, Forges
  <2> QED
    BY <1>2, <2>1, CustodyConstants DEF Init, HostTypes
<1>5. PassIsTrue
  BY <1>2 DEF Init, PassIsTrue
<1> QED
  BY <1>3, <1>4, <1>5, InvParts

\* Every step keeps the invariant, and every promise of the file.
LEMMA CustodyStep == CustodyInv /\ [Next]_vars => CustodyInv' /\ Kept(file, file', forge)
<1> SUFFICES ASSUME CustodyInv, [Next]_vars PROVE CustodyInv' /\ Kept(file, file', forge)
  OBVIOUS
<1> QED
  BY CustodianStep, DriverStep, ForgeStep DEF Next, Tend

\* The custodian's records, passes and timers are always well typed: no end is
\* recorded that is not one.
THEOREM TypeCorrect == Spec => []TypeOK
<1>1. CustodyInv => TypeOK
  BY DEF CustodyInv
<1> QED
  BY <1>1, CustodyInit, CustodyStep, PTL DEF Spec

\* A promise in the file stays there until its pull request has ended, and an end
\* is recorded as the forge has it: for any number of pull requests, restarts,
\* failed calls and failed writes.
THEOREM PromisesAreKept == Spec => ObligationsAreKept
<1>1. CustodyInv /\ [Next]_vars => [Kept(file, file', forge)]_vars
  BY CustodyStep
<1>2. ObligationsAreKept <=> [][Kept(file, file', forge)]_vars
  BY DEF ObligationsAreKept, Kept
<1> QED
  BY <1>1, <1>2, CustodyInit, CustodyStep, PTL DEF Spec
=============================================================================

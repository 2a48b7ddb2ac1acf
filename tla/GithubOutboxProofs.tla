-------------------------- MODULE GithubOutboxProofs --------------------------
(***************************************************************************)
(* Proofs about GithubOutbox: it implements WriteOnce, it keeps the        *)
(* obligations in its file, its receipts of transitions are whole, and its *)
(* entries are one array without holes.                                    *)
(***************************************************************************)
EXTENDS GithubOutbox, TLAPS, FiniteSetTheorems

\* A push carries no marker, and a transition two writes: neither shares its key.
OwnKeys ==
    \A q, r \in Requests : Kind[r] # "post" /\ KeyOf[q] = KeyOf[r] => q = r

-----------------------------------------------------------------------------
(* The inductive invariant                                                   *)

Saved == [req : Requests, state : {"pending", "published"}, at : Nat]

\* The entries are saved under the keys of their requests.
Keyed(s) ==
    /\ s \in [Keys -> Saved \cup {Absent}]
    /\ \A k \in Held(s) : KeyOf[s[k].req] = k

Shape ==
    /\ Keyed(file)
    /\ Keyed(mem)
    /\ loaded \in BOOLEAN
    /\ op \in Operations
    /\ todo \in Seq(Requests)
    /\ posts \in [Requests -> Nat]
    /\ labelled \subseteq Requests

\* What is under way is an entry in memory, and the head of the resume it belongs to.
OpIsPending ==
    op # Idle => /\ loaded
                 /\ KeyOf[op.req] \in Pending(mem)
                 /\ mem[KeyOf[op.req]].req = op.req
                 /\ op.resumed => todo # <<>>

\* Memory forgets an obligation of the file only when GitHub has it.
MemoryIsAhead ==
    loaded => \A k \in Pending(file) :
                \/ k \in Pending(mem) /\ mem[k].req = file[k].req
                \/ \E r \in Requests : KeyOf[r] = k /\ posts[r] > 0

\* Nothing is recorded as published before some write under its key took effect.
RecordIsPosted ==
    op.at = "record" => \E q \in Requests : KeyOf[q] = KeyOf[op.req] /\ posts[q] > 0

KeptInv == Shape /\ OpIsPending /\ MemoryIsAhead /\ RecordIsPosted

\* With p the counts of effects and l the labelled transitions: some write under the
\* key of r took effect, and a lookup can list it.
Marked(p, r) == \E q \in Listed : KeyOf[q] = KeyOf[r] /\ p[q] > 0

Effective(p, l, r) ==
    /\ r \in Listed => Marked(p, r)
    /\ Kind[r] = "transition" => r \in l /\ p[r] > 0

\* What is published took effect.
PublishedIsEffective(p, l, s) == \A k \in Published(s) : Effective(p, l, s[k].req)

\* How far GitHub is when the operation is at each of its steps.
OpIsInStep ==
    /\ op.at = "record" => Effective(posts, labelled, op.req)
    /\ op.at = "post" /\ op.req \in Listed => ~Marked(posts, op.req)
    /\ op.at \in {"lookup", "post"} => Kind[op.req] # "push"
    /\ op.at \in {"lookup", "post"} /\ Kind[op.req] = "transition" => op.req \in labelled
    /\ op.at = "send" => Kind[op.req] # "post"

\* One write per key.
OnePost ==
    /\ \A r \in Listed : posts[r] <= 1
    /\ \A q, r \in Listed : posts[q] > 0 /\ posts[r] > 0 /\ KeyOf[q] = KeyOf[r] => q = r

OnceInv ==
    /\ PublishedIsEffective(posts, labelled, file)
    /\ PublishedIsEffective(posts, labelled, mem)
    /\ OpIsInStep
    /\ OnePost
    /\ \A r \in receipts : r \in Requests /\ Effective(posts, labelled, r)

-----------------------------------------------------------------------------
(* Facts about the entries                                                   *)

\* There are no more keys than requests.
LEMMA KeysAreFinite == IsFiniteSet(Keys)
<1>1. PICK f \in [Requests -> Keys] : \A r \in Requests : f[r] = KeyOf[r]
  <2>1. [r \in Requests |-> KeyOf[r]] \in [Requests -> Keys]
    BY DEF Keys
  <2> QED
    BY <2>1
<1>2. f \in Surjection(Requests, Keys)
  BY <1>1 DEF Keys, Surjection
<1> QED
  BY <1>2, OutboxConstants, FS_Surjection

\* So entries can be counted.
LEMMA CountIsNat ==
    ASSUME NEW S \in SUBSET Keys
    PROVE  Cardinality(S) \in Nat
BY KeysAreFinite, FS_Subset, FS_CardinalityType

\* What an entry under a key looks like.
LEMMA EntryFacts ==
    ASSUME NEW s, Keyed(s), NEW k \in Held(s)
    PROVE  s[k] \in Saved /\ KeyOf[s[k].req] = k
BY DEF Keyed, Held

\* An entry is never the absent one, and a change of its state or place is an entry.
LEMMA SavedFacts ==
    ASSUME NEW e \in Saved
    PROVE  /\ e # Absent
           /\ e.req \in Requests
           /\ e.state \in {"pending", "published"}
           /\ \A n \in Nat : /\ [e EXCEPT !.at = n] \in Saved
                             /\ [e EXCEPT !.at = n].req = e.req
                             /\ [e EXCEPT !.at = n].state = e.state
           /\ /\ [e EXCEPT !.state = "published"] \in Saved
              /\ [e EXCEPT !.state = "published"].req = e.req
              /\ [e EXCEPT !.state = "published"].state = "published"
<1>1. /\ e.req \in Requests
      /\ e.state \in {"pending", "published"}
      /\ e.at \in Nat
      /\ \A n \in Nat : /\ [e EXCEPT !.at = n] \in Saved
                        /\ [e EXCEPT !.at = n].req = e.req
                        /\ [e EXCEPT !.at = n].state = e.state
      /\ /\ [e EXCEPT !.state = "published"] \in Saved
         /\ [e EXCEPT !.state = "published"].req = e.req
         /\ [e EXCEPT !.state = "published"].state = "published"
  BY DEF Saved
<1>2. Absent.state = "absent"
  BY DEF Absent
<1> QED
  BY <1>1, <1>2

\* Filtering keeps the requests and the states of what it keeps, and nothing else.
LEMMA FilteredFacts ==
    ASSUME NEW s, Keyed(s), NEW kept \in SUBSET Held(s)
    PROVE  /\ Keyed(Filtered(s, kept))
           /\ Held(Filtered(s, kept)) = kept
           /\ \A k \in kept : /\ Filtered(s, kept)[k].req = s[k].req
                              /\ Filtered(s, kept)[k].state = s[k].state
<1> DEFINE t == Filtered(s, kept)
           at(k) == Cardinality({j \in kept : s[j].at <= s[k].at})
<1>0. kept \subseteq Keys
  BY DEF Held
<1>1. ASSUME NEW k \in kept
      PROVE  t[k] \in Saved /\ t[k].req = s[k].req /\ t[k].state = s[k].state
  <2>1. at(k) \in Nat
    BY <1>0, CountIsNat
  <2>2. s[k] \in Saved
    BY EntryFacts
  <2>3. PICK n \in Nat : t[k] = [s[k] EXCEPT !.at = n]
    BY <1>0, <2>1 DEF Filtered
  <2>4. /\ [s[k] EXCEPT !.at = n] \in Saved
        /\ [s[k] EXCEPT !.at = n].req = s[k].req
        /\ [s[k] EXCEPT !.at = n].state = s[k].state
    BY <2>2 DEF Saved
  <2> QED
    BY <2>3, <2>4
<1>2. ASSUME NEW k \in Keys \ kept PROVE t[k] = Absent
  BY DEF Filtered
<1>3. t \in [Keys -> Saved \cup {Absent}]
  <2>1. t = [k \in Keys |-> t[k]]
    BY DEF Filtered
  <2> QED
    BY <1>1, <1>2, <2>1
<1>4. Held(t) = kept
  BY <1>0, <1>1, <1>2, SavedFacts DEF Held
<1>5. \A k \in kept : KeyOf[t[k].req] = k
  BY <1>1, EntryFacts
<1> QED
  BY <1>1, <1>3, <1>4, <1>5 DEF Keyed

\* Compaction keeps every pending entry, adds none, and changes no state or request.
LEMMA CompactFacts ==
    ASSUME NEW s, Keyed(s)
    PROVE  /\ Keyed(compactOutboxSnapshot(s))
           /\ Pending(compactOutboxSnapshot(s)) = Pending(s)
           /\ Published(compactOutboxSnapshot(s)) \subseteq Published(s)
           /\ \A k \in Held(compactOutboxSnapshot(s)) :
                /\ k \in Held(s)
                /\ compactOutboxSnapshot(s)[k].req = s[k].req
                /\ compactOutboxSnapshot(s)[k].state = s[k].state
<1> DEFINE kept == Pending(s) \cup {k \in Published(s) :
                     Cardinality({j \in Published(s) : s[j].at > s[k].at}) < Retention}
           t == compactOutboxSnapshot(s)
<1>1. kept \in SUBSET Held(s)
  BY DEF Pending, Published
<1>2. t = Filtered(s, kept)
  BY DEF compactOutboxSnapshot
<1>3. Pending(s) \subseteq kept
  OBVIOUS
<1> HIDE DEF t, kept
<1>4. /\ Keyed(t)
      /\ Held(t) = kept
      /\ \A k \in kept : t[k].req = s[k].req /\ t[k].state = s[k].state
  BY <1>1, <1>2, FilteredFacts
<1>5. Pending(t) = Pending(s) /\ Published(t) \subseteq Published(s)
  BY <1>1, <1>3, <1>4 DEF Pending, Published
<1> QED
  BY <1>1, <1>4, <1>5 DEF t

\* What is loaded is the memory, or the file as far as compaction keeps it.
LEMMA LoadFacts ==
    ASSUME Shape
    PROVE  /\ Keyed(load)
           /\ loaded => load = mem
           /\ ~loaded => /\ Pending(load) = Pending(file)
                         /\ \A k \in Held(load) : /\ k \in Held(file)
                                                  /\ load[k].req = file[k].req
                                                  /\ load[k].state = file[k].state
BY CompactFacts DEF Shape, load

\* The two changes an operation makes to the entries.
Queued(s, r, n) == [s EXCEPT ![KeyOf[r]] = [req |-> r, state |-> "pending", at |-> n]]

AsPublished(s, k) == [s EXCEPT ![k].state = "published"]

\* A new entry under a free key.
LEMMA QueueFacts ==
    ASSUME NEW s, Keyed(s), NEW r \in Requests, s[KeyOf[r]] = Absent, NEW n \in Nat
    PROVE  /\ Keyed(Queued(s, r, n))
           /\ Pending(Queued(s, r, n)) = Pending(s) \cup {KeyOf[r]}
           /\ Published(Queued(s, r, n)) = Published(s)
           /\ Queued(s, r, n)[KeyOf[r]].req = r
           /\ \A k \in Held(s) : k # KeyOf[r] /\ Queued(s, r, n)[k] = s[k]
<1> DEFINE t == Queued(s, r, n)
           e == [req |-> r, state |-> "pending", at |-> n]
<1>1. e \in Saved /\ e.req = r /\ e.state = "pending"
  BY DEF Saved
<1>2. e # Absent
  BY <1>1, SavedFacts
<1>3. KeyOf[r] \in Keys
  BY DEF Keys
<1>4. /\ t \in [Keys -> Saved \cup {Absent}]
      /\ t[KeyOf[r]] = e
      /\ \A k \in Keys \ {KeyOf[r]} : t[k] = s[k]
  BY <1>1, <1>3 DEF Keyed, Queued
<1> HIDE DEF e, t
<1>5. Held(t) = Held(s) \cup {KeyOf[r]} /\ KeyOf[r] \notin Held(s)
  BY <1>2, <1>3, <1>4 DEF Held
<1>6. Held(s) \subseteq Keys
  BY DEF Held
<1>7. Keyed(t)
  BY <1>1, <1>4, <1>5, <1>6 DEF Keyed
<1>8. \A k \in Held(s) : k # KeyOf[r] /\ t[k] = s[k]
  BY <1>4, <1>5, <1>6
<1>9. t[KeyOf[r]].state = "pending" /\ t[KeyOf[r]].req = r
  BY <1>1, <1>4
<1>10. Pending(t) = Pending(s) \cup {KeyOf[r]}
  BY <1>5, <1>8, <1>9 DEF Pending
<1>11. Published(t) = Published(s)
  BY <1>5, <1>10 DEF Published, Pending
<1> QED
  BY <1>7, <1>8, <1>9, <1>10, <1>11 DEF t

\* A pending entry becomes published.
LEMMA PublishFacts ==
    ASSUME NEW s, Keyed(s), NEW k \in Pending(s)
    PROVE  /\ Keyed(AsPublished(s, k))
           /\ Pending(AsPublished(s, k)) = Pending(s) \ {k}
           /\ Published(AsPublished(s, k)) = Published(s) \cup {k}
           /\ \A j \in Held(s) : AsPublished(s, k)[j].req = s[j].req
<1> DEFINE t == AsPublished(s, k)
<1>1. k \in Held(s) /\ Held(s) \subseteq Keys
  BY DEF Pending, Held
<1>2. s[k] \in Saved
  BY <1>1, EntryFacts
<1>3. t = [s EXCEPT ![k] = [s[k] EXCEPT !.state = "published"]]
  BY DEF AsPublished
<1> DEFINE e == [s[k] EXCEPT !.state = "published"]
<1>4. e \in Saved /\ e.req = s[k].req /\ e.state = "published"
  BY <1>2 DEF Saved
<1>5. /\ t \in [Keys -> Saved \cup {Absent}]
      /\ t[k] = e
      /\ \A j \in Keys \ {k} : t[j] = s[j]
  BY <1>1, <1>3, <1>4 DEF Keyed
<1> HIDE DEF e, t
<1>a. e # Absent
  BY <1>4, SavedFacts
<1>6. Held(t) = Held(s)
  BY <1>1, <1>5, <1>a DEF Held
<1>7. \A j \in Held(s) : t[j].req = s[j].req
  BY <1>1, <1>4, <1>5
<1>8. Keyed(t)
  BY <1>5, <1>6, <1>7 DEF Keyed
<1>9. Pending(t) = Pending(s) \ {k}
  BY <1>1, <1>4, <1>5, <1>6 DEF Pending
<1>10. Published(t) = Published(s) \cup {k}
  BY <1>1, <1>6, <1>9 DEF Published, Pending
<1> QED
  BY <1>7, <1>8, <1>9, <1>10 DEF t

-----------------------------------------------------------------------------
(* KeptInv                                                                   *)

\* An obligation of the file is in what an operation loads, or GitHub has it.
LEMMA LoadIsAhead ==
    ASSUME KeptInv, NEW k \in Pending(file)
    PROVE  \/ k \in Pending(load) /\ load[k].req = file[k].req
           \/ \E r \in Requests : KeyOf[r] = k /\ posts[r] > 0
<1>1. CASE loaded
  BY <1>1, LoadFacts DEF KeptInv, MemoryIsAhead
<1>2. CASE ~loaded
  <2>1. k \in Pending(load) /\ k \in Held(load)
    BY <1>2, LoadFacts DEF KeptInv, Pending
  <2> QED
    BY <1>2, <2>1, LoadFacts DEF KeptInv
<1> QED
  BY <1>1, <1>2 DEF KeptInv, Shape

\* Reading the file is harmless.
LEMMA LoadedKeeps ==
    ASSUME KeptInv, Loaded, UNCHANGED posts
    PROVE  Keyed(mem') /\ Keyed(file') /\ loaded' /\ MemoryIsAhead'
<1>1. mem' = load /\ loaded' /\ file' = file
  BY DEF Loaded
<1> QED
  BY <1>1, LoadFacts, LoadIsAhead DEF KeptInv, Shape, MemoryIsAhead

\* Queueing a request, or finding it already queued, keeps the obligations.
LEMMA KeptExecute ==
    ASSUME KeptInv, op = Idle, NEW r \in Requests, NEW b \in BOOLEAN, b => todo # <<>>,
           Execute(r, b)
    PROVE  KeptInv'
<1> USE DEF KeptInv
<1>a. RecordIsPosted'
  <2>1. op' = Idle \/ op'.at \in {"lookup", "send"}
    BY DEF Execute, ExecuteRefused, ExecuteAnswered, ExecutePending, ExecuteQueued, Throw,
           Return, Upstream, Goto
  <2> QED
    BY <2>1 DEF RecordIsPosted, Idle
<1>0. /\ KeyOf[r] \in Keys
      /\ todo # <<>> => Tail(todo) \in Seq(Requests)
      /\ <<>> \in Seq(Requests)
      /\ Idle \in Operations
  BY DEF Keys, Shape, Operations
<1>1. CASE ExecuteRefused(r, b) \/ ExecuteAnswered(r, b)
  <2>1. Loaded /\ UNCHANGED <<posts, labelled>> /\ op' = Idle
    BY <1>1 DEF ExecuteRefused, ExecuteAnswered, Throw, Return
  <2>2. todo' \in Seq(Requests)
    BY <1>0, <1>1 DEF ExecuteRefused, ExecuteAnswered, Throw, Return, Shape
  <2> QED
    BY <1>a, <1>0, <2>1, <2>2, LoadedKeeps DEF Shape, OpIsPending
<1>2. CASE ExecutePending(r, b)
  <2>1. Loaded /\ UNCHANGED <<todo, posts, labelled>> /\ mem' = load
    BY <1>2 DEF ExecutePending, Loaded
  <2>2. /\ op' \in Operations
        /\ op'.req = r /\ op'.resumed = b
    BY <1>2 DEF ExecutePending, Upstream, Goto, Operations
  <2>3. KeyOf[r] \in Pending(mem') /\ mem'[KeyOf[r]].req = r
    BY <1>2, <2>1 DEF ExecutePending
  <2>4. Keyed(mem') /\ Keyed(file') /\ loaded' /\ MemoryIsAhead'
    BY <2>1, LoadedKeeps
  <2> QED
    BY <1>a, <2>1, <2>2, <2>3, <2>4 DEF Shape, OpIsPending
<1>3. CASE ExecuteQueued(r, b)
  <2>a. Held(load) \in SUBSET Keys
    BY DEF Held
  <2>b. Cardinality(Held(load)) \in Nat
    BY <2>a, CountIsNat
  <2>1. PICK n \in Nat : n = Cardinality(Held(load)) + 1
    BY <2>b
  <2>2. PICK ok \in BOOLEAN :
          /\ persist(Queued(load, r, n), ok)
          /\ IF ok THEN Upstream(r, b) /\ UNCHANGED todo ELSE Throw(b)
    BY <1>3, <2>1 DEF ExecuteQueued, Queued
  <2>3. load[KeyOf[r]] = Absent /\ UNCHANGED <<posts, labelled>>
    BY <1>3 DEF ExecuteQueued
  <2>4. loaded' /\ mem' = Queued(load, r, n) /\ file' = IF ok THEN mem' ELSE file
    BY <2>2 DEF persist
  <2>5. Keyed(load)
    BY LoadFacts
  <2>6. /\ Keyed(mem')
        /\ Pending(mem') = Pending(load) \cup {KeyOf[r]}
        /\ mem'[KeyOf[r]].req = r
        /\ \A k \in Held(load) : k # KeyOf[r] /\ mem'[k] = load[k]
    BY <2>3, <2>4, <2>5, QueueFacts
  <2>7. MemoryIsAhead'
    <3> SUFFICES ASSUME NEW k \in Pending(file')
                 PROVE  \/ k \in Pending(mem') /\ mem'[k].req = file'[k].req
                        \/ \E q \in Requests : KeyOf[q] = k /\ posts'[q] > 0
      BY DEF MemoryIsAhead
    <3>1. CASE ok
      BY <2>4, <3>1
    <3>2. CASE ~ok
      <4>1. file' = file /\ k \in Pending(file)
        BY <2>4, <3>2
      <4>2. CASE k \in Pending(load) /\ load[k].req = file[k].req
        BY <2>6, <4>1, <4>2 DEF Pending
      <4> QED
        BY <2>3, <4>1, <4>2, LoadIsAhead
    <3> QED
      BY <3>1, <3>2
  <2>8. CASE ok
    <3>1. op' \in Operations /\ op'.req = r /\ op'.resumed = b /\ todo' = todo
      BY <2>2, <2>8 DEF Upstream, Goto, Operations
    <3> QED
      BY <1>a, <2>3, <2>4, <2>6, <2>7, <2>8, <3>1 DEF Shape, OpIsPending
  <2>9. CASE ~ok
    <3>1. op' = Idle /\ todo' \in Seq(Requests)
      BY <1>0, <2>2, <2>9 DEF Throw, Shape
    <3> QED
      BY <1>a, <1>0, <2>3, <2>4, <2>6, <2>7, <2>9, <3>1 DEF Shape, OpIsPending
  <2> QED
    BY <2>8, <2>9
<1> QED
  BY <1>1, <1>2, <1>3 DEF Execute

\* A request to GitHub leaves the entries alone and forgets no write.
LEMMA KeptRequest ==
    ASSUME KeptInv, op # Idle,
           UNCHANGED <<file, mem, loaded>>,
           posts' \in [Requests -> Nat], \A r \in Requests : posts[r] > 0 => posts'[r] > 0,
           labelled' \subseteq Requests,
           NEW at \in {"lookup", "post", "record"},
           at = "record" => \E q \in Requests : KeyOf[q] = KeyOf[op.req] /\ posts'[q] > 0,
           \/ Throw(op.resumed)
           \/ Goto(op.req, at, op.resumed) /\ UNCHANGED todo
    PROVE  KeptInv'
<1> USE DEF KeptInv
<1>1. MemoryIsAhead'
  BY DEF MemoryIsAhead
<1>2. op.req \in Requests /\ op.resumed \in BOOLEAN
  BY DEF Shape, Operations
<1>3. CASE Throw(op.resumed)
  <2>1. op' = Idle /\ todo' \in Seq(Requests)
    BY <1>3 DEF Throw, Shape
  <2> QED
    BY <1>1, <2>1 DEF Shape, OpIsPending, RecordIsPosted, Operations, Idle
<1>4. CASE Goto(op.req, at, op.resumed) /\ UNCHANGED todo
  <2>1. op' \in Operations /\ op'.at = at /\ op'.req = op.req /\ op'.resumed = op.resumed
    BY <1>2, <1>4 DEF Goto, Operations
  <2> QED
    BY <1>1, <1>4, <2>1 DEF Shape, OpIsPending, RecordIsPosted
<1> QED
  BY <1>3, <1>4

\* The publication of the entry under way, and what becomes of the entries.
LEMMA KeptPublish ==
    ASSUME KeptInv, Publish
    PROVE  /\ KeptInv'
           /\ Published(mem') \subseteq Published(mem) \cup {KeyOf[op.req]}
           /\ Pending(mem') = Pending(mem) \ {KeyOf[op.req]}
           /\ \A k \in Held(mem') : k \in Held(mem) /\ mem'[k].req = mem[k].req
           /\ file' = mem' \/ file' = file
<1> USE DEF KeptInv
<1> DEFINE K == KeyOf[op.req]
           s == AsPublished(mem, K)
<1>1. op.at = "record" /\ op # Idle /\ UNCHANGED <<posts, labelled>>
  BY DEF Publish, Idle
<1>2. /\ op.req \in Requests /\ op.resumed \in BOOLEAN
      /\ K \in Pending(mem)
  BY <1>1 DEF Shape, Operations, OpIsPending
<1>3. PICK ok \in BOOLEAN :
        /\ persist(compactOutboxSnapshot(s), ok)
        /\ IF ok THEN Return(op.resumed) ELSE Throw(op.resumed)
  BY DEF Publish, AsPublished
<1>4. loaded' /\ mem' = compactOutboxSnapshot(s) /\ file' = IF ok THEN mem' ELSE file
  BY <1>3 DEF persist
<1>5. /\ Keyed(s)
      /\ Pending(s) = Pending(mem) \ {K}
      /\ Published(s) = Published(mem) \cup {K}
      /\ \A j \in Held(mem) : s[j].req = mem[j].req
  BY <1>2, PublishFacts DEF Shape
<1>6. Held(s) \subseteq Held(mem)
  BY <1>2, <1>5 DEF Pending, Published
<1> HIDE DEF s
<1>7. /\ Keyed(mem')
      /\ Pending(mem') = Pending(mem) \ {K}
      /\ Published(mem') \subseteq Published(mem) \cup {K}
      /\ \A k \in Held(mem') : k \in Held(mem) /\ mem'[k].req = mem[k].req
  BY <1>4, <1>5, <1>6, CompactFacts
<1>a. todo \in Seq(Requests) /\ (todo # <<>> => Tail(todo) \in Seq(Requests))
  BY DEF Shape
<1>b. op.resumed => todo # <<>>
  BY <1>1 DEF OpIsPending
<1>c. <<>> \in Seq(Requests)
  OBVIOUS
<1>8. op' = Idle /\ todo' \in Seq(Requests)
  <2>1. CASE Return(op.resumed)
    BY <1>a, <1>b, <2>1 DEF Return
  <2>2. CASE Throw(op.resumed)
    BY <1>a, <1>c, <2>2 DEF Throw
  <2> QED
    BY <1>3, <2>1, <2>2
<1>9. Idle \in Operations /\ Idle.at = "idle"
  BY DEF Operations, Idle
<1>10. MemoryIsAhead'
  <2> SUFFICES ASSUME NEW k \in Pending(file')
               PROVE  \/ k \in Pending(mem') /\ mem'[k].req = file'[k].req
                      \/ \E q \in Requests : KeyOf[q] = k /\ posts'[q] > 0
    BY DEF MemoryIsAhead
  <2>1. CASE ok
    BY <1>4, <2>1
  <2>2. CASE ~ok /\ k = K
    BY <1>1, <2>2 DEF RecordIsPosted
  <2>3. CASE ~ok /\ k # K
    <3>1. k \in Pending(file) /\ file' = file
      BY <1>4, <2>3
    <3>2. CASE k \in Pending(mem) /\ mem[k].req = file[k].req
      <4>1. k \in Pending(mem') /\ k \in Held(mem')
        BY <1>7, <2>3, <3>2 DEF Pending
      <4> QED
        BY <1>7, <3>1, <3>2, <4>1
    <3> QED
      BY <1>1, <3>1, <3>2 DEF MemoryIsAhead, OpIsPending
  <2> QED
    BY <2>1, <2>2, <2>3
<1>11. Keyed(file')
  BY <1>4, <1>7 DEF Shape
<1>12. KeptInv'
  BY <1>1, <1>4, <1>7, <1>8, <1>9, <1>10, <1>11 DEF Shape, OpIsPending, RecordIsPosted
<1> QED
  BY <1>4, <1>7, <1>12

\* The request to GitHub keeps them, whether it took effect or not.
LEMMA KeptSend ==
    ASSUME KeptInv, Send
    PROVE  KeptInv'
<1>1. op.at = "send" /\ op # Idle /\ UNCHANGED <<file, mem, loaded>>
  BY DEF Send, Idle
<1>2. op.req \in Requests /\ posts \in [Requests -> Nat] /\ labelled \subseteq Requests
  BY <1>1 DEF KeptInv, Shape, Operations
<1>3. PICK a \in Answers :
        /\ posts' = IF a.done /\ Kind[op.req] = "push" THEN [posts EXCEPT ![op.req] = 1] ELSE posts
        /\ labelled' = IF a.done /\ Kind[op.req] = "transition"
                         THEN labelled \cup {op.req} ELSE labelled
        /\ IF ~a.ok THEN Throw(op.resumed)
           ELSE /\ Goto(op.req, IF Kind[op.req] = "push" THEN "record" ELSE "lookup", op.resumed)
                /\ UNCHANGED todo
  BY DEF Send
<1>4. /\ posts' \in [Requests -> Nat]
      /\ \A r \in Requests : posts[r] > 0 => posts'[r] > 0
      /\ labelled' \subseteq Requests
  BY <1>2, <1>3
<1>5. CASE ~a.ok
  <2>1. Throw(op.resumed)
    BY <1>3, <1>5
  <2> QED
    BY <1>1, <1>4, <2>1, KeptRequest
<1>6. CASE a.ok
  <2>1. PICK at \in {"lookup", "record"} :
          /\ at = IF Kind[op.req] = "push" THEN "record" ELSE "lookup"
          /\ Goto(op.req, at, op.resumed) /\ UNCHANGED todo
    BY <1>3, <1>6
  <2>2. at = "record" => posts'[op.req] > 0
    BY <1>2, <1>3, <1>6, <2>1 DEF Answers
  <2> QED
    BY <1>1, <1>2, <1>4, <2>1, <2>2, KeptRequest
<1> QED
  BY <1>5, <1>6 DEF Answers

\* So does the search for the marker.
LEMMA KeptLookup ==
    ASSUME KeptInv, Lookup
    PROVE  KeptInv'
<1>1. op.at = "lookup" /\ op # Idle /\ UNCHANGED <<file, mem, loaded, posts, labelled>>
  BY DEF Lookup, Idle
<1>2. op.req \in Requests /\ posts \in [Requests -> Nat] /\ labelled \subseteq Requests
  BY <1>1 DEF KeptInv, Shape, Operations
<1>3. CASE Throw(op.resumed)
  BY <1>1, <1>2, <1>3, KeptRequest
<1>4. CASE Goto(op.req, IF findMarkedPublication(op.req) THEN "record" ELSE "post", op.resumed)
           /\ UNCHANGED todo
  <2>1. PICK at \in {"post", "record"} :
          /\ at = IF findMarkedPublication(op.req) THEN "record" ELSE "post"
          /\ Goto(op.req, at, op.resumed) /\ UNCHANGED todo
    BY <1>4
  <2>2. at = "record" => \E q \in Requests : KeyOf[q] = KeyOf[op.req] /\ posts'[q] > 0
    BY <1>1, <2>1 DEF findMarkedPublication
  <2> QED
    BY <1>1, <1>2, <2>1, <2>2, KeptRequest
<1> QED
  BY <1>3, <1>4 DEF Lookup

\* So does the post of the comment.
LEMMA KeptPost ==
    ASSUME KeptInv, Post
    PROVE  KeptInv'
<1>1. op.at = "post" /\ op # Idle /\ UNCHANGED <<file, mem, loaded, labelled>>
  BY DEF Post, Idle
<1>2. op.req \in Requests /\ posts \in [Requests -> Nat] /\ labelled \subseteq Requests
  BY <1>1 DEF KeptInv, Shape, Operations
<1>3. PICK a \in Answers :
        /\ posts' = IF a.done THEN [posts EXCEPT ![op.req] = @ + 1] ELSE posts
        /\ IF ~a.ok THEN Throw(op.resumed)
           ELSE Goto(op.req, "record", op.resumed) /\ UNCHANGED todo
  BY DEF Post
<1>4. /\ posts' \in [Requests -> Nat]
      /\ \A r \in Requests : posts[r] > 0 => posts'[r] > 0
  BY <1>2, <1>3
<1>5. CASE ~a.ok
  <2>1. Throw(op.resumed)
    BY <1>3, <1>5
  <2> QED
    BY <1>1, <1>2, <1>4, <2>1, KeptRequest
<1>6. CASE a.ok
  <2>1. Goto(op.req, "record", op.resumed) /\ UNCHANGED todo
    BY <1>3, <1>6
  <2>2. posts'[op.req] > 0
    BY <1>2, <1>3, <1>6 DEF Answers
  <2> QED
    BY <1>1, <1>2, <1>4, <2>1, <2>2, KeptRequest
<1> QED
  BY <1>5, <1>6 DEF Answers

\* Listing what is pending changes no entry.
LEMMA KeptResumeList ==
    ASSUME KeptInv, ResumeList
    PROVE  KeptInv'
<1>1. Loaded /\ UNCHANGED <<op, posts, labelled>> /\ op = Idle
  BY DEF ResumeList
<1>2. PICK t \in [1 .. Cardinality(Pending(load)) -> Requests] : todo' = t
  BY DEF ResumeList
<1>3. Pending(load) \in SUBSET Keys
  BY DEF Pending, Held
<1>4. Cardinality(Pending(load)) \in Nat
  BY <1>3, CountIsNat
<1>5. todo' \in Seq(Requests)
  BY <1>2, <1>4
<1>6. Keyed(mem') /\ Keyed(file') /\ loaded' /\ MemoryIsAhead'
  BY <1>1, LoadedKeeps
<1> QED
  BY <1>1, <1>5, <1>6 DEF KeptInv, Shape, OpIsPending, RecordIsPosted

\* A restart loses the memory and not the file.
LEMMA KeptRestart ==
    ASSUME KeptInv, Restart
    PROVE  KeptInv'
<1>1. /\ mem' = Empty /\ ~loaded' /\ loaded' \in BOOLEAN /\ op' = Idle /\ todo' = <<>>
      /\ UNCHANGED <<file, posts, labelled>>
  BY DEF Restart
<1>2. Keyed(Empty)
  BY DEF Keyed, Empty, Held
<1>3. Idle \in Operations /\ Idle.at = "idle" /\ <<>> \in Seq(Requests)
  BY DEF Operations, Idle
<1> QED
  BY <1>1, <1>2, <1>3
     DEF KeptInv, Shape, OpIsPending, MemoryIsAhead, RecordIsPosted

\* Every step keeps the obligations.
LEMMA KeptStep == KeptInv /\ [Next]_vars => KeptInv'
<1> SUFFICES ASSUME KeptInv, [Next]_vars PROVE KeptInv'
  OBVIOUS
<1>1. ASSUME NEW r \in Requests, publish(r) PROVE KeptInv'
  BY <1>1, KeptExecute DEF publish
<1>2. ASSUME ResumeNext PROVE KeptInv'
  <2>1. op = Idle /\ todo # <<>> /\ Execute(Head(todo), TRUE)
    BY <1>2 DEF ResumeNext
  <2>2. Head(todo) \in Requests
    BY <2>1 DEF KeptInv, Shape
  <2> QED
    BY <2>1, <2>2, KeptExecute
<1>3. CASE UNCHANGED vars
  BY <1>3 DEF vars, KeptInv, Shape, OpIsPending, MemoryIsAhead, RecordIsPosted
<1> QED
  BY <1>1, <1>2, <1>3, KeptResumeList, KeptSend, KeptLookup, KeptPost, KeptPublish, KeptRestart
     DEF Next, OpStep

\* An empty outbox owes nothing.
LEMMA KeptInit == Init => KeptInv
<1> SUFFICES ASSUME Init PROVE KeptInv
  OBVIOUS
<1>1. Keyed(Empty)
  BY DEF Keyed, Empty, Held
<1>2. Idle \in Operations /\ Idle.at = "idle" /\ <<>> \in Seq(Requests)
  BY DEF Operations, Idle
<1> QED
  BY <1>1, <1>2
     DEF Init, KeptInv, Shape, OpIsPending, MemoryIsAhead, RecordIsPosted

\* The obligations are kept throughout.
LEMMA KeptAlways == Spec => []KeptInv
BY KeptInit, KeptStep, PTL DEF Spec

\* A write in the file stays there until GitHub has it: whatever is queued, published,
\* shed, resumed or lost with the daemon, for any retention, any number of requests and
\* any sharing of keys (execute, compactOutboxSnapshot).
THEOREM ObligationsAlwaysKept == Spec => ObligationsAreKept
<1> DEFINE Kept(k) == \/ k \in Pending(file') /\ file'[k].req = file[k].req
                      \/ \E r \in Requests : KeyOf[r] = k /\ posts[r] > 0
<1>1. KeptInv /\ [Next]_vars => [\A k \in Pending(file) : Kept(k)]_vars
  <2> SUFFICES ASSUME KeptInv, Next, NEW k \in Pending(file) PROVE Kept(k)
    OBVIOUS
  <2>1. CASE UNCHANGED file
    BY <2>1
  <2>2. ASSUME NEW r \in Requests, NEW b \in BOOLEAN, ExecuteQueued(r, b) PROVE Kept(k)
    <3>a. Held(load) \in SUBSET Keys
      BY DEF Held
    <3>b. Cardinality(Held(load)) \in Nat
      BY <3>a, CountIsNat
    <3>1. PICK n \in Nat : n = Cardinality(Held(load)) + 1
      BY <3>b
    <3>2. load[KeyOf[r]] = Absent /\ (file' = Queued(load, r, n) \/ file' = file)
      BY <2>2, <3>1 DEF ExecuteQueued, persist, Queued
    <3>3. Keyed(load)
      BY LoadFacts DEF KeptInv
    <3>4. CASE file' = Queued(load, r, n)
      <4>1. /\ Pending(file') = Pending(load) \cup {KeyOf[r]}
            /\ \A j \in Held(load) : j # KeyOf[r] /\ file'[j] = load[j]
        BY <3>2, <3>3, <3>4, QueueFacts
      <4>2. CASE k \in Pending(load) /\ load[k].req = file[k].req
        <5>1. k \in Held(load)
          BY <4>2 DEF Pending
        <5> QED
          BY <4>1, <4>2, <5>1
      <4> QED
        BY <4>2, LoadIsAhead
    <3> QED
      BY <2>1, <3>2, <3>4
  <2>3. CASE Publish
    <3>1. /\ Pending(mem') = Pending(mem) \ {KeyOf[op.req]}
          /\ \A j \in Held(mem') : j \in Held(mem) /\ mem'[j].req = mem[j].req
          /\ file' = mem' \/ file' = file
      BY <2>3, KeptPublish
    <3>2. op.at = "record" /\ op # Idle
      BY <2>3 DEF Publish, Idle
    <3>3. CASE k = KeyOf[op.req]
      BY <3>2, <3>3 DEF KeptInv, RecordIsPosted
    <3>4. CASE k # KeyOf[op.req] /\ file' = mem' /\ k \in Pending(mem) /\ mem[k].req = file[k].req
      <4>1. k \in Pending(mem') /\ k \in Held(mem')
        BY <3>1, <3>4 DEF Pending
      <4> QED
        BY <3>1, <3>4, <4>1
    <3> QED
      BY <2>1, <3>1, <3>2, <3>3, <3>4 DEF KeptInv, MemoryIsAhead, OpIsPending
  <2>4. ASSUME NEW r \in Requests, NEW b \in BOOLEAN, Execute(r, b) PROVE Kept(k)
    BY <2>1, <2>2, <2>4
       DEF Execute, ExecuteRefused, ExecuteAnswered, ExecutePending, Loaded
  <2>5. ASSUME ResumeNext PROVE Kept(k)
    <3>1. todo # <<>> /\ Execute(Head(todo), TRUE)
      BY <2>5 DEF ResumeNext
    <3>2. Head(todo) \in Requests
      BY <3>1 DEF KeptInv, Shape
    <3> QED
      BY <2>4, <3>1, <3>2
  <2>6. ASSUME NEW r \in Requests, publish(r) PROVE Kept(k)
    BY <2>4, <2>6 DEF publish
  <2>7. CASE ResumeList \/ Send \/ Lookup \/ Post \/ Restart
    BY <2>1, <2>7 DEF ResumeList, Loaded, Send, Lookup, Post, Restart
  <2> QED
    BY <2>3, <2>5, <2>6, <2>7 DEF Next, OpStep
<1> QED
  BY <1>1, KeptAlways, PTL DEF Spec, ObligationsAreKept

-----------------------------------------------------------------------------
(* OnceInv                                                                   *)

\* A listed comment is that of a request.
LEMMA ListedFacts == Listed \subseteq Requests
BY DEF Listed

\* What GitHub has it keeps.
LEMMA EffectStays ==
    ASSUME NEW p, NEW q, NEW l, NEW m, l \subseteq m,
           \A r \in Requests : p[r] > 0 => q[r] > 0,
           NEW r \in Requests, Effective(p, l, r)
    PROVE  Effective(q, m, r)
BY ListedFacts DEF Effective, Marked

\* A published key is held, by its request.
LEMMA PublishedFacts ==
    ASSUME NEW s, Keyed(s), NEW k \in Published(s)
    PROVE  k \in Held(s) /\ s[k].req \in Requests /\ KeyOf[s[k].req] = k
BY EntryFacts, SavedFacts DEF Published, Pending

\* What is published as effective stays so while effects are only added.
LEMMA PublishedStays ==
    ASSUME NEW p, NEW q, NEW l, NEW m, l \subseteq m,
           \A r \in Requests : p[r] > 0 => q[r] > 0,
           NEW s, Keyed(s), PublishedIsEffective(p, l, s)
    PROVE  PublishedIsEffective(q, m, s)
BY PublishedFacts, EffectStays DEF PublishedIsEffective

\* What an operation loads is as effective as what it is loaded from.
LEMMA LoadIsEffective ==
    ASSUME KeptInv, OnceInv
    PROVE  PublishedIsEffective(posts, labelled, load)
<1>1. CASE loaded
  BY <1>1, LoadFacts DEF KeptInv, OnceInv
<1>2. CASE ~loaded
  <2> SUFFICES ASSUME NEW k \in Published(load)
               PROVE  Effective(posts, labelled, load[k].req)
    BY DEF PublishedIsEffective
  <2>1. k \in Held(load) /\ load[k].state # "pending"
    BY DEF Published, Pending
  <2>2. k \in Published(file) /\ load[k].req = file[k].req
    BY <1>2, <2>1, LoadFacts DEF KeptInv, Published, Pending
  <2> QED
    BY <2>2 DEF OnceInv, PublishedIsEffective
<1> QED
  BY <1>1, <1>2 DEF KeptInv, Shape

\* An execution changes nothing on GitHub; its receipt is of an effective write.
LEMMA OnceExecute ==
    ASSUME KeptInv, OnceInv, NEW r \in Requests, NEW b \in BOOLEAN, Execute(r, b)
    PROVE  /\ OnceInv'
           /\ UNCHANGED <<posts, labelled>>
           /\ \/ receipts' = receipts
              \/ receipts' = receipts \cup {r} /\ Effective(posts, labelled, r)
<1>0. PublishedIsEffective(posts, labelled, load)
  BY LoadIsEffective
<1>1. UNCHANGED <<posts, labelled>>
  BY DEF Execute, ExecuteRefused, ExecuteAnswered, ExecutePending, ExecuteQueued
<1>2. \/ receipts' = receipts
      \/ receipts' = receipts \cup {r} /\ Effective(posts, labelled, r)
  <2>1. CASE ExecuteAnswered(r, b)
    <3>1. KeyOf[r] \in Published(load) /\ load[KeyOf[r]].req = r
      BY <2>1 DEF ExecuteAnswered, answered
    <3>2. Effective(posts, labelled, r)
      BY <1>0, <3>1 DEF PublishedIsEffective
    <3> QED
      BY <2>1, <3>2 DEF ExecuteAnswered
  <2> QED
    BY <2>1 DEF Execute, ExecuteRefused, ExecutePending, ExecuteQueued
<1>3. \A q \in receipts' : q \in Requests /\ Effective(posts', labelled', q)
  BY <1>1, <1>2 DEF OnceInv
<1>4. \/ op' = Idle
      \/ op'.at = "lookup" /\ op'.req = r /\ Kind[r] = "post"
      \/ op'.at = "send" /\ op'.req = r /\ Kind[r] # "post"
  BY DEF Execute, ExecuteRefused, ExecuteAnswered, ExecutePending, ExecuteQueued, Throw,
         Return, Upstream, Goto
<1>5. OpIsInStep'
  BY <1>4 DEF OpIsInStep, Idle
<1>6. /\ PublishedIsEffective(posts', labelled', mem')
      /\ PublishedIsEffective(posts', labelled', file')
  <2>1. CASE ExecuteRefused(r, b) \/ ExecuteAnswered(r, b) \/ ExecutePending(r, b)
    <3>1. mem' = load /\ file' = file
      BY <2>1 DEF ExecuteRefused, ExecuteAnswered, ExecutePending, Loaded
    <3> QED
      BY <1>0, <1>1, <3>1 DEF OnceInv
  <2>2. CASE ExecuteQueued(r, b)
    <3>a. Held(load) \in SUBSET Keys
      BY DEF Held
    <3>b. Cardinality(Held(load)) \in Nat
      BY <3>a, CountIsNat
    <3>1. PICK n \in Nat : n = Cardinality(Held(load)) + 1
      BY <3>b
    <3>2. /\ load[KeyOf[r]] = Absent
          /\ mem' = Queued(load, r, n)
          /\ file' = Queued(load, r, n) \/ file' = file
      BY <2>2, <3>1 DEF ExecuteQueued, persist, Queued
    <3>3. Keyed(load)
      BY LoadFacts DEF KeptInv
    <3>4. /\ Published(Queued(load, r, n)) = Published(load)
          /\ \A k \in Held(load) : Queued(load, r, n)[k] = load[k]
      BY <3>2, <3>3, QueueFacts
    <3>5. PublishedIsEffective(posts, labelled, Queued(load, r, n))
      BY <1>0, <3>4 DEF PublishedIsEffective, Published
    <3> QED
      BY <1>1, <3>2, <3>5 DEF OnceInv
  <2> QED
    BY <2>1, <2>2 DEF Execute
<1>7. OnePost'
  BY <1>1 DEF OnceInv, OnePost
<1> QED
  BY <1>1, <1>2, <1>3, <1>5, <1>6, <1>7 DEF OnceInv

\* A request to GitHub: what remains to be shown is where it leaves the operation,
\* and that it adds no second write of a key.
LEMMA OnceRequest ==
    ASSUME KeptInv, OnceInv, UNCHANGED <<file, mem, receipts>>,
           labelled \subseteq labelled',
           \A r \in Requests : posts[r] > 0 => posts'[r] > 0,
           OpIsInStep', OnePost'
    PROVE  OnceInv'
<1>1. /\ PublishedIsEffective(posts', labelled', mem)
      /\ PublishedIsEffective(posts', labelled', file)
  BY PublishedStays DEF KeptInv, Shape, OnceInv
<1>2. \A r \in receipts : r \in Requests /\ Effective(posts', labelled', r)
  BY EffectStays DEF OnceInv
<1> QED
  BY <1>1, <1>2 DEF OnceInv

\* One step of the abstract outbox, or none, as the counts and receipts show it.
OutboxStep ==
    \/ /\ \A r \in Listed : posts'[r] = posts[r]
       /\ receipts' \cap Listed = receipts \cap Listed
    \/ \E r \in Listed :
         /\ ~Marked(posts, r)
         /\ posts'[r] = 1 /\ \A q \in Listed \ {r} : posts'[q] = posts[q]
         /\ receipts' = receipts
    \/ \E r \in Listed :
         /\ Marked(posts, r)
         /\ posts' = posts
         /\ receipts' = receipts \cup {r}

\* The request to GitHub posts a key once.
LEMMA OnceSend ==
    ASSUME OwnKeys, KeptInv, OnceInv, Send
    PROVE  OnceInv' /\ OutboxStep
<1> DEFINE r == op.req
<1>1. op.at = "send" /\ op # Idle /\ UNCHANGED <<file, mem, receipts>> /\ Kind[r] # "post"
  BY DEF Send, Idle, OnceInv, OpIsInStep
<1>2. /\ r \in Requests /\ posts \in [Requests -> Nat] /\ labelled \subseteq Requests
      /\ Kind[r] \in {"push", "transition"}
  BY <1>1, OutboxConstants DEF KeptInv, Shape, Operations
<1>3. PICK a \in Answers :
        /\ posts' = IF a.done /\ Kind[r] = "push" THEN [posts EXCEPT ![r] = 1] ELSE posts
        /\ labelled' = IF a.done /\ Kind[r] = "transition" THEN labelled \cup {r} ELSE labelled
        /\ IF ~a.ok THEN Throw(op.resumed)
           ELSE /\ Goto(r, IF Kind[r] = "push" THEN "record" ELSE "lookup", op.resumed)
                /\ UNCHANGED todo
  BY DEF Send
<1>4. /\ labelled \subseteq labelled'
      /\ \A q \in Requests : posts[q] > 0 => posts'[q] > 0
      /\ \A q \in Requests \ {r} : posts'[q] = posts[q]
      /\ posts'[r] = posts[r] \/ (Kind[r] = "push" /\ posts'[r] = 1)
  BY <1>2, <1>3
<1>5. OpIsInStep'
  <2>1. CASE ~a.ok
    BY <1>3, <2>1 DEF Throw, Idle, OpIsInStep
  <2>2. CASE a.ok /\ Kind[r] = "push"
    <3>1. op'.at = "record" /\ op'.req = r /\ posts'[r] = 1
      BY <1>2, <1>3, <2>2 DEF Goto, Answers
    <3>2. Effective(posts', labelled', r)
      BY <2>2, <3>1 DEF Effective, Marked
    <3> QED
      BY <3>1, <3>2 DEF OpIsInStep
  <2>3. CASE a.ok /\ Kind[r] = "transition"
    <3>1. op'.at = "lookup" /\ op'.req = r /\ r \in labelled'
      BY <1>3, <2>3 DEF Goto, Answers
    <3> QED
      BY <2>3, <3>1 DEF OpIsInStep
  <2> QED
    BY <1>2, <2>1, <2>2, <2>3 DEF Answers
<1>6. ASSUME NEW q \in Listed, KeyOf[q] = KeyOf[r] PROVE q = r
  BY <1>1, <1>2, <1>6, ListedFacts DEF OwnKeys
<1>7. OnePost'
  BY <1>2, <1>4, <1>6, ListedFacts DEF OnePost, OnceInv
<1>8. OutboxStep
  <2>1. CASE posts'[r] = posts[r] \/ r \notin Listed
    BY <1>1, <1>4, <2>1, ListedFacts DEF OutboxStep
  <2>2. CASE posts'[r] # posts[r] /\ r \in Listed
    <3>1. posts'[r] = 1 /\ posts[r] = 0
      BY <1>2, <1>4, <2>2 DEF OnceInv, OnePost
    <3>2. ~Marked(posts, r)
      BY <1>6, <3>1 DEF Marked
    <3> QED
      BY <1>1, <1>4, <2>2, <3>1, <3>2, ListedFacts DEF OutboxStep
  <2> QED
    BY <2>1, <2>2
<1> QED
  BY <1>1, <1>4, <1>5, <1>7, <1>8, OnceRequest

\* The search finds a comment that was posted before, or none was.
LEMMA OnceLookup ==
    ASSUME OwnKeys, KeptInv, OnceInv, Lookup
    PROVE  OnceInv' /\ OutboxStep
<1> DEFINE r == op.req
<1>1. op.at = "lookup" /\ op # Idle /\ UNCHANGED <<file, mem, posts, labelled, receipts>>
  BY DEF Lookup, Idle
<1>2. /\ r \in Requests
      /\ Kind[r] # "push"
      /\ Kind[r] = "transition" => r \in labelled
  BY <1>1 DEF KeptInv, Shape, Operations, OnceInv, OpIsInStep
<1>3. findMarkedPublication(r) <=> Marked(posts, r)
  BY DEF findMarkedPublication, Marked, Listed
<1>4. OpIsInStep'
  <2>1. CASE Throw(op.resumed)
    BY <2>1 DEF Throw, Idle, OpIsInStep
  <2>2. CASE Goto(r, "record", op.resumed) /\ Marked(posts, r)
    <3>1. op'.at = "record" /\ op'.req = r
      BY <2>2 DEF Goto
    <3>2. PICK q \in Listed : KeyOf[q] = KeyOf[r] /\ posts[q] > 0
      BY <2>2 DEF Marked
    <3>3. Kind[r] = "transition" => posts[r] > 0
      BY <1>2, <3>2, ListedFacts DEF OwnKeys
    <3>4. Effective(posts', labelled', r)
      BY <1>1, <1>2, <2>2, <3>3 DEF Effective
    <3> QED
      BY <3>1, <3>4 DEF OpIsInStep
  <2>3. CASE Goto(r, "post", op.resumed) /\ ~Marked(posts, r)
    <3>1. op'.at = "post" /\ op'.req = r
      BY <2>3 DEF Goto
    <3> QED
      BY <1>1, <1>2, <2>3, <3>1 DEF OpIsInStep
  <2> QED
    BY <1>3, <2>1, <2>2, <2>3 DEF Lookup
<1>5. OnePost' /\ OutboxStep
  BY <1>1 DEF OnceInv, OnePost, OutboxStep
<1> QED
  BY <1>1, <1>4, <1>5, OnceRequest

\* The post is made when the search has found none.
LEMMA OncePost ==
    ASSUME OwnKeys, KeptInv, OnceInv, Post
    PROVE  OnceInv' /\ OutboxStep
<1> DEFINE r == op.req
<1>1. op.at = "post" /\ op # Idle /\ UNCHANGED <<file, mem, labelled, receipts>>
  BY DEF Post, Idle
<1>2. /\ r \in Requests /\ posts \in [Requests -> Nat]
      /\ Kind[r] # "push"
      /\ Kind[r] = "transition" => r \in labelled
      /\ r \in Listed => ~Marked(posts, r)
  BY <1>1 DEF KeptInv, Shape, Operations, OnceInv, OpIsInStep
<1>3. PICK a \in Answers :
        /\ posts' = IF a.done THEN [posts EXCEPT ![r] = @ + 1] ELSE posts
        /\ IF ~a.ok THEN Throw(op.resumed)
           ELSE Goto(r, "record", op.resumed) /\ UNCHANGED todo
  BY DEF Post
<1>4. /\ \A q \in Requests : posts[q] > 0 => posts'[q] > 0
      /\ \A q \in Requests \ {r} : posts'[q] = posts[q]
      /\ posts'[r] = posts[r] \/ posts'[r] = posts[r] + 1
  BY <1>2, <1>3
<1>5. OpIsInStep'
  <2>1. CASE ~a.ok
    BY <1>3, <2>1 DEF Throw, Idle, OpIsInStep
  <2>2. CASE a.ok
    <3>1. op'.at = "record" /\ op'.req = r /\ posts'[r] > 0
      BY <1>2, <1>3, <2>2 DEF Goto, Answers
    <3>2. Effective(posts', labelled', r)
      BY <1>1, <1>2, <3>1 DEF Effective, Marked
    <3> QED
      BY <3>1, <3>2 DEF OpIsInStep
  <2> QED
    BY <2>1, <2>2 DEF Answers
<1>6. ASSUME r \in Listed, NEW q \in Listed, KeyOf[q] = KeyOf[r] PROVE posts[q] = 0
  BY <1>2, <1>6, ListedFacts DEF Marked
<1>7. OnePost'
  BY <1>2, <1>4, <1>6, ListedFacts DEF OnePost, OnceInv
<1>8. OutboxStep
  <2>1. CASE posts'[r] = posts[r] \/ r \notin Listed
    BY <1>1, <1>4, <2>1, ListedFacts DEF OutboxStep
  <2>2. CASE posts'[r] # posts[r] /\ r \in Listed
    <3>1. posts'[r] = 1
      BY <1>4, <1>6, <2>2
    <3> QED
      BY <1>1, <1>2, <1>4, <2>2, <3>1, ListedFacts DEF OutboxStep
  <2> QED
    BY <2>1, <2>2
<1> QED
  BY <1>1, <1>4, <1>5, <1>7, <1>8, OnceRequest

\* Publishing records an effect that GitHub has.
LEMMA OncePublish ==
    ASSUME KeptInv, OnceInv, Publish
    PROVE  OnceInv' /\ OutboxStep
<1> DEFINE r == op.req
<1>1. op.at = "record" /\ op # Idle /\ UNCHANGED <<posts, labelled>>
  BY DEF Publish, Idle
<1>2. /\ r \in Requests /\ Effective(posts, labelled, r)
      /\ mem[KeyOf[r]].req = r
  BY <1>1 DEF KeptInv, Shape, Operations, OpIsPending, OnceInv, OpIsInStep
<1>3. /\ Published(mem') \subseteq Published(mem) \cup {KeyOf[r]}
      /\ \A k \in Held(mem') : k \in Held(mem) /\ mem'[k].req = mem[k].req
      /\ file' = mem' \/ file' = file
  BY KeptPublish
<1>4. PublishedIsEffective(posts, labelled, mem')
  <2> SUFFICES ASSUME NEW k \in Published(mem')
               PROVE  Effective(posts, labelled, mem'[k].req)
    BY DEF PublishedIsEffective
  <2>1. k \in Held(mem')
    BY DEF Published
  <2> QED
    BY <1>2, <1>3, <2>1 DEF OnceInv, PublishedIsEffective
<1>5. receipts' = receipts \/ receipts' = receipts \cup {r}
  BY DEF Publish
<1>6. op' = Idle
  BY DEF Publish, Return, Throw
<1>7. OpIsInStep' /\ OnePost'
  BY <1>1, <1>6 DEF OpIsInStep, Idle, OnceInv, OnePost
<1>8. OnceInv'
  BY <1>1, <1>2, <1>3, <1>4, <1>5, <1>7 DEF OnceInv
<1>9. OutboxStep
  BY <1>1, <1>2, <1>5 DEF OutboxStep, Effective
<1> QED
  BY <1>8, <1>9

\* Every step writes at most once under a key.
LEMMA OnceStep ==
    ASSUME OwnKeys, KeptInv, OnceInv, [Next]_vars
    PROVE  OnceInv' /\ OutboxStep
<1>1. ASSUME NEW r \in Requests, NEW b \in BOOLEAN, Execute(r, b)
      PROVE  OnceInv' /\ OutboxStep
  <2>1. /\ OnceInv'
        /\ UNCHANGED <<posts, labelled>>
        /\ \/ receipts' = receipts
           \/ receipts' = receipts \cup {r} /\ Effective(posts, labelled, r)
    BY <1>1, OnceExecute
  <2>2. OutboxStep
    BY <2>1 DEF OutboxStep, Effective
  <2> QED
    BY <2>1, <2>2
<1>2. ASSUME NEW r \in Requests, publish(r) PROVE OnceInv' /\ OutboxStep
  BY <1>1, <1>2 DEF publish
<1>3. ASSUME ResumeNext PROVE OnceInv' /\ OutboxStep
  <2>1. todo # <<>> /\ Execute(Head(todo), TRUE)
    BY <1>3 DEF ResumeNext
  <2>2. Head(todo) \in Requests
    BY <2>1 DEF KeptInv, Shape
  <2> QED
    BY <1>1, <2>1, <2>2
<1>4. CASE ResumeList
  <2>1. mem' = load /\ UNCHANGED <<file, op, posts, labelled, receipts>>
    BY <1>4 DEF ResumeList, Loaded
  <2>2. PublishedIsEffective(posts, labelled, load)
    BY LoadIsEffective
  <2> QED
    BY <2>1, <2>2 DEF OnceInv, OpIsInStep, OnePost, OutboxStep
<1>5. CASE Restart
  <2>1. mem' = Empty /\ op' = Idle /\ UNCHANGED <<file, posts, labelled, receipts>>
    BY <1>5 DEF Restart
  <2>2. Published(Empty) = {}
    BY DEF Published, Held, Empty
  <2>3. PublishedIsEffective(posts, labelled, mem')
    BY <2>1, <2>2 DEF PublishedIsEffective
  <2> QED
    BY <2>1, <2>3 DEF OnceInv, OpIsInStep, Idle, OnePost, OutboxStep
<1>6. CASE UNCHANGED vars
  BY <1>6 DEF vars, OnceInv, OpIsInStep, OnePost, OutboxStep
<1> QED
  BY <1>2, <1>3, <1>4, <1>5, <1>6, OnceSend, OnceLookup, OncePost, OncePublish DEF Next, OpStep

\* Nothing is written at first.
LEMMA OnceInit == Init => OnceInv
<1> SUFFICES ASSUME Init PROVE OnceInv
  OBVIOUS
<1>1. Published(Empty) = {}
  BY DEF Published, Held, Empty
<1> QED
  BY <1>1, ListedFacts DEF Init, OnceInv, PublishedIsEffective, OpIsInStep, Idle, OnePost

\* The writes are made once throughout.
LEMMA OnceAlways ==
    ASSUME OwnKeys
    PROVE  Spec => []OnceInv
<1>1. KeptInv /\ OnceInv /\ [Next]_vars => OnceInv'
  BY OnceStep
<1> QED
  BY <1>1, OnceInit, KeptAlways, PTL DEF Spec

\* The counts and receipts of a step of the outbox are those of a step of WriteOnce.
LEMMA StepRefines ==
    ASSUME KeptInv, KeptInv', OnceInv, OutboxStep
    PROVE  [Outbox!Next]_(Outbox!vars)
<1> DEFINE P == [r \in Listed |-> posts[r]]
           Q == [r \in Listed |-> posts'[r]]
<1>0. /\ posts \in [Requests -> Nat] /\ posts' \in [Requests -> Nat]
      /\ \A r \in Listed : posts[r] > 0 => posts[r] = 1
  BY ListedFacts DEF KeptInv, Shape, OnceInv, OnePost
<1>1. CASE /\ \A r \in Listed : posts'[r] = posts[r]
           /\ receipts' \cap Listed = receipts \cap Listed
  <2>1. Q = P
    BY <1>1
  <2> QED
    BY <1>1, <2>1 DEF Outbox!vars
<1>2. ASSUME NEW r \in Listed, ~Marked(posts, r), posts'[r] = 1,
             \A q \in Listed \ {r} : posts'[q] = posts[q], receipts' = receipts
      PROVE  Outbox!Write(r)
  <2>1. Q = [P EXCEPT ![r] = 1]
    BY <1>2
  <2>2. \A q \in Outbox!SameKey(r) : P[q] = 0
    BY <1>0, <1>2, ListedFacts DEF Outbox!SameKey, Marked
  <2> QED
    BY <1>2, <2>1, <2>2 DEF Outbox!Write
<1>3. ASSUME NEW r \in Listed, Marked(posts, r), posts' = posts,
             receipts' = receipts \cup {r}
      PROVE  Outbox!Receipt(r)
  <2>1. Q = P
    BY <1>3
  <2>2. \E q \in Outbox!SameKey(r) : P[q] = 1
    BY <1>0, <1>3 DEF Outbox!SameKey, Marked
  <2>3. receipts' \cap Listed = (receipts \cap Listed) \cup {r}
    BY <1>3
  <2> QED
    BY <2>1, <2>2, <2>3 DEF Outbox!Receipt
<1> QED
  BY <1>1, <1>2, <1>3 DEF OutboxStep, Outbox!Next

\* The outbox implements WriteOnce: for any number of requests, any retention and any
\* number of restarts, failed requests that took effect or not, and failed writes, a
\* key of comments and pull requests takes effect once and a receipt is of a key that
\* did, as long as pushes and transitions have keys of their own.
THEOREM OutboxWritesOnce ==
    ASSUME OwnKeys
    PROVE  Spec => WrittenOnce
<1>1. Init => Outbox!Init
  BY ListedFacts DEF Init, Outbox!Init
<1>2. KeptInv /\ KeptInv' /\ OnceInv /\ [Next]_vars => [Outbox!Next]_(Outbox!vars)
  BY OnceStep, StepRefines
<1> QED
  BY <1>1, <1>2, KeptAlways, OnceAlways, PTL DEF Spec, WrittenOnce, Outbox!Spec

\* A receipt of a transition is of a whole one, its labels and its comment, however its
\* attempts failed between the two (applyIssueTransition).
THEOREM ReceiptsAreWhole ==
    ASSUME OwnKeys
    PROVE  Spec => []TransitionsAreWhole
<1>1. OnceInv => TransitionsAreWhole
  BY DEF OnceInv, Effective, TransitionsAreWhole
<1> QED
  BY <1>1, OnceAlways, PTL

-----------------------------------------------------------------------------
(* The entries stay one array: no hole and no place taken twice, whatever    *)
(* compaction drops from the middle.                                         *)

Packed(s) == {s[k].at : k \in Held(s)} = 1 .. Cardinality(Held(s))

\* In a packed array every place has one entry.
LEMMA PackedIsInjective ==
    ASSUME NEW s, Keyed(s), Packed(s)
    PROVE  \A j, k \in Held(s) : s[j].at = s[k].at => j = k
<1> DEFINE n == Cardinality(Held(s))
           f == [k \in Held(s) |-> s[k].at]
<1>0. Held(s) \subseteq Keys
  BY DEF Held
<1>1. n \in Nat /\ IsFiniteSet(Held(s))
  BY <1>0, CountIsNat, KeysAreFinite, FS_Subset
<1>2. {s[k].at : k \in Held(s)} = 1 .. n
  BY DEF Packed
<1> HIDE DEF n
<1>3. f \in Surjection(Held(s), 1 .. n)
  BY <1>2 DEF Surjection
<1>4. Cardinality(1 .. n) = n
  BY <1>1, FS_Interval
<1>5. f \in Injection(Held(s), 1 .. n)
  BY <1>1, <1>3, <1>4, FS_SurjSameCardinalityImpliesInj DEF n
<1> QED
  BY <1>5 DEF Injection, IsInjective

\* What is kept of a packed array is closed up in its order.
LEMMA FilteredIsPacked ==
    ASSUME NEW s, Keyed(s), Packed(s), NEW kept \in SUBSET Held(s)
    PROVE  Packed(Filtered(s, kept))
<1> DEFINE upto(k) == {j \in kept : s[j].at <= s[k].at}
           m == Cardinality(kept)
           g == [k \in kept |-> Cardinality(upto(k))]
<1>0. kept \subseteq Keys
  BY DEF Held
<1>1. m \in Nat /\ IsFiniteSet(kept)
  BY <1>0, CountIsNat, KeysAreFinite, FS_Subset
<1>2. \A k \in kept : s[k].at \in Nat
  BY EntryFacts DEF Saved
<1>3. ASSUME NEW k \in kept
      PROVE  IsFiniteSet(upto(k)) /\ Cardinality(upto(k)) \in 1 .. m
  <2>1. upto(k) \subseteq kept /\ k \in upto(k)
    BY <1>2
  <2>2. IsFiniteSet(upto(k)) /\ Cardinality(upto(k)) <= m
    BY <1>1, <2>1, FS_Subset
  <2>3. Cardinality(upto(k)) \in Nat /\ Cardinality(upto(k)) # 0
    BY <2>1, <2>2, FS_CardinalityType, FS_EmptySet
  <2> HIDE DEF upto, m
  <2> QED
    BY <1>1, <2>2, <2>3
<1>4. ASSUME NEW k \in kept, NEW l \in kept, s[k].at < s[l].at
      PROVE  Cardinality(upto(k)) < Cardinality(upto(l))
  <2>1. upto(k) \subseteq upto(l) /\ l \in upto(l) /\ l \notin upto(k)
    BY <1>2, <1>4
  <2>2. IsFiniteSet(upto(l)) /\ Cardinality(upto(l)) \in 1 .. m /\ Cardinality(upto(k)) \in 1 .. m
    BY <1>3
  <2> HIDE DEF upto, m
  <2>3. upto(k) \in SUBSET upto(l) /\ upto(k) # upto(l)
    BY <2>1
  <2>4. /\ Cardinality(upto(k)) <= Cardinality(upto(l))
        /\ Cardinality(upto(l)) = Cardinality(upto(k)) => upto(l) = upto(k)
    BY <2>2, <2>3, FS_Subset
  <2> QED
    BY <1>1, <2>2, <2>3, <2>4
<1>5. g \in Injection(kept, 1 .. m)
  <2>1. g \in [kept -> 1 .. m]
    BY <1>3
  <2>2. ASSUME NEW k \in kept, NEW l \in kept, g[k] = g[l] PROVE k = l
    <3>1. Cardinality(upto(k)) = Cardinality(upto(l))
      BY <2>2
    <3> HIDE DEF upto, m
    <3>2. Cardinality(upto(k)) \in Nat /\ Cardinality(upto(l)) \in Nat
      BY <1>1, <1>3
    <3>3. ~(s[k].at < s[l].at) /\ ~(s[l].at < s[k].at)
      BY <1>4, <3>1, <3>2
    <3>4. s[k].at = s[l].at
      BY <1>2, <3>3
    <3> QED
      BY <3>4, PackedIsInjective
  <2> HIDE DEF g, m
  <2> QED
    BY <2>1, <2>2 DEF Injection, IsInjective
<1>6. Cardinality(1 .. m) = m /\ IsFiniteSet(1 .. m)
  BY <1>1, FS_Interval
<1>7. g \in Surjection(kept, 1 .. m)
  <2> HIDE DEF g
  <2> QED
    BY <1>5, <1>6, FS_Injection
<1>8. {g[k] : k \in kept} = 1 .. m
  <2> HIDE DEF g, m
  <2> QED
    BY <1>7 DEF Surjection
<1>9. \A k \in kept : Filtered(s, kept)[k].at = g[k]
  <2> SUFFICES ASSUME NEW k \in kept PROVE Filtered(s, kept)[k].at = g[k]
    OBVIOUS
  <2>1. s[k] \in Saved
    BY EntryFacts
  <2>2. PICK n : n = Cardinality(upto(k))
    OBVIOUS
  <2>3. Filtered(s, kept)[k] = [s[k] EXCEPT !.at = n]
    BY <1>0, <2>2 DEF Filtered
  <2> QED
    BY <2>1, <2>2, <2>3 DEF Saved
<1>10. Held(Filtered(s, kept)) = kept
  BY FilteredFacts
<1> HIDE DEF g, m
<1> QED
  BY <1>8, <1>9, <1>10 DEF Packed, m

\* Compaction drops entries and leaves an array.
LEMMA CompactIsPacked ==
    ASSUME NEW s, Keyed(s), Packed(s)
    PROVE  Packed(compactOutboxSnapshot(s))
<1> DEFINE kept == Pending(s) \cup {k \in Published(s) :
                     Cardinality({j \in Published(s) : s[j].at > s[k].at}) < Retention}
<1>1. kept \in SUBSET Held(s)
  BY DEF Pending, Published
<1>2. compactOutboxSnapshot(s) = Filtered(s, kept)
  BY DEF compactOutboxSnapshot
<1> HIDE DEF kept
<1> QED
  BY <1>1, <1>2, FilteredIsPacked

\* A new entry is the last of the array.
LEMMA QueuedIsPacked ==
    ASSUME NEW s, Keyed(s), Packed(s), NEW r \in Requests, s[KeyOf[r]] = Absent,
           NEW n, n = Cardinality(Held(s)) + 1
    PROVE  n \in Nat /\ Packed(Queued(s, r, n))
<1> DEFINE t == Queued(s, r, n)
           c == Cardinality(Held(s))
<1>0. Held(s) \subseteq Keys /\ KeyOf[r] \in Keys
  BY DEF Held, Keys
<1>1. c \in Nat /\ IsFiniteSet(Held(s)) /\ n = c + 1
  BY <1>0, CountIsNat, KeysAreFinite, FS_Subset
<1>2. {s[k].at : k \in Held(s)} = 1 .. c
  BY DEF Packed
<1>3. /\ t[KeyOf[r]] = [req |-> r, state |-> "pending", at |-> n]
      /\ \A k \in Keys \ {KeyOf[r]} : t[k] = s[k]
  BY <1>0 DEF Queued, Keyed
<1>4. Held(t) = Held(s) \cup {KeyOf[r]} /\ KeyOf[r] \notin Held(s)
  <2>1. t[KeyOf[r]] # Absent
    <3>1. [req |-> r, state |-> "pending", at |-> n] \in Saved
      BY <1>1 DEF Saved
    <3> QED
      BY <1>3, <3>1, SavedFacts
  <2> HIDE DEF t
  <2> QED
    BY <1>0, <1>3, <2>1 DEF Held
<1>5. Cardinality(Held(t)) = c + 1
  BY <1>1, <1>4, FS_AddElement
<1>6. t[KeyOf[r]].at = n
  BY <1>3
<1> HIDE DEF t, c
<1>7. {t[k].at : k \in Held(t)} = {s[k].at : k \in Held(s)} \cup {n}
  BY <1>0, <1>3, <1>4, <1>6
<1>8. (1 .. c) \cup {c + 1} = 1 .. (c + 1)
  BY <1>1
<1> QED
  BY <1>1, <1>2, <1>5, <1>7, <1>8 DEF Packed, t

\* A publication takes no place and gives none up.
LEMMA PublishedIsPacked ==
    ASSUME NEW s, Keyed(s), Packed(s), NEW k \in Pending(s)
    PROVE  Packed(AsPublished(s, k))
<1> DEFINE t == AsPublished(s, k)
<1>1. k \in Held(s) /\ Held(s) \subseteq Keys
  BY DEF Pending, Held
<1>2. Held(t) = Held(s)
  <2>1. Pending(t) = Pending(s) \ {k} /\ Published(t) = Published(s) \cup {k}
    BY PublishFacts
  <2> HIDE DEF t
  <2>2. \A u : Held(u) = Pending(u) \cup Published(u)
    BY DEF Pending, Published
  <2>3. (Pending(s) \ {k}) \cup Published(s) \cup {k} = Pending(s) \cup Published(s)
    OBVIOUS
  <2> QED
    BY <2>1, <2>2, <2>3
<1>3. s[k] \in Saved
  BY <1>1, EntryFacts
<1>4. t = [s EXCEPT ![k] = [s[k] EXCEPT !.state = "published"]]
  BY DEF AsPublished
<1>5. [s[k] EXCEPT !.state = "published"].at = s[k].at
  BY <1>3 DEF Saved
<1>6. \A j \in Held(s) : t[j].at = s[j].at
  BY <1>1, <1>4, <1>5 DEF Keyed
<1> HIDE DEF t
<1> QED
  BY <1>2, <1>6 DEF Packed, t

ArrayInv == Packed(file) /\ Packed(mem) /\ receipts \subseteq Requests /\ faults \in 0 .. MaxFaults

\* Every change of the entries, in memory or in the file, leaves them packed.
LEMMA ArrayStep == KeptInv /\ ArrayInv /\ [Next]_vars => ArrayInv'
<1> SUFFICES ASSUME KeptInv, ArrayInv, [Next]_vars PROVE ArrayInv'
  OBVIOUS
<1>0. /\ Shape /\ Keyed(mem) /\ Keyed(file) /\ Packed(mem) /\ Packed(file)
      /\ todo \in Seq(Requests) /\ op \in Operations
      /\ receipts \subseteq Requests /\ faults \in 0 .. MaxFaults /\ MaxFaults \in Nat
  BY OutboxConstants DEF KeptInv, Shape, ArrayInv
<1>f. ASSUME NEW b, Fault(b) PROVE faults' \in 0 .. MaxFaults
  BY <1>0, <1>f DEF Fault
<1>l. Keyed(load) /\ Packed(load)
  BY <1>0, CompactIsPacked, LoadFacts DEF load
<1>p. ASSUME NEW s, Packed(s), NEW ok, persist(s, ok) PROVE Packed(mem') /\ Packed(file')
  BY <1>0, <1>p DEF persist
<1>d. Loaded => Packed(mem') /\ Packed(file')
  BY <1>0, <1>l DEF Loaded
<1>1. ASSUME NEW r \in Requests, NEW b \in BOOLEAN, Execute(r, b) PROVE ArrayInv'
  <2>1. CASE ExecuteRefused(r, b) \/ ExecuteAnswered(r, b) \/ ExecutePending(r, b)
    <3>1. Loaded /\ faults' = faults /\ receipts' \subseteq receipts \cup {r}
      BY <2>1 DEF ExecuteRefused, ExecuteAnswered, ExecutePending
    <3> QED
      BY <1>0, <1>d, <3>1 DEF ArrayInv
  <2>2. CASE ExecuteQueued(r, b)
    <3> DEFINE n == Cardinality(Held(load)) + 1
    <3>1. load[KeyOf[r]] = Absent /\ receipts' = receipts
      BY <2>2 DEF ExecuteQueued
    <3>2. PICK ok \in BOOLEAN : Fault(~ok) /\ persist(Queued(load, r, n), ok)
      BY <2>2 DEF ExecuteQueued, Queued
    <3> HIDE DEF n
    <3>3. Packed(Queued(load, r, n))
      BY <1>l, <3>1, QueuedIsPacked DEF n
    <3> QED
      BY <1>0, <1>f, <1>p, <3>1, <3>2, <3>3 DEF ArrayInv
  <2> QED
    BY <1>1, <2>1, <2>2 DEF Execute
<1>2. CASE ResumeList
  BY <1>0, <1>d, <1>2 DEF ResumeList, ArrayInv
<1>3. CASE ResumeNext
  <2>1. Head(todo) \in Requests
    BY <1>0, <1>3 DEF ResumeNext
  <2> QED
    BY <1>1, <1>3, <2>1 DEF ResumeNext
<1>4. CASE Send \/ Lookup \/ Post
  <2>1. UNCHANGED <<file, mem, receipts>>
    BY <1>4 DEF Send, Lookup, Post
  <2>2. faults' \in 0 .. MaxFaults
    BY <1>f, <1>4 DEF Send, Lookup, Post
  <2> QED
    BY <1>0, <2>1, <2>2 DEF ArrayInv
<1>5. CASE Publish
  <2>1. op # Idle /\ op.req \in Requests
    BY <1>0, <1>5 DEF Publish, Idle, Operations
  <2>2. KeyOf[op.req] \in Pending(mem)
    BY <2>1 DEF KeptInv, OpIsPending
  <2> DEFINE s == AsPublished(mem, KeyOf[op.req])
  <2>3. PICK ok \in BOOLEAN : /\ Fault(~ok)
                             /\ persist(compactOutboxSnapshot(s), ok)
                             /\ receipts' = IF ok THEN receipts \cup {op.req} ELSE receipts
    BY <1>5 DEF Publish, AsPublished
  <2>4. Keyed(s) /\ Packed(s)
    BY <1>0, <2>2, PublishFacts, PublishedIsPacked
  <2> HIDE DEF s
  <2>5. Packed(compactOutboxSnapshot(s))
    BY <2>4, CompactIsPacked
  <2> QED
    BY <1>0, <1>f, <1>p, <2>1, <2>3, <2>5 DEF ArrayInv
<1>6. CASE Restart
  <2>1. Held(Empty) = {}
    BY DEF Held, Empty
  <2>2. Packed(Empty)
    BY <2>1, FS_EmptySet DEF Packed
  <2> QED
    BY <1>0, <1>f, <1>6, <2>2 DEF Restart, ArrayInv
<1>7. CASE UNCHANGED vars
  BY <1>0, <1>7 DEF vars, ArrayInv
<1> QED
  BY <1>1, <1>2, <1>3, <1>4, <1>5, <1>6, <1>7 DEF Next, OpStep, publish

\* Packed entries have places among the keys: they are a snapshot.
LEMMA PackedIsSnapshot ==
    ASSUME NEW s, Keyed(s), Packed(s)
    PROVE  s \in Snapshots
<1> DEFINE n == Cardinality(Held(s))
           c == Cardinality(Keys)
<1>0. Held(s) \subseteq Keys
  BY DEF Held
<1>1. n \in Nat /\ c \in Nat /\ n <= c
  BY <1>0, CountIsNat, KeysAreFinite, FS_Subset
<1>2. {s[k].at : k \in Held(s)} = 1 .. n
  BY DEF Packed
<1> HIDE DEF n, c
<1>3. ASSUME NEW k \in Held(s) PROVE s[k] \in [req : Requests, state : {"pending", "published"}, at : 1 .. c]
  <2>1. s[k] \in Saved
    BY EntryFacts
  <2>2. s[k].at \in 1 .. c
    BY <1>1, <1>2
  <2> QED
    BY <2>1, <2>2 DEF Saved
<1>4. s \in [Keys -> Entry \cup {Absent}]
  BY <1>3 DEF Keyed, Held, Entry, c
<1> QED
  BY <1>2, <1>4 DEF Snapshots, n

\* The entries, the operation, the resume and the counts are well typed; above all, the
\* entries in memory and in the file are one array without holes, whatever was dropped
\* from the middle of it and whichever writes failed.
THEOREM TypeCorrect == Spec => []TypeOK
<1>1. Init => ArrayInv
  <2> SUFFICES ASSUME Init PROVE ArrayInv
    OBVIOUS
  <2>1. Held(Empty) = {}
    BY DEF Held, Empty
  <2>2. Packed(Empty)
    BY <2>1, FS_EmptySet DEF Packed
  <2> QED
    BY <2>2, OutboxConstants DEF Init, ArrayInv
<1>2. KeptInv /\ ArrayInv => TypeOK
  BY PackedIsSnapshot DEF KeptInv, Shape, ArrayInv, TypeOK
<1> QED
  BY <1>1, <1>2, ArrayStep, KeptAlways, PTL DEF Spec
=============================================================================

-------------------------- MODULE IssueClaimProofs --------------------------
(***************************************************************************)
(* Proofs about IssueClaim: its types, that no owner is robbed and no sole *)
(* claimant loses, and, when every identity claims the issue once, that it *)
(* has at most one owner and that its claimants do not all concede.        *)
(***************************************************************************)
EXTENDS IssueClaim, TLAPS

\* What an append does to a sequence, for the steps that post a marker.
LEMMA AppendFacts ==
    ASSUME NEW S, NEW s \in Seq(S), NEW x \in S
    PROVE  /\ Append(s, x) \in Seq(S)
           /\ Len(Append(s, x)) = Len(s) + 1
           /\ \A i \in 1 .. Len(s) : Append(s, x)[i] = s[i]
           /\ Append(s, x)[Len(s) + 1] = x
           /\ Len(s) \in Nat
OBVIOUS

\* The bounds used throughout: the window and the saturated age are naturals,
\* and the two markers a claimant posts are markers.
LEMMA MarkerFacts ==
    /\ staleWindowS \in Nat
    /\ MaxAge \in Nat
    /\ MaxAge > staleWindowS
    /\ \A w \in Workers : claimMarker(w) \in Marker /\ concedeMarker(w) \in Marker
<1>1. staleWindowS \in Nat
  BY ClaimConstants DEF staleWindowS
<1>2. MaxAge \in Nat /\ MaxAge > staleWindowS
  BY <1>1, ClaimConstants DEF MaxAge
<1>3. \A w \in Workers : claimMarker(w) \in Marker /\ concedeMarker(w) \in Marker
  BY <1>2 DEF claimMarker, concedeMarker, Marker
<1> QED
  BY <1>1, <1>2, <1>3

\* Editing ages never changes the length, the owner or the kind of a marker.
SameMarkers(s, t) ==
    /\ Len(t) = Len(s)
    /\ \A i \in 1 .. Len(s) : t[i].worker = s[i].worker /\ t[i].kind = s[i].kind

\* A marker whose age is replaced is still a marker of the same worker and kind.
LEMMA AgeFacts ==
    ASSUME NEW r \in Marker, NEW n \in 0 .. MaxAge
    PROVE  /\ [r EXCEPT !.age = n] \in Marker
           /\ [r EXCEPT !.age = n].worker = r.worker
           /\ [r EXCEPT !.age = n].kind = r.kind
BY DEF Marker

\* The heartbeat and the clock only touch the ages of the thread's markers.
LEMMA AgingFacts ==
    ASSUME TypeOK, Tick \/ \E w \in Workers : RefreshHeartbeat(w)
    PROVE  thread' \in Seq(Marker) /\ SameMarkers(thread, thread')
<1> USE MarkerFacts
<1>0. thread \in Seq(Marker) /\ Len(thread) \in Nat /\ DOMAIN thread = 1 .. Len(thread)
  BY DEF TypeOK
<1>1. CASE Tick
  <2> DEFINE aged(i) == IF thread[i].kind = "claim" /\ thread[i].age < MaxAge
                          THEN [thread[i] EXCEPT !.age = @ + 1] ELSE thread[i]
  <2>1. thread' = [i \in 1 .. Len(thread) |-> aged(i)]
    BY <1>0, <1>1 DEF Tick
  <2>2. ASSUME NEW i \in 1 .. Len(thread)
        PROVE  /\ aged(i) \in Marker
               /\ aged(i).worker = thread[i].worker
               /\ aged(i).kind = thread[i].kind
    <3>1. thread[i] \in Marker
      BY <1>0
    <3>2. CASE thread[i].kind = "claim" /\ thread[i].age < MaxAge
      <4>1. thread[i].age + 1 \in 0 .. MaxAge
        BY <3>1, <3>2 DEF Marker
      <4> QED
        BY <3>1, <3>2, <4>1, AgeFacts
    <3>3. CASE ~(thread[i].kind = "claim" /\ thread[i].age < MaxAge)
      BY <3>1, <3>3
    <3> QED
      BY <3>2, <3>3
  <2> HIDE DEF aged
  <2>3. thread' \in Seq(Marker) /\ Len(thread') = Len(thread)
    BY <1>0, <2>1, <2>2
  <2> QED
    BY <1>0, <2>1, <2>2, <2>3 DEF SameMarkers
<1>2. CASE \E w \in Workers : RefreshHeartbeat(w)
  <2>1. PICK w \in Workers : RefreshHeartbeat(w)
    BY <1>2
  <2>2. thread' = [thread EXCEPT ![mine[w]].age = 0]
    BY <2>1 DEF RefreshHeartbeat
  <2>3. CASE mine[w] \notin 1 .. Len(thread)
    <3>1. thread' = thread
      BY <1>0, <2>2, <2>3
    <3> QED
      BY <1>0, <3>1 DEF SameMarkers
  <2>4. CASE mine[w] \in 1 .. Len(thread)
    <3> DEFINE m == [thread[mine[w]] EXCEPT !.age = 0]
    <3>1. thread' = [thread EXCEPT ![mine[w]] = m]
      BY <2>2
    <3>2. /\ m \in Marker
          /\ m.worker = thread[mine[w]].worker
          /\ m.kind = thread[mine[w]].kind
      <4>1. thread[mine[w]] \in Marker /\ 0 \in 0 .. MaxAge
        BY <1>0, <2>4
      <4> QED
        BY <4>1, AgeFacts
    <3> HIDE DEF m
    <3> QED
      BY <1>0, <2>4, <3>1, <3>2 DEF SameMarkers
  <2> QED
    BY <2>3, <2>4
<1> QED
  BY <1>1, <1>2

-----------------------------------------------------------------------------
\* The initial state is well typed.
LEMMA TypeInit == Init => TypeOK
BY ClaimConstants DEF Init, TypeOK, Phases, Outcomes

\* Every step keeps the types.
LEMMA TypeStep == TypeOK /\ [Next]_vars => TypeOK'
<1> USE MarkerFacts, ClaimConstants
<1> SUFFICES ASSUME TypeOK, [Next]_vars PROVE TypeOK'
  OBVIOUS
<1>0. thread \in Seq(Marker) /\ Len(thread) \in Nat
  BY DEF TypeOK
<1>1. ASSUME NEW w \in Workers, PostClaim(w) PROVE TypeOK'
  BY <1>0, <1>1, AppendFacts DEF PostClaim, TypeOK, Phases, Outcomes, MayClaim
<1>2. ASSUME NEW w \in Workers, PostClaimUnanswered(w) PROVE TypeOK'
  BY <1>0, <1>2, AppendFacts DEF PostClaimUnanswered, TypeOK, Phases, Outcomes, MayClaim
<1>3. ASSUME NEW w \in Workers, NEW l \in -1 .. Len(thread), VerifyMiss(w, l) PROVE TypeOK'
  <2>1. attempts' \in [Workers -> 0 .. VerifyAttempts]
    BY <1>3 DEF VerifyMiss, TypeOK
  <2>2. populated' \in [Workers -> BOOLEAN]
    BY <1>3, <1>0 DEF VerifyMiss, TypeOK
  <2>3. pc' \in [Workers -> Phases] /\ outcome' \in [Workers -> Outcomes]
    BY <1>3 DEF VerifyMiss, TypeOK, Phases, Outcomes
  <2> QED
    BY <1>3, <2>1, <2>2, <2>3 DEF VerifyMiss, TypeOK
<1>4. ASSUME NEW w \in Workers, NEW k \in 1 .. Len(thread), NEW dead \in SUBSET Crashed,
             Decide(w, k, dead)
      PROVE TypeOK'
  <2>1. Recovered(w, k, dead) \in SUBSET Workers
    BY DEF Recovered
  <2>2. pc' \in [Workers -> Phases] /\ outcome' \in [Workers -> Outcomes]
    BY <1>4 DEF Decide, TypeOK, Phases, Outcomes
  <2>3. toEvict' \in [Workers -> SUBSET Workers] /\ evicted' \in SUBSET Workers
    <3>1. CASE Wins(w, k, dead)
      <4>1. /\ toEvict' = [toEvict EXCEPT ![w] = Recovered(w, k, dead)]
            /\ evicted' = evicted \cup Recovered(w, k, dead)
        BY <1>4, <3>1 DEF Decide
      <4> QED
        BY <2>1, <4>1 DEF TypeOK
    <3>2. CASE ~Wins(w, k, dead)
      BY <1>4, <3>2 DEF Decide, TypeOK
    <3> QED
      BY <3>1, <3>2
  <2> QED
    BY <1>4, <2>2, <2>3 DEF Decide, TypeOK
<1>5. ASSUME NEW w \in Workers, ConcedeLost(w) PROVE TypeOK'
  <2>1. thread' \in Seq(Marker)
    <3>1. thread' = Append(thread, concedeMarker(w)) \/ thread' = thread
      BY <1>5 DEF ConcedeLost
    <3> QED
      BY <1>0, <3>1, AppendFacts
  <2> QED
    BY <1>5, <2>1 DEF ConcedeLost, TypeOK, Phases, Outcomes
<1>6. ASSUME NEW w \in Workers, NEW e \in Workers, ConcedeOnBehalf(w, e) PROVE TypeOK'
  BY <1>0, <1>6, AppendFacts DEF ConcedeOnBehalf, TypeOK, Phases
<1>7. ASSUME NEW w \in Workers, ConcedeOnBehalfFails(w) PROVE TypeOK'
  BY <1>7 DEF ConcedeOnBehalfFails, TypeOK, Phases, Outcomes
<1>8. ASSUME NEW w \in Workers, RefreshHeartbeat(w) PROVE TypeOK'
  BY <1>8, AgingFacts DEF RefreshHeartbeat, TypeOK
<1>9. ASSUME NEW w \in Workers, Retire(w) PROVE TypeOK'
  <2>1. thread' \in Seq(Marker)
    <3>1. thread' = Append(thread, concedeMarker(w)) \/ thread' = thread
      BY <1>9 DEF Retire
    <3> QED
      BY <1>0, <3>1, AppendFacts
  <2> QED
    BY <1>9, <2>1 DEF Retire, TypeOK, Phases
<1>10. ASSUME NEW w \in Workers, Crash(w) PROVE TypeOK'
  BY <1>10 DEF Crash, TypeOK, Phases
<1>11. CASE Tick
  BY <1>11, AgingFacts DEF Tick, TypeOK
<1>12. CASE UNCHANGED vars
  BY <1>12 DEF vars, TypeOK
<1> QED
  BY <1>1, <1>2, <1>3, <1>4, <1>5, <1>6, <1>7, <1>8, <1>9, <1>10, <1>11, <1>12
     DEF Next, Step

\* Every step keeps the thread a sequence of markers and every claimant's
\* bookkeeping in range.
THEOREM TypeCorrect == Spec => []TypeOK
BY TypeInit, TypeStep, PTL DEF Spec
-----------------------------------------------------------------------------
(* At most one owner.  The inductive invariant says what the thread records *)
(* about each worker, and that whoever claimed before an owner is out of    *)
(* the race for good: superseded as stale, or finished with its only claim. *)

IsClaim(i, w) ==
    i \in 1 .. Len(thread) /\ thread[i].worker = w /\ thread[i].kind = "claim"

Finished(e) == posts[e] = 1 /\ pc[e] \in {"idle", "conceding", "crashed"}

Out(e) == e \in evicted \/ Finished(e)

\* An identity has posted exactly one claim or none.
OneClaimEach ==
    /\ \A w \in Workers : posts[w] \in {0, 1}
    /\ \A w \in Workers : \A i \in 1 .. Len(thread) : IsClaim(i, w) => posts[w] = 1
    /\ \A w \in Workers : \A i, j \in 1 .. Len(thread) : IsClaim(i, w) /\ IsClaim(j, w) => i = j

\* A claimant that is still racing or owning has its claim at mine[w].
OwnClaimPosted ==
    \A w \in Workers : pc[w] \in {"posted", "conceding", "evicting", "held"} => IsClaim(mine[w], w)

\* Only superseded workers are conceded on behalf, and only claimants are superseded.
EvictionsRecorded ==
    /\ \A w \in Workers : toEvict[w] \subseteq evicted
    /\ \A e \in evicted : posts[e] = 1

\* A concede in the thread is the word of a worker that is out.
ConcededAreOut ==
    \A i \in 1 .. Len(thread) : thread[i].kind = "concede" => Out(thread[i].worker)

\* Whoever claimed before an owner is out.
EarlierAreOut ==
    \A w, e \in Workers : \A i \in 1 .. Len(thread) :
        Holding(w) /\ e # w /\ IsClaim(i, e) /\ i < mine[w] => Out(e)

IInv ==
    /\ TypeOK
    /\ OneClaimEach
    /\ OwnClaimPosted
    /\ EvictionsRecorded
    /\ ConcededAreOut
    /\ EarlierAreOut
Racing(w) == pc[w] \in {"posted", "conceding", "evicting", "held"}

\* A step that posts no claim and makes nobody an owner keeps the invariant, as
\* long as nobody who is out comes back in and every concede is of one who is out.
LEMMA QuietStep ==
    ASSUME IInv, TypeOK',
           \A i \in Nat, w \in Workers : IsClaim(i, w)' <=> IsClaim(i, w),
           posts' = posts, mine' = mine,
           \A w \in Workers : Racing(w)' => Racing(w),
           \A w \in Workers : Holding(w)' => Holding(w),
           \A e \in Workers : Out(e) => Out(e)',
           EvictionsRecorded',
           ConcededAreOut'
    PROVE  IInv'
<1>1. \A i \in 1 .. Len(thread)', w \in Workers : i \in Nat /\ (IsClaim(i, w)' => IsClaim(i, w) /\ i \in 1 .. Len(thread))
  BY DEF IsClaim, TypeOK
<1>2. OneClaimEach'
  BY <1>1 DEF IInv, OneClaimEach
<1>3. OwnClaimPosted'
  BY DEF IInv, OwnClaimPosted, Racing, TypeOK
<1>4. EarlierAreOut'
  BY <1>1 DEF IInv, EarlierAreOut
<1> QED
  BY <1>2, <1>3, <1>4 DEF IInv

\* Ages do not matter to who has claimed or conceded.
LEMMA SameMarkersFacts ==
    ASSUME TypeOK, TypeOK', SameMarkers(thread, thread')
    PROVE  /\ \A i \in Nat, w \in Workers : IsClaim(i, w)' <=> IsClaim(i, w)
           /\ \A i \in 1 .. Len(thread') : /\ i \in 1 .. Len(thread)
                                            /\ thread'[i].kind = thread[i].kind
                                            /\ thread'[i].worker = thread[i].worker
BY DEF SameMarkers, IsClaim, TypeOK

\* A concede is no claim.
LEMMA ConcedePosted ==
    ASSUME TypeOK, NEW e \in Workers, thread' = Append(thread, concedeMarker(e))
    PROVE  /\ \A i \in Nat, w \in Workers : IsClaim(i, w)' <=> IsClaim(i, w)
           /\ \A i \in 1 .. Len(thread') :
                thread'[i].kind = "concede" => \/ thread'[i].worker = e
                                               \/ /\ i \in 1 .. Len(thread)
                                                  /\ thread[i].kind = "concede"
                                                  /\ thread'[i].worker = thread[i].worker
<1>1. /\ Len(thread') = Len(thread) + 1
      /\ Len(thread) \in Nat
      /\ \A i \in 1 .. Len(thread) : thread'[i] = thread[i]
      /\ thread'[Len(thread) + 1] = concedeMarker(e)
  BY MarkerFacts, AppendFacts DEF TypeOK
<1>2. concedeMarker(e).kind = "concede" /\ concedeMarker(e).worker = e
  BY DEF concedeMarker
<1> QED
  BY <1>1, <1>2 DEF IsClaim

\* The claimant has used its only claim and nobody returns from being out.
LEMMA PostKeepsIInv ==
    ASSUME ClaimsPerWorker = 1, IInv, TypeOK', NEW x \in Workers,
           PostClaim(x) \/ PostClaimUnanswered(x)
    PROVE  IInv'
<1>1. /\ thread' = Append(thread, claimMarker(x))
      /\ posts' = [posts EXCEPT ![x] = posts[x] + 1]
      /\ evicted' = evicted \ {x}
      /\ toEvict' = toEvict
      /\ pc[x] = "idle"
      /\ posts[x] = 0
  BY DEF PostClaim, PostClaimUnanswered, MayClaim, IInv, TypeOK
<1>2. /\ \/ pc' = pc /\ mine' = mine
         \/ pc' = [pc EXCEPT ![x] = "posted"] /\ mine' = [mine EXCEPT ![x] = Len(thread) + 1]
  BY DEF PostClaim, PostClaimUnanswered
<1>3. /\ Len(thread') = Len(thread) + 1
      /\ Len(thread) \in Nat
      /\ \A i \in 1 .. Len(thread) : thread'[i] = thread[i]
      /\ thread'[Len(thread) + 1] = claimMarker(x)
  BY <1>1, MarkerFacts, AppendFacts DEF IInv, TypeOK
<1>4. claimMarker(x).kind = "claim" /\ claimMarker(x).worker = x
  BY DEF claimMarker
<1>5. \A i \in Nat, w \in Workers : IsClaim(i, w)' <=> IsClaim(i, w) \/ (i = Len(thread) + 1 /\ w = x)
  BY <1>3, <1>4 DEF IsClaim
<1>6. \A i \in 1 .. Len(thread) : ~IsClaim(i, x)
  BY <1>1 DEF IInv, OneClaimEach
<1>7. posts' \in [Workers -> Nat] /\ posts'[x] = 1 /\ \A w \in Workers \ {x} : posts'[w] = posts[w]
  <2>1. posts \in [Workers -> 0 .. 1]
    BY DEF IInv, TypeOK
  <2> QED
    BY <1>1, <2>1
<1>8. \A e \in Workers : Out(e) => e # x /\ Out(e)'
  <2> SUFFICES ASSUME NEW e \in Workers, Out(e) PROVE e # x /\ Out(e)'
    OBVIOUS
  <2>1. posts[e] = 1
    BY DEF Out, Finished, IInv, EvictionsRecorded
  <2>2. e # x
    BY <1>1, <2>1
  <2>3. pc'[e] = pc[e] /\ posts'[e] = posts[e]
    BY <1>2, <1>7, <2>2 DEF IInv, TypeOK
  <2> QED
    BY <1>1, <2>2, <2>3 DEF Out, Finished
<1>9. OneClaimEach'
  <2>1. \A w \in Workers : posts'[w] \in {0, 1}
    BY <1>7 DEF IInv, OneClaimEach
  <2>2. \A w \in Workers : \A i \in 1 .. Len(thread') : IsClaim(i, w)' => posts'[w] = 1
    BY <1>3, <1>5, <1>7, <1>6 DEF IInv, OneClaimEach, IsClaim
  <2>3. \A w \in Workers : \A i, j \in 1 .. Len(thread') : IsClaim(i, w)' /\ IsClaim(j, w)' => i = j
    BY <1>3, <1>5, <1>6 DEF IInv, OneClaimEach, IsClaim
  <2> QED
    BY <2>1, <2>2, <2>3 DEF OneClaimEach
<1>10. OwnClaimPosted'
  <2> SUFFICES ASSUME NEW w \in Workers,
                      pc'[w] \in {"posted", "conceding", "evicting", "held"}
               PROVE  IsClaim(mine[w], w)'
    BY DEF OwnClaimPosted
  <2>1. CASE w # x \/ (pc' = pc /\ mine' = mine)
    <3>1. pc'[w] = pc[w] /\ mine'[w] = mine[w]
      BY <1>2, <2>1 DEF IInv, TypeOK
    <3> QED
      BY <3>1, <1>3, <1>5 DEF IInv, OwnClaimPosted, IsClaim
  <2>2. CASE w = x /\ mine' = [mine EXCEPT ![x] = Len(thread) + 1]
    BY <2>2, <1>3, <1>4 DEF IInv, TypeOK, IsClaim
  <2> QED
    BY <1>2, <2>1, <2>2
<1>11. EvictionsRecorded'
  <2>1. x \notin evicted
    BY <1>1 DEF IInv, EvictionsRecorded
  <2> QED
    BY <1>1, <1>7, <2>1 DEF IInv, EvictionsRecorded, TypeOK
<1>12. ConcededAreOut'
  <2> SUFFICES ASSUME NEW i \in 1 .. Len(thread'), thread'[i].kind = "concede"
               PROVE  Out(thread[i].worker)'
    BY DEF ConcededAreOut
  <2>1. i \in 1 .. Len(thread) /\ thread'[i] = thread[i]
    BY <1>3, <1>4
  <2>2. thread[i].worker \in Workers
    <3>1. thread[i] \in Marker
      BY <2>1 DEF IInv, TypeOK
    <3> QED
      BY <3>1 DEF Marker
  <2>3. Out(thread[i].worker)
    BY <2>1 DEF IInv, ConcededAreOut
  <2>4. \A e \in Workers : Out(e) => Out(e)'
    BY <1>8
  <2> QED
    BY <2>1, <2>2, <2>3, <2>4 DEF Out, Finished
<1>13. EarlierAreOut'
  <2> SUFFICES ASSUME NEW w \in Workers, NEW e \in Workers, NEW i \in 1 .. Len(thread'),
                      Holding(w)', e # w, IsClaim(i, e)', i < mine'[w]
               PROVE  Out(e)'
    BY DEF EarlierAreOut
  <2>1. w # x /\ Holding(w) /\ mine'[w] = mine[w]
    BY <1>1, <1>2 DEF Holding, IInv, TypeOK
  <2>2. mine[w] \in 1 .. Len(thread)
    BY <2>1 DEF Holding, IInv, OwnClaimPosted, IsClaim
  <2>3. i \in 1 .. Len(thread) /\ IsClaim(i, e)
    BY <1>3, <1>5, <2>1, <2>2
  <2> QED
    BY <1>8, <2>1, <2>3 DEF IInv, EarlierAreOut
<1> QED
  BY <1>9, <1>10, <1>11, <1>12, <1>13 DEF IInv
\* The winner has seen every earlier claim: each of them was conceded, or live
\* and then not earlier, or stale and then superseded.
LEMMA DecideKeepsIInv ==
    ASSUME IInv, TypeOK', NEW x \in Workers, NEW k \in 1 .. Len(thread),
           NEW dead \in SUBSET Crashed, Decide(x, k, dead)
    PROVE  IInv'
<1>0. /\ thread' = thread
      /\ posts' = posts
      /\ mine' = mine
      /\ pc[x] = "posted"
      /\ k >= mine[x]
      /\ Len(thread) \in Nat
  BY DEF Decide, ListedOwn, IInv, TypeOK
<1>1. IsClaim(mine[x], x) /\ posts[x] = 1
  BY <1>0 DEF IInv, OwnClaimPosted, OneClaimEach, IsClaim
<1>2. \A i \in Nat, w \in Workers : IsClaim(i, w)' <=> IsClaim(i, w)
  BY <1>0 DEF IsClaim
<1>3. CASE ~Wins(x, k, dead)
  <2>1. pc' = [pc EXCEPT ![x] = "conceding"] /\ toEvict' = toEvict /\ evicted' = evicted
    BY <1>3 DEF Decide
  <2>2. \A w \in Workers : (Racing(w)' => Racing(w)) /\ (Holding(w)' => Holding(w))
    BY <1>0, <2>1 DEF Racing, Holding, IInv, TypeOK
  <2>3. \A e \in Workers : Out(e) => Out(e)'
    BY <1>0, <2>1 DEF Out, Finished, IInv, TypeOK
  <2>4. EvictionsRecorded' /\ ConcededAreOut'
    <3>1. EvictionsRecorded'
      BY <1>0, <2>1 DEF IInv, EvictionsRecorded
    <3>2. ASSUME NEW i \in 1 .. Len(thread), thread[i].kind = "concede"
          PROVE  Out(thread[i].worker)'
      <4>1. thread[i] \in Marker
        BY DEF IInv, TypeOK
      <4>2. thread[i].worker \in Workers
        BY <4>1 DEF Marker
      <4>3. Out(thread[i].worker)
        BY <3>2 DEF IInv, ConcededAreOut
      <4> QED
        BY <1>0, <2>3, <4>2, <4>3 DEF Out, Finished
    <3> QED
      BY <1>0, <3>1, <3>2 DEF ConcededAreOut
  <2> QED
    BY <1>0, <1>2, <2>2, <2>3, <2>4, QuietStep
<1>4. CASE Wins(x, k, dead)
  <2> DEFINE R == Recovered(x, k, dead)
  <2>1. /\ pc' = [pc EXCEPT ![x] = IF R = {} THEN "held" ELSE "evicting"]
        /\ toEvict' = [toEvict EXCEPT ![x] = R]
        /\ evicted' = evicted \cup R
    BY <1>4 DEF Decide
  <2>2. \A e \in R : e \in Workers \ {x} /\ posts[e] = 1
    <3> SUFFICES ASSUME NEW e \in R PROVE e \in Workers \ {x} /\ posts[e] = 1
      OBVIOUS
    <3>1. e \in Workers \ {x} /\ Contends(e, k)
      BY DEF Recovered
    <3>2. PICK i \in 1 .. k : LatestClaim(e, k, i)
      BY <3>1 DEF Contends
    <3>3. i \in 1 .. Len(thread) /\ IsClaim(i, e)
      BY <1>0, <3>2 DEF LatestClaim, IsClaim
    <3> QED
      BY <3>1, <3>3 DEF IInv, OneClaimEach
  <2>3. \A e \in Workers, i \in 1 .. Len(thread) :
          e # x /\ IsClaim(i, e) /\ i < mine[x] => Out(e) \/ e \in R
    <3> SUFFICES ASSUME NEW e \in Workers, NEW i \in 1 .. Len(thread),
                        e # x, IsClaim(i, e), i < mine[x]
                 PROVE  Out(e) \/ e \in R
      OBVIOUS
    <3>0. i \in 1 .. k /\ \A j \in 1 .. k : j \in 1 .. Len(thread)
      BY <1>0, <1>1 DEF IsClaim
    <3>1. \A j \in 1 .. k : thread[j].worker = x /\ thread[j].kind = "claim" => j = mine[x]
      BY <1>0, <1>1, <3>0 DEF IInv, OneClaimEach, IsClaim
    <3>2. Precedes(e, x, k)
      BY <3>0, <3>1 DEF Precedes, IsClaim
    <3>3. ~Precedes(x, e, k)
      BY <3>0, <3>1, <1>0 DEF Precedes, IsClaim, IInv, TypeOK
    <3>4. CASE Contends(e, k)
      <4>1. ~Live(x, e, k, dead)
        BY <1>4, <3>3 DEF Wins
      <4> QED
        BY <3>2, <3>4, <4>1 DEF Recovered
    <3>5. CASE ~Contends(e, k)
      <4>1. ~LatestClaim(e, k, i)
        BY <3>0, <3>5 DEF Contends
      <4>2. PICK j \in 1 .. k : j > i /\ thread[j].worker = e
        BY <3>0, <4>1 DEF LatestClaim, IsClaim
      <4>3. j \in 1 .. Len(thread) /\ ~IsClaim(j, e)
        BY <3>0, <4>2 DEF IInv, OneClaimEach
      <4>4. thread[j] \in Marker
        BY <4>3 DEF IInv, TypeOK
      <4>5. thread[j].kind = "concede"
        BY <4>2, <4>3, <4>4 DEF IsClaim, Marker
      <4> QED
        BY <4>2, <4>3, <4>5 DEF IInv, ConcededAreOut
    <3> QED
      BY <3>4, <3>5
  <2>4. R \subseteq Workers
    BY <2>2
  <2> HIDE DEF R
  <2>5. \A e \in Workers : Out(e) \/ e \in R => Out(e)'
    BY <1>0, <2>1 DEF Out, Finished, IInv, TypeOK
  <2>6. OneClaimEach'
    BY <1>0, <1>2 DEF IInv, OneClaimEach
  <2>7. OwnClaimPosted'
    <3>1. \A w \in Workers : Racing(w)' => Racing(w)
      BY <1>0, <2>1 DEF Racing, IInv, TypeOK
    <3> QED
      BY <1>0, <1>2, <3>1 DEF IInv, OwnClaimPosted, Racing, TypeOK
  <2>8. EvictionsRecorded'
    <3>1. ASSUME NEW w \in Workers PROVE toEvict'[w] \subseteq evicted'
      BY <2>1 DEF IInv, EvictionsRecorded, TypeOK
    <3>2. \A e \in evicted' : posts'[e] = 1
      BY <1>0, <2>1, <2>2 DEF IInv, EvictionsRecorded
    <3> QED
      BY <3>1, <3>2 DEF EvictionsRecorded
  <2>9. ConcededAreOut'
    <3> SUFFICES ASSUME NEW i \in 1 .. Len(thread), thread[i].kind = "concede"
                 PROVE  Out(thread[i].worker)'
      BY <1>0 DEF ConcededAreOut
    <3>1. thread[i] \in Marker
      BY DEF IInv, TypeOK
    <3>2. thread[i].worker \in Workers
      BY <3>1 DEF Marker
    <3>3. Out(thread[i].worker)
      BY DEF IInv, ConcededAreOut
    <3> QED
      BY <1>0, <2>5, <3>2, <3>3 DEF Out, Finished
  <2>10. EarlierAreOut'
    <3> SUFFICES ASSUME NEW w \in Workers, NEW e \in Workers, NEW i \in 1 .. Len(thread),
                        Holding(w)', e # w, IsClaim(i, e), i < mine[w]
                 PROVE  Out(e)'
      BY <1>0, <1>2 DEF EarlierAreOut
    <3>1. CASE w = x
      BY <2>3, <2>5, <3>1
    <3>2. CASE w # x
      <4>1. Holding(w)
        BY <2>1, <3>2 DEF Holding, IInv, TypeOK
      <4> QED
        BY <2>5, <4>1 DEF IInv, EarlierAreOut
    <3> QED
      BY <3>1, <3>2
  <2> QED
    BY <2>6, <2>7, <2>8, <2>9, <2>10 DEF IInv
<1> QED
  BY <1>3, <1>4
\* A step of a claimant that posts no claim, or of the clock, that leaves the
\* thread's claims alone.
LEMMA OtherStepsKeepIInv ==
    ASSUME IInv, TypeOK',
           \/ \E w \in Workers, l \in -1 .. Len(thread) : VerifyMiss(w, l)
           \/ \E w \in Workers : \/ ConcedeLost(w)
                                 \/ \E e \in Workers : ConcedeOnBehalf(w, e)
                                 \/ ConcedeOnBehalfFails(w)
                                 \/ RefreshHeartbeat(w)
                                 \/ Retire(w)
                                 \/ Crash(w)
           \/ Tick
           \/ UNCHANGED vars
    PROVE  IInv'
<1>0. TypeOK /\ thread \in Seq(Marker)
  BY DEF IInv, TypeOK
<1> DEFINE Calm ==
      /\ posts' = posts
      /\ mine' = mine
      /\ evicted' = evicted
      /\ \A v \in Workers : Racing(v)' => Racing(v)
      /\ \A v \in Workers : Holding(v)' => Holding(v)
      /\ \A v \in Workers : pc[v] \in {"idle", "conceding", "crashed"}
                              => pc'[v] \in {"idle", "conceding", "crashed"}
      /\ \A v \in Workers : toEvict'[v] \subseteq toEvict[v]
<1>1. Calm
  <2>1. ASSUME NEW w \in Workers, NEW l \in -1 .. Len(thread), VerifyMiss(w, l) PROVE Calm
    BY <1>0, <2>1 DEF VerifyMiss, Racing, Holding, TypeOK
  <2>2. ASSUME NEW w \in Workers, ConcedeLost(w) PROVE Calm
    BY <1>0, <2>2 DEF ConcedeLost, Racing, Holding, TypeOK
  <2>3. ASSUME NEW w \in Workers, NEW e \in Workers, ConcedeOnBehalf(w, e) PROVE Calm
    BY <1>0, <2>3 DEF ConcedeOnBehalf, Racing, Holding, TypeOK
  <2>4. ASSUME NEW w \in Workers, ConcedeOnBehalfFails(w) PROVE Calm
    BY <1>0, <2>4 DEF ConcedeOnBehalfFails, Racing, Holding, TypeOK
  <2>5. ASSUME NEW w \in Workers, RefreshHeartbeat(w) PROVE Calm
    BY <1>0, <2>5 DEF RefreshHeartbeat, Racing, Holding, TypeOK
  <2>6. ASSUME NEW w \in Workers, Retire(w) PROVE Calm
    BY <1>0, <2>6 DEF Retire, Racing, Holding, TypeOK
  <2>7. ASSUME NEW w \in Workers, Crash(w) PROVE Calm
    BY <1>0, <2>7 DEF Crash, Racing, Holding, TypeOK
  <2>8. CASE Tick \/ UNCHANGED vars
    BY <2>8 DEF Tick, vars, Racing, Holding
  <2> QED
    BY <2>1, <2>2, <2>3, <2>4, <2>5, <2>6, <2>7, <2>8
<1>3. EvictionsRecorded'
  BY <1>1 DEF IInv, EvictionsRecorded
<1>4. \A e \in Workers : Out(e) => Out(e)'
  BY <1>1 DEF Out, Finished
<1>5. \/ SameMarkers(thread, thread')
      \/ \E e \in Workers : thread' = Append(thread, concedeMarker(e)) /\ Out(e)'
  <2>1. ASSUME NEW w \in Workers, NEW l \in -1 .. Len(thread), VerifyMiss(w, l)
        PROVE  SameMarkers(thread, thread')
    BY <2>1 DEF VerifyMiss, SameMarkers
  <2>2. ASSUME NEW w \in Workers, ConcedeLost(w) \/ Retire(w)
        PROVE  \/ SameMarkers(thread, thread')
               \/ thread' = Append(thread, concedeMarker(w)) /\ Out(w)'
    <3>1. posts[w] = 1
      <4>1. Racing(w)
        BY <2>2 DEF ConcedeLost, Retire, Racing
      <4> QED
        BY <4>1 DEF IInv, OwnClaimPosted, OneClaimEach, IsClaim, Racing
    <3>2. pc'[w] = "idle"
      BY <1>0, <2>2 DEF ConcedeLost, Retire, TypeOK
    <3>3. Out(w)'
      BY <1>1, <3>1, <3>2 DEF Out, Finished
    <3>4. thread' = Append(thread, concedeMarker(w)) \/ thread' = thread
      BY <2>2 DEF ConcedeLost, Retire
    <3> QED
      BY <3>3, <3>4 DEF SameMarkers
  <2>3. ASSUME NEW w \in Workers, NEW e \in Workers, ConcedeOnBehalf(w, e)
        PROVE  thread' = Append(thread, concedeMarker(e)) /\ Out(e)'
    <3>1. e \in evicted
      BY <2>3 DEF ConcedeOnBehalf, IInv, EvictionsRecorded
    <3> QED
      BY <1>1, <2>3, <3>1 DEF ConcedeOnBehalf, Out
  <2>4. ASSUME NEW w \in Workers, ConcedeOnBehalfFails(w) \/ Crash(w)
        PROVE  SameMarkers(thread, thread')
    BY <2>4 DEF ConcedeOnBehalfFails, Crash, SameMarkers
  <2>5. ASSUME Tick \/ \E w \in Workers : RefreshHeartbeat(w)
        PROVE  SameMarkers(thread, thread')
    BY <1>0, <2>5, AgingFacts
  <2>6. CASE UNCHANGED vars
    BY <2>6 DEF vars, SameMarkers
  <2> QED
    BY <2>1, <2>2, <2>3, <2>4, <2>5, <2>6
<1>6. \A i \in 1 .. Len(thread) : thread[i].worker \in Workers
  <2> SUFFICES ASSUME NEW i \in 1 .. Len(thread) PROVE thread[i].worker \in Workers
    OBVIOUS
  <2>1. thread[i] \in Marker
    BY <1>0
  <2> QED
    BY <2>1 DEF Marker
<1>7. CASE SameMarkers(thread, thread')
  <2>1. \A i \in Nat, w \in Workers : IsClaim(i, w)' <=> IsClaim(i, w)
    BY <1>0, <1>7, SameMarkersFacts
  <2>2. ASSUME NEW i \in 1 .. Len(thread'), thread'[i].kind = "concede"
        PROVE  Out(thread[i].worker)'
    <3>1. /\ i \in 1 .. Len(thread)
          /\ thread[i].kind = "concede"
          /\ thread'[i].worker = thread[i].worker
      BY <1>0, <1>7, <2>2, SameMarkersFacts
    <3>2. Out(thread[i].worker)
      BY <3>1 DEF IInv, ConcededAreOut
    <3> QED
      BY <1>4, <1>6, <3>1, <3>2 DEF Out, Finished
  <2>3. ConcededAreOut'
    BY <2>2 DEF ConcededAreOut
  <2> QED
    BY <1>1, <1>3, <1>4, <2>1, <2>3, QuietStep
<1>8. CASE \E e \in Workers : thread' = Append(thread, concedeMarker(e)) /\ Out(e)'
  <2>0. PICK e \in Workers : thread' = Append(thread, concedeMarker(e)) /\ Out(e)'
    BY <1>8
  <2>1. \A i \in Nat, w \in Workers : IsClaim(i, w)' <=> IsClaim(i, w)
    BY <1>0, <2>0, ConcedePosted
  <2>2. ASSUME NEW i \in 1 .. Len(thread'), thread'[i].kind = "concede"
        PROVE  Out(thread[i].worker)'
    <3>1. \/ thread'[i].worker = e
          \/ /\ i \in 1 .. Len(thread)
             /\ thread[i].kind = "concede"
             /\ thread'[i].worker = thread[i].worker
      BY <1>0, <2>0, <2>2, ConcedePosted
    <3>2. CASE thread'[i].worker = e
      BY <2>0, <3>2 DEF Out, Finished
    <3>3. CASE /\ i \in 1 .. Len(thread)
               /\ thread[i].kind = "concede"
               /\ thread'[i].worker = thread[i].worker
      <4>1. Out(thread[i].worker)
        BY <3>3 DEF IInv, ConcededAreOut
      <4> QED
        BY <1>4, <1>6, <3>3, <4>1 DEF Out, Finished
    <3> QED
      BY <3>1, <3>2, <3>3
  <2>3. ConcededAreOut'
    BY <2>2 DEF ConcededAreOut
  <2> QED
    BY <1>1, <1>3, <1>4, <2>1, <2>3, QuietStep
<1> QED
  BY <1>5, <1>7, <1>8

\* The initial state satisfies the invariant.
LEMMA IInvInit == Init => IInv
<1> SUFFICES ASSUME Init PROVE IInv
  OBVIOUS
<1>1. TypeOK
  BY ClaimConstants DEF Init, TypeOK, Phases, Outcomes
<1>2. Len(thread) = 0
  BY DEF Init
<1> QED
  BY <1>1, <1>2 DEF Init, IInv, OneClaimEach, OwnClaimPosted, EvictionsRecorded,
     ConcededAreOut, EarlierAreOut, Holding

\* Every step keeps it, when nobody claims twice.
LEMMA IInvStep ==
    ASSUME ClaimsPerWorker = 1
    PROVE  IInv /\ TypeOK' /\ [Next]_vars => IInv'
<1> SUFFICES ASSUME IInv, TypeOK', [Next]_vars PROVE IInv'
  OBVIOUS
<1>1. ASSUME NEW w \in Workers, PostClaim(w) \/ PostClaimUnanswered(w) PROVE IInv'
  BY <1>1, PostKeepsIInv
<1>2. ASSUME NEW w \in Workers, NEW k \in 1 .. Len(thread), NEW dead \in SUBSET Crashed,
             Decide(w, k, dead)
      PROVE  IInv'
  BY <1>2, DecideKeepsIInv
<1>3. CASE \/ \E w \in Workers, l \in -1 .. Len(thread) : VerifyMiss(w, l)
           \/ \E w \in Workers : \/ ConcedeLost(w)
                                 \/ \E e \in Workers : ConcedeOnBehalf(w, e)
                                 \/ ConcedeOnBehalfFails(w)
                                 \/ RefreshHeartbeat(w)
                                 \/ Retire(w)
                                 \/ Crash(w)
           \/ Tick
           \/ UNCHANGED vars
  BY <1>3, OtherStepsKeepIInv
<1> QED
  BY <1>1, <1>2, <1>3 DEF Next, Step

\* The invariant leaves one owner: of two, the later claim's owner has the other out.
LEMMA OneOwner == IInv => MutualExclusion
<1> SUFFICES ASSUME IInv, NEW w \in Workers \ evicted, NEW e \in Workers \ evicted,
                    Holding(w), Holding(e), w # e
             PROVE  FALSE
  BY DEF MutualExclusion
<1>1. IsClaim(mine[w], w) /\ IsClaim(mine[e], e)
  BY DEF Holding, IInv, OwnClaimPosted
<1>2. ~Out(w) /\ ~Out(e)
  BY DEF Out, Finished, Holding
<1>3. mine[w] # mine[e] /\ mine[w] \in 1 .. Len(thread) /\ mine[e] \in 1 .. Len(thread)
  BY <1>1 DEF IsClaim
<1>4. mine[w] < mine[e] \/ mine[e] < mine[w]
  BY <1>3
<1> QED
  BY <1>1, <1>2, <1>3, <1>4 DEF IInv, EarlierAreOut

\* Verdicts that the claimants of reconcileClaim reach on their own read-backs,
\* at their own times, never make two of them owners unless one was superseded
\* as stale or dead: for any number of claimants, any staleness policy and any
\* number of read-backs, when no identity claims the issue twice.
THEOREM ClaimMutualExclusion ==
    ASSUME ClaimsPerWorker = 1
    PROVE  Spec => []MutualExclusion
BY IInvInit, IInvStep, OneOwner, TypeCorrect, PTL DEF Spec

\* No claimant, whatever the policy and however often identities claim, takes
\* the issue over from a live owner whose marker is within the window.
THEOREM OwnersAreNotRobbed == Spec => NeverRobbed
<1> DEFINE Silent(e) ==
      \/ pc[e] = "crashed"
      \/ \E i \in DOMAIN thread :
           /\ thread[i].worker = e
           /\ thread[i].kind = "claim"
           /\ thread[i].age > Cadence * (Tolerance + 1)
<1>1. TypeOK /\ [Next]_vars => [\A e \in evicted' \ evicted : Silent(e)]_vars
  <2> SUFFICES ASSUME TypeOK, Next, NEW e \in evicted' \ evicted PROVE Silent(e)
    OBVIOUS
  <2>1. PICK w \in Workers, k \in 1 .. Len(thread), dead \in SUBSET Crashed : Decide(w, k, dead)
    BY DEF Next, Step, PostClaim, PostClaimUnanswered, VerifyMiss, ConcedeLost, ConcedeOnBehalf,
           ConcedeOnBehalfFails, RefreshHeartbeat, Retire, Crash, Tick
  <2>2. e \in Recovered(w, k, dead)
    BY <2>1 DEF Decide
  <2>3. StaleFor(w, e, k, dead)
    BY <2>2 DEF Recovered, Live
  <2>4. PICK i \in 1 .. k : LatestClaim(e, k, i) /\ (e \in dead \/ classifyStale(thread[i]))
    BY <2>3 DEF StaleFor
  <2>5. i \in DOMAIN thread
    BY DEF TypeOK
  <2> QED
    BY <2>4, <2>5 DEF LatestClaim, classifyStale, staleWindowS, Crashed
<1> QED
  BY <1>1, TypeCorrect, PTL DEF Spec, NeverRobbed

-----------------------------------------------------------------------------
(* The sole claimant.  However often identities claim: a claimant that has  *)
(* no rival has the last comment of the thread, so that it is exempt from   *)
(* its own staleness.                                                       *)

HasRival(w) == \E i \in 1 .. Len(thread) : thread[i].worker # w /\ thread[i].kind = "claim"

RivalInv ==
    /\ OwnClaimPosted
    /\ \A w \in Workers : pc[w] = "posted" => mine[w] = Len(thread) \/ HasRival(w)
    /\ \A w \in Workers : pc[w] = "conceding" => HasRival(w)

\* The thread changes by a claim of one who was idle, by a concede that one with a
\* claim of its own posts, or not at all but for ages.
LEMMA ThreadMoves ==
    ASSUME TypeOK, [Next]_vars
    PROVE  \/ SameMarkers(thread, thread')
           \/ \E x, e \in Workers : /\ Racing(x) /\ pc[x] # "posted"
                                    /\ thread' = Append(thread, concedeMarker(e))
           \/ \E x \in Workers : pc[x] = "idle" /\ thread' = Append(thread, claimMarker(x))
<1> DEFINE Goal ==
           \/ SameMarkers(thread, thread')
           \/ \E x, e \in Workers : /\ Racing(x) /\ pc[x] # "posted"
                                    /\ thread' = Append(thread, concedeMarker(e))
           \/ \E x \in Workers : pc[x] = "idle" /\ thread' = Append(thread, claimMarker(x))
<1>0. thread' = thread => SameMarkers(thread, thread')
  BY DEF SameMarkers
<1>1. ASSUME NEW w \in Workers, PostClaim(w) \/ PostClaimUnanswered(w) PROVE Goal
  BY <1>1 DEF PostClaim, PostClaimUnanswered
<1>2. ASSUME NEW w \in Workers, NEW e \in Workers,
             ConcedeLost(w) \/ Retire(w) \/ ConcedeOnBehalf(w, e)
      PROVE  Goal
  BY <1>0, <1>2 DEF ConcedeLost, Retire, ConcedeOnBehalf, Racing
<1>3. CASE Tick \/ \E w \in Workers : RefreshHeartbeat(w)
  BY <1>3, AgingFacts
<1>4. CASE thread' = thread
  BY <1>0, <1>4
<1>5. ASSUME NEW w \in Workers, NEW k \in 1 .. Len(thread), NEW dead \in SUBSET Crashed, Decide(w, k, dead)
      PROVE  thread' = thread
  BY <1>5 DEF Decide
<1>6. ASSUME NEW w \in Workers, NEW l \in -1 .. Len(thread), VerifyMiss(w, l) PROVE thread' = thread
  BY <1>6 DEF VerifyMiss
<1>7. ASSUME NEW w \in Workers, ConcedeOnBehalfFails(w) \/ Crash(w) PROVE thread' = thread
  BY <1>7 DEF ConcedeOnBehalfFails, Crash
<1>8. UNCHANGED vars => thread' = thread
  BY DEF vars
<1> QED
  BY <1>1, <1>2, <1>3, <1>4, <1>5, <1>6, <1>7, <1>8 DEF Next, Step

\* No comment is ever removed, or changes its worker or kind.
LEMMA ThreadGrows ==
    ASSUME TypeOK, [Next]_vars
    PROVE  /\ Len(thread) \in Nat /\ Len(thread') \in Nat /\ Len(thread) <= Len(thread')
           /\ \A i \in 1 .. Len(thread) : /\ thread'[i].worker = thread[i].worker
                                          /\ thread'[i].kind = thread[i].kind
           /\ \A i \in Nat, w \in Workers : IsClaim(i, w) => IsClaim(i, w)'
<1>0. thread \in Seq(Marker) /\ Len(thread) \in Nat
  BY DEF TypeOK
<1>1. ASSUME NEW m \in Marker, thread' = Append(thread, m)
      PROVE  /\ Len(thread') = Len(thread) + 1
             /\ \A i \in 1 .. Len(thread) : thread'[i] = thread[i]
  BY <1>0, <1>1
<1>2. /\ Len(thread') = Len(thread) \/ Len(thread') = Len(thread) + 1
      /\ \A i \in 1 .. Len(thread) : /\ thread'[i].worker = thread[i].worker
                                     /\ thread'[i].kind = thread[i].kind
  <2>1. CASE SameMarkers(thread, thread')
    BY <2>1 DEF SameMarkers
  <2>2. ASSUME NEW e \in Workers, thread' = Append(thread, concedeMarker(e)) \/ thread' = Append(thread, claimMarker(e))
        PROVE  /\ Len(thread') = Len(thread) + 1
               /\ \A i \in 1 .. Len(thread) : thread'[i] = thread[i]
    BY <1>1, <2>2, MarkerFacts
  <2> QED
    BY <2>1, <2>2, ThreadMoves
<1> QED
  BY <1>0, <1>2 DEF IsClaim

\* How a claimant comes to race, to be undecided and to be conceding.
LEMMA PhaseMoves ==
    ASSUME TypeOK, [Next]_vars, NEW w \in Workers
    PROVE  /\ Racing(w)' => (Racing(w) /\ mine'[w] = mine[w]) \/ PostClaim(w)
           /\ pc'[w] = "posted" => (pc[w] = "posted" /\ mine'[w] = mine[w]) \/ PostClaim(w)
           /\ pc'[w] = "conceding" =>
                \/ pc[w] = "conceding"
                \/ \E k \in 1 .. Len(thread), dead \in SUBSET Crashed :
                      Decide(w, k, dead) /\ ~Wins(w, k, dead)
<1>0. pc \in [Workers -> Phases] /\ mine \in [Workers -> Nat]
  BY DEF TypeOK
<1> DEFINE Goal ==
           /\ Racing(w)' => (Racing(w) /\ mine'[w] = mine[w]) \/ PostClaim(w)
           /\ pc'[w] = "posted" => (pc[w] = "posted" /\ mine'[w] = mine[w]) \/ PostClaim(w)
           /\ pc'[w] = "conceding" =>
                \/ pc[w] = "conceding"
                \/ \E k \in 1 .. Len(thread), dead \in SUBSET Crashed :
                      Decide(w, k, dead) /\ ~Wins(w, k, dead)
<1>1. ASSUME NEW x \in Workers, PostClaim(x) PROVE Goal
  <2>1. CASE x = w
    BY <1>0, <1>1, <2>1 DEF PostClaim
  <2>2. CASE x # w
    <3>1. pc'[w] = pc[w] /\ mine'[w] = mine[w]
      BY <1>0, <1>1, <2>2 DEF PostClaim
    <3> QED
      BY <3>1 DEF Racing
  <2> QED
    BY <2>1, <2>2
<1>2. ASSUME NEW x \in Workers, NEW k \in 1 .. Len(thread), NEW dead \in SUBSET Crashed, Decide(x, k, dead)
      PROVE  Goal
  <2>1. mine' = mine /\ pc[x] = "posted"
    BY <1>2 DEF Decide
  <2>2. CASE Wins(x, k, dead)
    <3>1. pc'[w] = pc[w] \/ (w = x /\ pc'[w] \in {"held", "evicting"})
      BY <1>0, <1>2, <2>2 DEF Decide
    <3> QED
      BY <2>1, <3>1 DEF Racing
  <2>3. CASE ~Wins(x, k, dead)
    <3>1. pc'[w] = pc[w] \/ (w = x /\ pc'[w] = "conceding")
      BY <1>0, <1>2, <2>3 DEF Decide
    <3> QED
      BY <1>2, <2>1, <2>3, <3>1 DEF Racing
  <2> QED
    BY <2>2, <2>3
<1>3. ASSUME mine' = mine, pc'[w] = pc[w] \/ pc'[w] \in {"idle", "crashed"}
                            \/ (pc[w] = "evicting" /\ pc'[w] \in {"evicting", "held"})
      PROVE  Goal
  BY <1>3 DEF Racing
<1>4. ASSUME NEW x \in Workers, NEW l \in -1 .. Len(thread), VerifyMiss(x, l) PROVE Goal
  BY <1>0, <1>3, <1>4 DEF VerifyMiss
<1>5. ASSUME NEW x \in Workers, NEW e \in Workers, ConcedeOnBehalf(x, e) PROVE Goal
  BY <1>0, <1>3, <1>5 DEF ConcedeOnBehalf
<1>6. ASSUME NEW x \in Workers,
             PostClaimUnanswered(x) \/ ConcedeLost(x) \/ ConcedeOnBehalfFails(x) \/ RefreshHeartbeat(x)
               \/ Retire(x) \/ Crash(x)
      PROVE  Goal
  BY <1>0, <1>3, <1>6 DEF PostClaimUnanswered, ConcedeLost, ConcedeOnBehalfFails, RefreshHeartbeat, Retire, Crash
<1>7. CASE Tick \/ UNCHANGED vars
  BY <1>3, <1>7 DEF Tick, vars
<1> QED
  BY <1>1, <1>2, <1>4, <1>5, <1>6, <1>7 DEF Next, Step

\* A claimant without a rival wins when it decides: the list it believes ends with
\* its own claim, and nobody else contends.
LEMMA AloneWins ==
    ASSUME TypeOK, NEW w \in Workers, NEW k \in 1 .. Len(thread), NEW dead,
           IsClaim(mine[w], w), mine[w] = Len(thread), ListedOwn(w, k), ~HasRival(w)
    PROVE  Wins(w, k, dead)
<1>0. Len(thread) \in Nat
  BY DEF TypeOK
<1>1. k = mine[w] /\ k = Len(thread)
  BY <1>0 DEF ListedOwn
<1>2. LatestClaim(w, k, k)
  BY <1>0, <1>1 DEF LatestClaim, IsClaim
<1>3. Live(w, w, k, dead)
  BY <1>0, <1>1, <1>2 DEF Live, Contends, selfPostedFresh
<1>4. ASSUME NEW e \in Workers \ {w} PROVE ~Contends(e, k)
  BY <1>1 DEF Contends, LatestClaim, HasRival
<1> QED
  BY <1>3, <1>4 DEF Wins, Live

\* Every step keeps the rivals of those who lost, and of those who may.
LEMMA RivalStep == TypeOK /\ TypeOK' /\ RivalInv /\ [Next]_vars => RivalInv'
<1> SUFFICES ASSUME TypeOK, TypeOK', RivalInv, [Next]_vars PROVE RivalInv'
  OBVIOUS
<1>0. mine \in [Workers -> Nat] /\ mine' \in [Workers -> Nat]
  BY DEF TypeOK
<1>1. \A w \in Workers : HasRival(w) => HasRival(w)'
  BY ThreadGrows DEF HasRival
<1>p. ASSUME NEW w \in Workers, PostClaim(w) PROVE mine'[w] = Len(thread') /\ IsClaim(mine[w], w)'
  <2>1. thread' = Append(thread, claimMarker(w)) /\ mine'[w] = Len(thread) + 1
    BY <1>0, <1>p DEF PostClaim
  <2>2. Len(thread') = Len(thread) + 1 /\ thread'[Len(thread) + 1] = claimMarker(w) /\ Len(thread) \in Nat
    BY <2>1, MarkerFacts, AppendFacts DEF TypeOK
  <2> QED
    BY <2>1, <2>2 DEF IsClaim, claimMarker
<1>2. OwnClaimPosted'
  <2> SUFFICES ASSUME NEW w \in Workers, Racing(w)' PROVE IsClaim(mine[w], w)'
    BY DEF OwnClaimPosted, Racing
  <2>1. CASE Racing(w) /\ mine'[w] = mine[w]
    <3>1. IsClaim(mine[w], w) /\ mine[w] \in Nat
      BY <1>0, <2>1 DEF RivalInv, OwnClaimPosted, Racing
    <3>2. /\ mine'[w] \in 1 .. Len(thread')
          /\ thread'[mine'[w]].worker = w
          /\ thread'[mine'[w]].kind = "claim"
      BY <2>1, <3>1, ThreadGrows DEF IsClaim
    <3> QED
      BY <3>2 DEF IsClaim
  <2> QED
    BY <1>p, <2>1, PhaseMoves
<1>3. ASSUME NEW w \in Workers, pc'[w] = "posted" PROVE mine'[w] = Len(thread') \/ HasRival(w)'
  <2>1. CASE pc[w] = "posted" /\ mine'[w] = mine[w] /\ ~HasRival(w)
    <3>0. mine[w] = Len(thread)
      BY <2>1 DEF RivalInv
    <3>1. CASE SameMarkers(thread, thread')
      BY <2>1, <3>0, <3>1 DEF SameMarkers
    <3>2. ASSUME NEW x \in Workers, Racing(x), pc[x] # "posted" PROVE FALSE
      <4>1. x # w /\ IsClaim(mine[x], x)
        BY <2>1, <3>2 DEF RivalInv, OwnClaimPosted, Racing
      <4> QED
        BY <2>1, <4>1 DEF HasRival, IsClaim
    <3>3. ASSUME NEW x \in Workers, pc[x] = "idle", thread' = Append(thread, claimMarker(x))
          PROVE  HasRival(w)'
      <4>1. Len(thread') = Len(thread) + 1 /\ thread'[Len(thread) + 1] = claimMarker(x) /\ Len(thread) \in Nat
        BY <3>3, MarkerFacts, AppendFacts DEF TypeOK
      <4>2. x # w
        BY <2>1, <3>3
      <4> QED
        BY <4>1, <4>2 DEF HasRival, claimMarker
    <3> QED
      BY <3>1, <3>2, <3>3, ThreadMoves
  <2> QED
    BY <1>1, <1>3, <1>p, <2>1, PhaseMoves
<1>4. ASSUME NEW w \in Workers, pc'[w] = "conceding" PROVE HasRival(w)'
  <2>1. ASSUME NEW k \in 1 .. Len(thread), NEW dead \in SUBSET Crashed, Decide(w, k, dead), ~Wins(w, k, dead)
        PROVE  HasRival(w)
    <3>1. pc[w] = "posted" /\ ListedOwn(w, k)
      BY <2>1 DEF Decide
    <3>2. IsClaim(mine[w], w) /\ (mine[w] = Len(thread) \/ HasRival(w))
      BY <3>1 DEF RivalInv, OwnClaimPosted
    <3> QED
      BY <2>1, <3>1, <3>2, AloneWins
  <2>2. pc[w] = "conceding" => HasRival(w)
    BY DEF RivalInv
  <2> QED
    BY <1>1, <1>4, <2>1, <2>2, PhaseMoves
<1> QED
  BY <1>2, <1>3, <1>4 DEF RivalInv

\* A claimant that loses has a rival: nobody concedes an issue that no other worker
\* claimed, for any staleness policy, any slowness of its read-back and any number
\* of claims.
THEOREM SoleClaimantWins == Spec => []SoleClaimantNeverLoses
<1>1. Init => RivalInv
  BY DEF Init, RivalInv, OwnClaimPosted
<1>2. TypeOK /\ RivalInv => SoleClaimantNeverLoses
  <2> SUFFICES ASSUME TypeOK, RivalInv, NEW w \in Workers, pc[w] = "conceding"
               PROVE  \E i \in DOMAIN thread : thread[i].worker # w /\ thread[i].kind = "claim"
    BY DEF SoleClaimantNeverLoses
  <2>1. DOMAIN thread = 1 .. Len(thread)
    BY DEF TypeOK
  <2>2. HasRival(w)
    BY DEF RivalInv
  <2> QED
    BY <2>1, <2>2 DEF HasRival
<1> QED
  BY <1>1, <1>2, RivalStep, TypeCorrect, PTL DEF Spec

-----------------------------------------------------------------------------
(* The claimants do not all lose.  The claimant of the first comment is     *)
(* behind nobody: it loses only when its own marker outlived the window, or *)
(* when a winner conceded on its behalf.                                    *)

\* Somebody's claim ended otherwise than by losing.
Decided == \E e \in Workers : posts[e] > 0 /\ outcome[e] \in {"won", "error"}

\* A concede follows the claim it withdraws.
FirstIsClaim == Len(thread) >= 1 => thread[1].kind = "claim"

\* What the outcome says about where a claimant is.
VerdictsFit ==
    \A w \in Workers :
        /\ pc[w] = "posted" => outcome[w] = "none"
        /\ pc[w] = "conceding" => outcome[w] = "lost"
        /\ outcome[w] = "lost" => IsClaim(mine[w], w) /\ pc[w] \in {"conceding", "idle", "crashed"}

\* Whoever is superseded is superseded by a winner.
EvictionsAreDecided == evicted # {} => Decided

\* The first claimant loses for its age or to a winner that superseded it.
FirstLosesLate ==
    Len(thread) >= 1 /\ outcome[thread[1].worker] = "lost"
      => thread[1].age > staleWindowS \/ Decided

LossInv == IInv /\ FirstIsClaim /\ VerdictsFit /\ EvictionsAreDecided /\ FirstLosesLate

\* How a claimant's outcome and its place in the call change together.
LEMMA OutcomeMoves ==
    ASSUME TypeOK, [Next]_vars, NEW w \in Workers
    PROVE  /\ pc'[w] = "posted" => (pc[w] = "posted" /\ outcome'[w] = outcome[w]) \/ outcome'[w] = "none"
           /\ pc'[w] = "conceding" => (pc[w] = "conceding" /\ outcome'[w] = outcome[w]) \/ outcome'[w] = "lost"
           /\ outcome'[w] = "lost" =>
                \/ /\ outcome[w] = "lost" \/ pc[w] = "conceding"
                   /\ mine'[w] = mine[w]
                   /\ pc'[w] = pc[w] \/ pc'[w] \in {"idle", "crashed"} \/ pc[w] = "evicting"
                \/ /\ mine'[w] = mine[w]
                   /\ pc'[w] = "conceding"
                   /\ \E k \in 1 .. Len(thread), dead \in SUBSET Crashed :
                         Decide(w, k, dead) /\ ~Wins(w, k, dead)
           /\ \/ outcome'[w] = outcome[w]
              \/ outcome'[w] \in {"won", "error"}
              \/ pc[w] \in {"posted", "conceding"}
              \/ MayClaim(w)
           /\ posts'[w] >= posts[w]
<1>0. /\ pc \in [Workers -> Phases] /\ mine \in [Workers -> Nat]
      /\ outcome \in [Workers -> Outcomes] /\ posts \in [Workers -> 0 .. ClaimsPerWorker]
  BY DEF TypeOK
<1> DEFINE Goal ==
           /\ pc'[w] = "posted" => (pc[w] = "posted" /\ outcome'[w] = outcome[w]) \/ outcome'[w] = "none"
           /\ pc'[w] = "conceding" => (pc[w] = "conceding" /\ outcome'[w] = outcome[w]) \/ outcome'[w] = "lost"
           /\ outcome'[w] = "lost" =>
                \/ /\ outcome[w] = "lost" \/ pc[w] = "conceding"
                   /\ mine'[w] = mine[w]
                   /\ pc'[w] = pc[w] \/ pc'[w] \in {"idle", "crashed"} \/ pc[w] = "evicting"
                \/ /\ mine'[w] = mine[w]
                   /\ pc'[w] = "conceding"
                   /\ \E k \in 1 .. Len(thread), dead \in SUBSET Crashed :
                         Decide(w, k, dead) /\ ~Wins(w, k, dead)
           /\ \/ outcome'[w] = outcome[w]
              \/ outcome'[w] \in {"won", "error"}
              \/ pc[w] \in {"posted", "conceding"}
              \/ MayClaim(w)
           /\ posts'[w] >= posts[w]
<1>a. posts[w] >= posts[w] /\ posts[w] + 1 >= posts[w]
  BY <1>0, ClaimConstants
<1>1. ASSUME NEW x \in Workers, PostClaim(x) \/ PostClaimUnanswered(x) PROVE Goal
  <2>1. CASE x = w
    BY <1>0, <1>a, <1>1, <2>1 DEF PostClaim, PostClaimUnanswered
  <2>2. CASE x # w
    <3>1. pc'[w] = pc[w] /\ mine'[w] = mine[w] /\ outcome'[w] = outcome[w] /\ posts'[w] = posts[w]
      BY <1>0, <1>1, <2>2 DEF PostClaim, PostClaimUnanswered
    <3> QED
      BY <1>a, <3>1
  <2> QED
    BY <2>1, <2>2
<1>2. ASSUME NEW x \in Workers, NEW k \in 1 .. Len(thread), NEW dead \in SUBSET Crashed, Decide(x, k, dead)
      PROVE  Goal
  <2>1. mine' = mine /\ posts' = posts /\ pc[x] = "posted"
    BY <1>2 DEF Decide
  <2>2. CASE Wins(x, k, dead)
    <3>1. \/ pc'[w] = pc[w] /\ outcome'[w] = outcome[w]
          \/ pc'[w] \in {"held", "evicting"} /\ outcome'[w] = "won"
      BY <1>0, <1>2, <2>2 DEF Decide
    <3> QED
      BY <1>a, <2>1, <3>1
  <2>3. CASE ~Wins(x, k, dead)
    <3>1. \/ pc'[w] = pc[w] /\ outcome'[w] = outcome[w]
          \/ w = x /\ pc'[w] = "conceding" /\ outcome'[w] = "lost"
      BY <1>0, <1>2, <2>3 DEF Decide
    <3> QED
      BY <1>a, <1>2, <2>1, <2>3, <3>1
  <2> QED
    BY <2>2, <2>3
<1>3. ASSUME mine' = mine, posts' = posts,
             \/ /\ outcome'[w] = outcome[w]
                /\ \/ pc'[w] = pc[w] \/ pc'[w] \in {"idle", "crashed"}
                   \/ pc[w] = "evicting" /\ pc'[w] \in {"evicting", "held"}
             \/ /\ pc'[w] \in {"idle"}
                /\ \/ pc[w] = "posted" /\ outcome'[w] \in {"infrastructure", "propagation"}
                   \/ pc[w] = "conceding" /\ outcome'[w] \in {"lost", "error"}
                   \/ outcome'[w] = "error"
      PROVE  Goal
  BY <1>a, <1>3
<1>4. ASSUME NEW x \in Workers, NEW l \in -1 .. Len(thread), VerifyMiss(x, l) PROVE Goal
  BY <1>0, <1>3, <1>4 DEF VerifyMiss
<1>5. ASSUME NEW x \in Workers, NEW e \in Workers, ConcedeOnBehalf(x, e) PROVE Goal
  BY <1>0, <1>3, <1>5 DEF ConcedeOnBehalf
<1>6. ASSUME NEW x \in Workers, ConcedeLost(x) PROVE Goal
  BY <1>0, <1>3, <1>6 DEF ConcedeLost
<1>7. ASSUME NEW x \in Workers, ConcedeOnBehalfFails(x) \/ RefreshHeartbeat(x) \/ Retire(x) \/ Crash(x)
      PROVE  Goal
  BY <1>0, <1>3, <1>7 DEF ConcedeOnBehalfFails, RefreshHeartbeat, Retire, Crash
<1>8. CASE Tick \/ UNCHANGED vars
  BY <1>3, <1>8 DEF Tick, vars
<1> QED
  BY <1>1, <1>2, <1>4, <1>5, <1>6, <1>7, <1>8 DEF Next, Step

\* Only the heartbeat of a held claim makes a marker younger.
LEMMA AgesGrow ==
    ASSUME TypeOK, [Next]_vars, NEW i \in 1 .. Len(thread)
    PROVE  \/ thread[i].age \in Nat /\ thread'[i].age \in Nat /\ thread'[i].age >= thread[i].age
           \/ \E w \in Workers : RefreshHeartbeat(w) /\ mine[w] = i
<1>0. /\ thread \in Seq(Marker) /\ Len(thread) \in Nat /\ DOMAIN thread = 1 .. Len(thread)
      /\ thread[i] \in Marker
  BY DEF TypeOK
<1>a. thread[i].age \in Nat /\ thread[i].age >= thread[i].age
  BY <1>0, MarkerFacts DEF Marker
<1>1. CASE thread'[i] = thread[i]
  BY <1>a, <1>1
<1>2. CASE Tick
  <2>1. thread'[i] = IF thread[i].kind = "claim" /\ thread[i].age < MaxAge
                       THEN [thread[i] EXCEPT !.age = @ + 1] ELSE thread[i]
    BY <1>0, <1>2 DEF Tick
  <2>2. [thread[i] EXCEPT !.age = @ + 1].age = thread[i].age + 1
    BY <1>0 DEF Marker
  <2> QED
    BY <1>a, <2>1, <2>2
<1>3. ASSUME NEW w \in Workers, RefreshHeartbeat(w), mine[w] # i PROVE thread'[i] = thread[i]
  BY <1>0, <1>3 DEF RefreshHeartbeat
<1>4. ASSUME NEW m \in Marker, thread' = Append(thread, m) PROVE thread'[i] = thread[i]
  BY <1>0, <1>4
<1>5. ASSUME NEW w \in Workers, NEW e \in Workers,
             \/ PostClaim(w) \/ PostClaimUnanswered(w) \/ ConcedeLost(w) \/ Retire(w) \/ ConcedeOnBehalf(w, e)
             \/ ConcedeOnBehalfFails(w) \/ Crash(w)
      PROVE  thread'[i] = thread[i]
  <2>1. \/ thread' = thread \/ thread' = Append(thread, claimMarker(w))
        \/ thread' = Append(thread, concedeMarker(w)) \/ thread' = Append(thread, concedeMarker(e))
    BY <1>5 DEF PostClaim, PostClaimUnanswered, ConcedeLost, Retire, ConcedeOnBehalf, ConcedeOnBehalfFails, Crash
  <2> QED
    BY <1>4, <2>1, MarkerFacts
<1>6. ASSUME NEW w \in Workers, NEW k \in 1 .. Len(thread), NEW dead \in SUBSET Crashed, Decide(w, k, dead)
      PROVE  thread' = thread
  BY <1>6 DEF Decide
<1>7. ASSUME NEW w \in Workers, NEW l \in -1 .. Len(thread), VerifyMiss(w, l) PROVE thread' = thread
  BY <1>7 DEF VerifyMiss
<1>8. UNCHANGED vars => thread' = thread
  BY DEF vars
<1> QED
  BY <1>1, <1>2, <1>3, <1>5, <1>6, <1>7, <1>8 DEF Next, Step

\* A claim that ended otherwise than by losing stays so: its identity claims no more.
LEMMA DecidedStays ==
    ASSUME ClaimsPerWorker = 1, TypeOK, VerdictsFit, [Next]_vars, Decided
    PROVE  Decided'
<1>1. PICK e \in Workers : posts[e] > 0 /\ outcome[e] \in {"won", "error"}
  BY DEF Decided
<1>2. posts[e] \in Nat /\ ~MayClaim(e) /\ pc[e] \notin {"posted", "conceding"}
  BY <1>1 DEF MayClaim, TypeOK, VerdictsFit
<1>3. outcome'[e] \in {"won", "error"}
  BY <1>1, <1>2, OutcomeMoves
<1>4. posts'[e] > 0
  <2>1. posts'[e] >= posts[e] /\ posts'[e] \in Nat
    <3>1. TypeOK'
      BY TypeStep
    <3> QED
      BY <3>1, ClaimConstants, OutcomeMoves DEF TypeOK
  <2> QED
    BY <1>1, <1>2, <2>1
<1> QED
  BY <1>3, <1>4 DEF Decided

\* The first claimant that decides against itself is stale or was superseded.
LEMMA FirstLoses ==
    ASSUME LossInv, NEW w \in Workers, NEW k \in 1 .. Len(thread), NEW dead \in SUBSET Crashed,
           Decide(w, k, dead), ~Wins(w, k, dead), thread[1].worker = w
    PROVE  thread[1].age > staleWindowS \/ Decided
<1>0. thread \in Seq(Marker) /\ Len(thread) \in Nat /\ 1 \in 1 .. k /\ \A j \in 1 .. k : j \in 1 .. Len(thread)
  BY DEF LossInv, IInv, TypeOK
<1>1. pc[w] = "posted" /\ k >= mine[w]
  BY DEF Decide, ListedOwn
<1>2. IsClaim(1, w)
  BY <1>0 DEF LossInv, FirstIsClaim, IsClaim
<1>3. \A j \in 1 .. k : thread[j].worker = w /\ thread[j].kind = "claim" => j = 1
  BY <1>0, <1>2 DEF LossInv, IInv, OneClaimEach, IsClaim
<1>4. ASSUME NEW e \in Workers \ {w} PROVE Precedes(w, e, k)
  <2>1. \A j \in 1 .. k : thread[j].worker = e => 1 < j
    BY <1>0
  <2> QED
    BY <1>0, <1>2, <2>1 DEF Precedes, IsClaim
<1>5. ~Live(w, w, k, dead)
  BY <1>4 DEF Wins
<1>6. CASE ~Contends(w, k)
  <2>1. ~LatestClaim(w, k, 1)
    BY <1>0, <1>6 DEF Contends
  <2>2. PICK j \in 1 .. k : j > 1 /\ thread[j].worker = w
    BY <1>0, <1>2, <2>1 DEF LatestClaim, IsClaim
  <2>3. thread[j] \in Marker /\ j \in 1 .. Len(thread)
    BY <1>0
  <2>4. thread[j].kind = "concede"
    BY <1>3, <2>2, <2>3 DEF Marker
  <2>5. Out(w)
    BY <2>2, <2>3, <2>4 DEF LossInv, IInv, ConcededAreOut
  <2>6. w \in evicted
    BY <1>1, <2>5 DEF Out, Finished
  <2> QED
    BY <2>6 DEF LossInv, EvictionsAreDecided
<1>7. CASE StaleFor(w, w, k, dead)
  <2>1. PICK i \in 1 .. k : LatestClaim(w, k, i) /\ (w \in dead \/ classifyStale(thread[i]))
    BY <1>7 DEF StaleFor
  <2>2. i = 1
    BY <1>3, <2>1 DEF LatestClaim
  <2>3. w \notin dead
    BY <1>1 DEF Crashed
  <2> QED
    BY <2>1, <2>2, <2>3 DEF classifyStale
<1> QED
  BY <1>5, <1>6, <1>7 DEF Live

\* Every step keeps it, when nobody claims twice.
LEMMA LossStep ==
    ASSUME ClaimsPerWorker = 1
    PROVE  LossInv /\ [Next]_vars => LossInv'
<1> SUFFICES ASSUME LossInv, [Next]_vars PROVE LossInv'
  OBVIOUS
<1>0. /\ TypeOK /\ IInv /\ VerdictsFit
      /\ thread \in Seq(Marker) /\ Len(thread) \in Nat
  BY DEF LossInv, IInv, TypeOK
<1>1. TypeOK' /\ IInv'
  BY <1>0, TypeStep, IInvStep
<1>2. Decided => Decided'
  BY <1>0, DecidedStays
<1>3. FirstIsClaim'
  <2>1. CASE Len(thread) >= 1
    BY <1>0, <2>1, ThreadGrows DEF LossInv, FirstIsClaim
  <2>2. CASE Len(thread) = 0
    <3>1. CASE SameMarkers(thread, thread')
      BY <2>2, <3>1 DEF SameMarkers, FirstIsClaim
    <3>2. ASSUME NEW x \in Workers, Racing(x) PROVE FALSE
      BY <1>0, <2>2, <3>2 DEF IInv, OwnClaimPosted, Racing, IsClaim
    <3>3. ASSUME NEW x \in Workers, thread' = Append(thread, claimMarker(x)) PROVE FirstIsClaim'
      <4>1. thread'[1] = claimMarker(x)
        BY <1>0, <2>2, <3>3, MarkerFacts, AppendFacts
      <4> QED
        BY <4>1 DEF FirstIsClaim, claimMarker
    <3> QED
      BY <1>0, <3>1, <3>2, <3>3, ThreadMoves
  <2> QED
    BY <1>0, <2>1, <2>2
<1>4. VerdictsFit'
  <2> SUFFICES ASSUME NEW w \in Workers
               PROVE  /\ pc'[w] = "posted" => outcome'[w] = "none"
                      /\ pc'[w] = "conceding" => outcome'[w] = "lost"
                      /\ outcome'[w] = "lost" => IsClaim(mine[w], w)' /\ pc'[w] \in {"conceding", "idle", "crashed"}
    BY DEF VerdictsFit
  <2>1. pc'[w] = "posted" => outcome'[w] = "none"
    BY <1>0, OutcomeMoves DEF VerdictsFit
  <2>2. pc'[w] = "conceding" => outcome'[w] = "lost"
    BY <1>0, OutcomeMoves DEF VerdictsFit
  <2>3. ASSUME outcome'[w] = "lost" PROVE IsClaim(mine[w], w)' /\ pc'[w] \in {"conceding", "idle", "crashed"}
    <3>1. IsClaim(mine[w], w) /\ mine'[w] = mine[w]
      <4>1. CASE (outcome[w] = "lost" \/ pc[w] = "conceding") /\ mine'[w] = mine[w]
        BY <1>0, <4>1 DEF VerdictsFit
      <4>2. ASSUME mine'[w] = mine[w], NEW k, NEW dead, Decide(w, k, dead) PROVE IsClaim(mine[w], w)
        BY <1>0, <4>2 DEF Decide, IInv, OwnClaimPosted
      <4> QED
        BY <1>0, <2>3, <4>1, <4>2, OutcomeMoves
    <3>2. pc'[w] \in {"conceding", "idle", "crashed"}
      BY <1>0, <2>3, OutcomeMoves DEF VerdictsFit
    <3>3. /\ mine'[w] \in 1 .. Len(thread')
          /\ thread'[mine'[w]].worker = w
          /\ thread'[mine'[w]].kind = "claim"
      BY <1>0, <3>1, ThreadGrows DEF IsClaim
    <3> QED
      BY <3>2, <3>3 DEF IsClaim
  <2> QED
    BY <2>1, <2>2, <2>3
<1>5. EvictionsAreDecided'
  <2>1. ASSUME NEW x \in Workers, NEW k \in 1 .. Len(thread), NEW dead \in SUBSET Crashed,
               Decide(x, k, dead), Wins(x, k, dead)
        PROVE  Decided'
    <3>1. posts' = posts /\ outcome'[x] = "won" /\ pc[x] = "posted"
      BY <1>0, <2>1 DEF Decide, TypeOK
    <3>2. posts[x] = 1
      BY <1>0, <3>1 DEF IInv, OwnClaimPosted, OneClaimEach, IsClaim
    <3> QED
      BY <3>1, <3>2 DEF Decided
  <2>2. ASSUME NEW x \in Workers, NEW k \in 1 .. Len(thread), NEW dead \in SUBSET Crashed,
               Decide(x, k, dead), ~Wins(x, k, dead)
        PROVE  evicted' = evicted
    BY <2>2 DEF Decide
  <2>3. \/ evicted' \subseteq evicted
        \/ \E x \in Workers, k \in 1 .. Len(thread), dead \in SUBSET Crashed : Decide(x, k, dead)
    BY DEF Next, Step, vars, PostClaim, PostClaimUnanswered, VerifyMiss, ConcedeLost, ConcedeOnBehalf,
           ConcedeOnBehalfFails, RefreshHeartbeat, Retire, Crash, Tick
  <2>4. evicted # {} => Decided
    BY DEF LossInv, EvictionsAreDecided
  <2> QED
    BY <1>2, <2>1, <2>2, <2>3, <2>4 DEF EvictionsAreDecided
<1>6. FirstLosesLate'
  <2> SUFFICES ASSUME NEW w, w = thread'[1].worker, Len(thread') >= 1, outcome'[w] = "lost"
               PROVE  thread'[1].age > staleWindowS \/ Decided'
    BY DEF FirstLosesLate
  <2>1. w \in Workers
    <3>1. thread'[1] \in Marker
      BY <1>1 DEF TypeOK
    <3> QED
      BY <3>1 DEF Marker
  <2>2. CASE outcome[w] = "lost" \/ pc[w] = "conceding"
    <3>1. outcome[w] = "lost" /\ IsClaim(mine[w], w) /\ pc[w] \in {"conceding", "idle", "crashed"}
      BY <1>0, <2>1, <2>2 DEF VerdictsFit
    <3>2. Len(thread) >= 1 /\ 1 \in 1 .. Len(thread)
      BY <1>0, <3>1 DEF IsClaim
    <3>3. thread[1].worker = w /\ thread[1].kind = "claim"
      BY <1>0, <3>2, ThreadGrows DEF LossInv, FirstIsClaim
    <3>4. thread[1].age > staleWindowS \/ Decided
      BY <3>1, <3>2, <3>3 DEF LossInv, FirstLosesLate
    <3>5. ASSUME NEW x \in Workers, RefreshHeartbeat(x), mine[x] = 1 PROVE FALSE
      <4>1. pc[x] = "held"
        BY <3>5 DEF RefreshHeartbeat
      <4>2. IsClaim(1, x)
        BY <1>0, <3>5, <4>1 DEF IInv, OwnClaimPosted
      <4> QED
        BY <3>1, <3>3, <4>1, <4>2 DEF IsClaim
    <3>6. thread[1].age \in Nat /\ thread'[1].age \in Nat /\ thread'[1].age >= thread[1].age
      BY <1>0, <3>2, <3>5, AgesGrow
    <3> QED
      BY <1>2, <3>4, <3>6, MarkerFacts
  <2>3. ASSUME NEW k \in 1 .. Len(thread), NEW dead \in SUBSET Crashed,
               Decide(w, k, dead), ~Wins(w, k, dead)
        PROVE  thread'[1].age > staleWindowS \/ Decided'
    <3>1. thread' = thread
      BY <2>3 DEF Decide
    <3> QED
      BY <1>2, <2>1, <2>3, <3>1, FirstLoses
  <2> QED
    BY <1>0, <2>1, <2>2, <2>3, OutcomeMoves
<1> QED
  BY <1>1, <1>3, <1>4, <1>5, <1>6 DEF LossInv

\* The claim of the first comment is lost only if it is stale, or to a claim that was
\* decided: not every claim posted is lost.
LEMMA SomeoneIsLeft == LossInv => NoMutualLoss
<1> SUFFICES ASSUME LossInv, NEW w \in Workers, outcome[w] = "lost",
                    \A e \in Workers : posts[e] > 0 => outcome[e] = "lost"
             PROVE  \E i \in DOMAIN thread : thread[i].age > staleWindowS
  BY DEF NoMutualLoss
<1>0. thread \in Seq(Marker) /\ Len(thread) \in Nat /\ DOMAIN thread = 1 .. Len(thread)
  BY DEF LossInv, IInv, TypeOK
<1>1. Len(thread) >= 1 /\ 1 \in 1 .. Len(thread)
  BY <1>0 DEF LossInv, VerdictsFit, IsClaim
<1>2. thread[1] \in Marker
  BY <1>0, <1>1
<1>3. thread[1].worker \in Workers /\ IsClaim(1, thread[1].worker)
  BY <1>1, <1>2 DEF LossInv, FirstIsClaim, IsClaim, Marker
<1>4. posts[thread[1].worker] = 1
  BY <1>1, <1>3 DEF LossInv, IInv, OneClaimEach
<1>5. ~Decided
  BY DEF Decided
<1>6. outcome[thread[1].worker] = "lost"
  BY <1>3, <1>4
<1> QED
  BY <1>0, <1>1, <1>5, <1>6 DEF LossInv, FirstLosesLate

\* Whatever the read-backs show and whenever they come, the claimants of an issue do
\* not all concede it to each other: when every claim was judged lost, some marker
\* had outlived the staleness window.  For any number of claimants and any policy,
\* when no identity claims the issue twice.
THEOREM NotEverybodyLoses ==
    ASSUME ClaimsPerWorker = 1
    PROVE  Spec => []NoMutualLoss
<1>1. Init => LossInv
  <2>1. Init => Len(thread) = 0
    BY DEF Init
  <2> QED
    BY <2>1, IInvInit DEF Init, LossInv, FirstIsClaim, VerdictsFit, EvictionsAreDecided, FirstLosesLate
<1> QED
  BY <1>1, LossStep, SomeoneIsLeft, PTL DEF Spec
=============================================================================

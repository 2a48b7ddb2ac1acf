----------------------------- MODULE IssueClaim -----------------------------
(***************************************************************************)
(* The GitHub-native claim of one issue (packages/worker, engine/tracker:  *)
(* claim.ts, claim-verification.ts, claim-staleness.ts).                   *)
(*                                                                         *)
(* Claimants on any host post `claim` and `concede` markers to the issue's *)
(* comment thread.  GitHub numbers comments, and the number is the order   *)
(* that arbitrates: a claimant posts its claim, reads the thread back until*)
(* its own comment shows, folds the markers of each worker into one        *)
(* intention, and has won when its earliest claim precedes every other     *)
(* live contender's.  Contenders whose marker has been silent for longer   *)
(* than the staleness window, or who are known to be dead, are passed over *)
(* and conceded on behalf.                                                 *)
(*                                                                         *)
(* The thread is the only shared state.  A comment's id is its index; the  *)
(* timestamp of a marker is kept as its age, which saturates one past the  *)
(* window, so that time never ends.                                        *)
(***************************************************************************)
EXTENDS Integers, Sequences

CONSTANTS
    Workers,          \* claimant identities, host:worker_id
    Cadence,          \* refreshCadenceS, in ticks
    Tolerance,        \* missed refreshes tolerated
    Grace,            \* claimGraceS, in ticks
    VerifyAttempts,   \* read-backs before a claim is unverifiable
    ClaimsPerWorker,  \* bound: claims one identity may post on this issue
    SelfStamped       \* whether the caller hands its own createdAt to acquireClaim

ASSUME ClaimConstants ==
    /\ Cadence \in Nat \ {0}
    /\ Tolerance \in Nat
    /\ Grace \in Nat
    /\ VerifyAttempts \in Nat \ {0}
    /\ ClaimsPerWorker \in Nat \ {0}
    /\ SelfStamped \in BOOLEAN

VARIABLES
    thread,     \* the issue's claim markers, in comment-id order
    pc,         \* where each claimant is in acquireClaim / retireIssueLease
    mine,       \* id of the claim each claimant last posted
    attempts,   \* read-backs left
    populated,  \* sawPopulatedList
    toEvict,    \* recovered owners still to be conceded on behalf
    outcome,    \* how each claimant's last acquireClaim ended
    evicted,    \* history: workers superseded as stale since their last claim
    posts       \* claims posted by each identity, up to ClaimsPerWorker

vars == <<thread, pc, mine, attempts, populated, toEvict, outcome, evicted, posts>>

\* Mutant: no missed refresh is tolerated.
staleWindowS_untolerant == Cadence

staleWindowS == Cadence * (Tolerance + 1)

\* Ages saturate here: every older marker is classified alike.
MaxAge == (IF Grace > staleWindowS THEN Grace ELSE staleWindowS) + 1

Marker == [worker : Workers, kind : {"claim", "concede"}, age : 0 .. MaxAge]

claimMarker(w) == [worker |-> w, kind |-> "claim", age |-> 0]

\* Mutant: a kind the wire format does not have.
concedeMarker_misspelt(w) == [worker |-> w, kind |-> "conceded", age |-> 0]

concedeMarker(w) == [worker |-> w, kind |-> "concede", age |-> 0]

Phases == {"idle", "posted", "conceding", "evicting", "held", "crashed"}

Outcomes == {"none", "won", "lost", "propagation", "infrastructure", "error"}

TypeOK ==
    /\ thread \in Seq(Marker)
    /\ pc \in [Workers -> Phases]
    /\ mine \in [Workers -> Nat]
    /\ attempts \in [Workers -> 0 .. VerifyAttempts]
    /\ populated \in [Workers -> BOOLEAN]
    /\ toEvict \in [Workers -> SUBSET Workers]
    /\ outcome \in [Workers -> Outcomes]
    /\ evicted \in SUBSET Workers
    /\ posts \in [Workers -> 0 .. ClaimsPerWorker]

-----------------------------------------------------------------------------
(* claim-staleness.ts: the classifier behind the injected isStale.          *)

classifyStale(r) == r.age > Grace /\ r.age > staleWindowS

-----------------------------------------------------------------------------
(* reconcileClaim over the listed prefix 1..k of the thread.  `dead` is the *)
(* set of workers the injected liveness answers "dead" for.                 *)

\* The latest marker of e among the listed ones is its claim i.
LatestClaim(e, k, i) ==
    /\ i \in 1 .. k
    /\ thread[i].worker = e
    /\ thread[i].kind = "claim"
    /\ \A j \in 1 .. k : j > i => thread[j].worker # e

Contends(e, k) == \E i \in 1 .. k : LatestClaim(e, k, i)

\* The earliest listed claim of e is older than every listed claim of f.
Precedes(e, f, k) ==
    \E i \in 1 .. k :
        /\ thread[i].worker = e
        /\ thread[i].kind = "claim"
        /\ \A j \in 1 .. k :
              (thread[j].worker = f /\ thread[j].kind = "claim") => i < j

\* Mutant: the comparison is strict, though the read-back lists our own marker.
selfPostedFresh_strict(w, k) == k < mine[w]

\* Every listed marker is at most as new as the claim being reconciled.
selfPostedFresh(w, k) == k <= mine[w]

\* isStale of e's latest record as w sees it: the worker is known dead, or the
\* record's age is past the window.  w's own record is the merged one at
\* mine[w], whose timestamp is the one the caller passed, if any.
StaleFor(w, e, k, dead) ==
    \E i \in 1 .. k :
        /\ LatestClaim(e, k, i)
        /\ \/ e \in dead
           \/ classifyStale(thread[i]) /\ (e = w /\ i = mine[w] => SelfStamped)

Live(w, e, k, dead) ==
    /\ Contends(e, k)
    /\ (e = w /\ selfPostedFresh(w, k)) \/ ~StaleFor(w, e, k, dead)

\* Mutant: any other live claim beats us, whatever its order.
Wins_soloOnly(w, k, dead) ==
    /\ Live(w, w, k, dead)
    /\ \A e \in Workers \ {w} : ~Live(w, e, k, dead)

\* Mutant: the comparator of contenders is inverted.
Wins_latestFirst(w, k, dead) ==
    /\ Live(w, w, k, dead)
    /\ \A e \in Workers \ {w} : Live(w, e, k, dead) => Precedes(e, w, k)

Wins(w, k, dead) ==
    /\ Live(w, w, k, dead)
    /\ \A e \in Workers \ {w} : Live(w, e, k, dead) => Precedes(w, e, k)

Recovered(w, k, dead) ==
    {e \in Workers \ {w} :
        Contends(e, k) /\ ~Live(w, e, k, dead) /\ Precedes(e, w, k)}

-----------------------------------------------------------------------------
Init ==
    /\ thread = <<>>
    /\ pc = [w \in Workers |-> "idle"]
    /\ mine = [w \in Workers |-> 0]
    /\ attempts = [w \in Workers |-> 0]
    /\ populated = [w \in Workers |-> FALSE]
    /\ toEvict = [w \in Workers |-> {}]
    /\ outcome = [w \in Workers |-> "none"]
    /\ evicted = {}
    /\ posts = [w \in Workers |-> 0]

MayClaim(w) == posts[w] < ClaimsPerWorker

\* acquireClaim: the claim is posted and answered with its id.
PostClaim(w) ==
    /\ pc[w] = "idle"
    /\ MayClaim(w)
    /\ thread' = Append(thread, claimMarker(w))
    /\ pc' = [pc EXCEPT ![w] = "posted"]
    /\ mine' = [mine EXCEPT ![w] = Len(thread) + 1]
    /\ attempts' = [attempts EXCEPT ![w] = VerifyAttempts]
    /\ populated' = [populated EXCEPT ![w] = FALSE]
    /\ outcome' = [outcome EXCEPT ![w] = "none"]
    /\ evicted' = evicted \ {w}
    /\ posts' = [posts EXCEPT ![w] = @ + 1]
    /\ UNCHANGED toEvict

\* postClaim rejects although the comment landed: acquireClaim throws and
\* nobody withdraws the marker.
PostClaimUnanswered(w) ==
    /\ pc[w] = "idle"
    /\ MayClaim(w)
    /\ thread' = Append(thread, claimMarker(w))
    /\ outcome' = [outcome EXCEPT ![w] = "error"]
    /\ evicted' = evicted \ {w}
    /\ posts' = [posts EXCEPT ![w] = @ + 1]
    /\ UNCHANGED <<pc, mine, attempts, populated, toEvict>>

\* Mutant: the read-back budget starts over when it runs out.
VerifyMiss_renewed(w, listed) ==
    /\ pc[w] = "posted"
    /\ listed < mine[w]
    /\ attempts' = [attempts EXCEPT ![w] = IF @ > 1 THEN @ - 1 ELSE VerifyAttempts]
    /\ populated' = [populated EXCEPT ![w] = @ \/ listed > 0]
    /\ UNCHANGED <<thread, pc, mine, toEvict, outcome, evicted, posts>>

\* One read-back that does not show our comment: the list call failed
\* (listed = -1) or has not caught up (the first `listed` comments).  The last
\* one throws: "infrastructure" when no list was ever populated and the last
\* answer was an empty list, otherwise "propagation".  The claim stays posted.
VerifyMiss(w, listed) ==
    LET seen == populated[w] \/ listed > 0 IN
    /\ pc[w] = "posted"
    /\ attempts[w] > 0
    /\ listed < mine[w]
    /\ attempts' = [attempts EXCEPT ![w] = @ - 1]
    /\ populated' = [populated EXCEPT ![w] = seen]
    /\ IF attempts[w] > 1
          THEN UNCHANGED <<pc, outcome>>
          ELSE /\ pc' = [pc EXCEPT ![w] = "idle"]
               /\ outcome' = [outcome EXCEPT ![w] =
                    IF ~seen /\ listed = 0 THEN "infrastructure" ELSE "propagation"]
    /\ UNCHANGED <<thread, mine, toEvict, evicted, posts>>

\* The read-back is only believed when it lists our own comment.
ListedOwn(w, k) == k >= mine[w]

\* The list shows our comment: the verdict is a function of it.
Decide(w, k, dead) ==
    /\ pc[w] = "posted"
    /\ ListedOwn(w, k)
    /\ IF Wins(w, k, dead)
          THEN LET recovered == Recovered(w, k, dead) IN
               /\ pc' = [pc EXCEPT ![w] = IF recovered = {} THEN "held" ELSE "evicting"]
               /\ outcome' = [outcome EXCEPT ![w] = "won"]
               /\ toEvict' = [toEvict EXCEPT ![w] = recovered]
               /\ evicted' = evicted \cup recovered
          ELSE /\ pc' = [pc EXCEPT ![w] = "conceding"]
               /\ outcome' = [outcome EXCEPT ![w] = "lost"]
               /\ UNCHANGED <<toEvict, evicted>>
    /\ UNCHANGED <<thread, mine, attempts, populated, posts>>

\* The loser withdraws.  A concede that is rejected, whether it landed or not,
\* rejects the acquisition; one that did not land leaves the claim to age out.
\* (No caller outside the tests sets suppressConcede.)
ConcedeLost(w) ==
    /\ pc[w] = "conceding"
    /\ thread' \in {Append(thread, concedeMarker(w)), thread}
    /\ pc' = [pc EXCEPT ![w] = "idle"]
    /\ \E result \in {"lost", "error"} :
          /\ thread' = thread => result = "error"
          /\ outcome' = [outcome EXCEPT ![w] = result]
    /\ UNCHANGED <<mine, attempts, populated, toEvict, evicted, posts>>

\* The winner concedes one recovered owner on its behalf.
ConcedeOnBehalf(w, e) ==
    /\ pc[w] = "evicting"
    /\ e \in toEvict[w]
    /\ thread' = Append(thread, concedeMarker(e))
    /\ toEvict' = [toEvict EXCEPT ![w] = @ \ {e}]
    /\ pc' = [pc EXCEPT ![w] = IF toEvict[w] = {e} THEN "held" ELSE "evicting"]
    /\ UNCHANGED <<mine, attempts, populated, outcome, evicted, posts>>

\* A concede on behalf that fails rejects the whole acquisition: the winner
\* gives up with its claim still posted.
ConcedeOnBehalfFails(w) ==
    /\ pc[w] = "evicting"
    /\ pc' = [pc EXCEPT ![w] = "idle"]
    /\ toEvict' = [toEvict EXCEPT ![w] = {}]
    /\ outcome' = [outcome EXCEPT ![w] = "error"]
    /\ UNCHANGED <<thread, mine, attempts, populated, evicted, posts>>

\* refreshClaimHeartbeats: a due claim's marker is edited in place.  A refused
\* edit changes nothing.
RefreshHeartbeat(w) ==
    /\ pc[w] = "held"
    /\ thread[mine[w]].age >= Cadence
    /\ thread' = [thread EXCEPT ![mine[w]].age = 0]
    /\ UNCHANGED <<pc, mine, attempts, populated, toEvict, outcome, evicted, posts>>

\* retireIssueLease: the holder stops and concedes; the concede may fail.
Retire(w) ==
    /\ pc[w] = "held"
    /\ thread' \in {Append(thread, concedeMarker(w)), thread}
    /\ pc' = [pc EXCEPT ![w] = "idle"]
    /\ UNCHANGED <<mine, attempts, populated, toEvict, outcome, evicted, posts>>

Crash(w) ==
    /\ pc[w] \notin {"idle", "crashed"}
    /\ pc' = [pc EXCEPT ![w] = "crashed"]
    /\ toEvict' = [toEvict EXCEPT ![w] = {}]
    /\ UNCHANGED <<thread, mine, attempts, populated, outcome, evicted, posts>>

\* Time passes for every claim marker.
Tick ==
    /\ thread' = [i \in DOMAIN thread |->
                    IF thread[i].kind = "claim" /\ thread[i].age < MaxAge
                      THEN [thread[i] EXCEPT !.age = @ + 1]
                      ELSE thread[i]]
    /\ UNCHANGED <<pc, mine, attempts, populated, toEvict, outcome, evicted, posts>>

Crashed == {w \in Workers : pc[w] = "crashed"}

\* What the claimant's own code does once its call has begun.
Step(w) ==
    \/ \E listed \in -1 .. Len(thread) : VerifyMiss(w, listed)
    \/ \E k \in 1 .. Len(thread) : \E dead \in SUBSET Crashed : Decide(w, k, dead)
    \/ ConcedeLost(w)
    \/ \E e \in Workers : ConcedeOnBehalf(w, e)
    \/ ConcedeOnBehalfFails(w)

Next ==
    \/ \E w \in Workers :
         \/ PostClaim(w)
         \/ PostClaimUnanswered(w)
         \/ Step(w)
         \/ RefreshHeartbeat(w)
         \/ Retire(w)
         \/ Crash(w)
    \/ Tick

\* A claimant whose process lives keeps running its own call.
Fairness == \A w \in Workers : WF_vars(Step(w))

Spec == Init /\ [][Next]_vars /\ Fairness

-----------------------------------------------------------------------------
(* Properties.                                                              *)

\* acquireClaim has told (or is about to tell) its caller that it owns the issue.
Holding(w) == pc[w] \in {"evicting", "held"}

\* Two claimants own the issue at once only if one of them was passed over as
\* stale or dead by a winner (reconcileClaim's verdicts, taken on different
\* prefixes of the thread at different times, agree on a single owner).
MutualExclusion ==
    \A w, e \in Workers \ evicted : Holding(w) /\ Holding(e) => w = e

\* A winner supersedes an owner only after the owner's process died or its
\* claim marker was silent for longer than cadence * (tolerance + 1): a live
\* holder that refreshes is never robbed (claim-staleness.ts).
NeverRobbed ==
    [][\A e \in evicted' \ evicted :
         \/ pc[e] = "crashed"
         \/ \E i \in DOMAIN thread :
              /\ thread[i].worker = e
              /\ thread[i].kind = "claim"
              /\ thread[i].age > Cadence * (Tolerance + 1)]_vars

\* Nobody concedes an issue that no other worker ever claimed, however slowly
\* its read-back came (the sole claimant of reconcileClaim's #2385 exemption).
SoleClaimantNeverLoses ==
    \A w \in Workers : pc[w] = "conceding" =>
        \E i \in DOMAIN thread : thread[i].worker # w /\ thread[i].kind = "claim"

\* The claimants of an issue never all lose: when every claim posted was judged
\* lost, some marker had outlived the staleness window while undecided.
NoMutualLoss ==
    (\E w \in Workers : outcome[w] = "lost")
      /\ (\A w \in Workers : posts[w] > 0 => outcome[w] = "lost")
    => \E i \in DOMAIN thread : thread[i].age > staleWindowS

\* A claimant that wins never overtakes an owner whose claim was posted before
\* the claim just made: re-posting a claim does not jump the queue.
NoQueueJump ==
    [][\A w, e \in Workers :
         (~Holding(w) /\ Holding(w)') =>
            ~(w # e /\ Holding(e) /\ e \notin evicted' /\ mine[e] < mine[w])]_vars

\* Every acquireClaim comes to a verdict or an error: its read-backs are
\* bounded and each of its awaits is one request.
ClaimIsDecided ==
    \A w \in Workers :
        pc[w] \in {"posted", "conceding", "evicting"}
          ~> pc[w] \in {"idle", "held", "crashed"}
=============================================================================

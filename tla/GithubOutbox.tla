----------------------------- MODULE GithubOutbox -----------------------------
(***************************************************************************)
(* The daemon's outbox of GitHub writes.  A request is put in a file as    *)
(* pending, sent to GitHub, and marked published in the file; a repeated   *)
(* key is answered from the entry.  Between the write upstream and the     *)
(* file lies the crash that the outbox is for: the entry is still pending, *)
(* and who executes it again finds the marker that the first one left.     *)
(* Operations are serialized, one at a time; each change of the entries is *)
(* one in memory and one write of the file, so a change is one step, whose *)
(* write succeeds or fails, and the requests to GitHub are steps between.  *)
(***************************************************************************)
EXTENDS Naturals, FiniteSets, Sequences

CONSTANTS
    Requests,   \* the writes that callers ask for
    KeyOf,      \* the idempotency key of each
    Kind,       \* "push", "post" (a pull request, issue or comment) or "transition"
    Hidden,     \* publications that are not on the page a lookup lists
    Retention,  \* GITHUB_OUTBOX_PUBLISHED_RETENTION
    MaxFaults   \* bound: restarts, failed requests and failed writes

Keys == {KeyOf[r] : r \in Requests}

ASSUME OutboxConstants ==
    /\ IsFiniteSet(Requests)
    /\ Kind \in [Requests -> {"push", "post", "transition"}]
    /\ Hidden \subseteq Requests
    /\ Retention \in Nat
    /\ MaxFaults \in Nat

VARIABLES
    file,      \* the entries on disk
    mem,       \* the daemon's entries
    loaded,    \* whether they were read from the file yet
    op,        \* the operation that runs
    todo,      \* what a resume has listed and not executed yet
    posts,     \* how often each write took effect on GitHub
    labelled,  \* the transitions whose labels were changed
    receipts,  \* the requests answered with a receipt
    faults     \* for the bound

vars == <<file, mem, loaded, op, todo, posts, labelled, receipts, faults>>

\* `at` is an entry's place in the array.
Entry == [req : Requests, state : {"pending", "published"}, at : 1 .. Cardinality(Keys)]

Absent == [state |-> "absent"]

Held(s) == {k \in Keys : s[k] # Absent}

\* The entries are the elements of one array.
Snapshots ==
    {s \in [Keys -> Entry \cup {Absent}] :
       {s[k].at : k \in Held(s)} = 1 .. Cardinality(Held(s))}

Empty == [k \in Keys |-> Absent]

\* `resumed` tells the operations of a resume from those of callers.
Idle == [at |-> "idle"]

Operations ==
    [at : {"send", "lookup", "post", "record"}, req : Requests, resumed : BOOLEAN] \cup {Idle}

TypeOK ==
    /\ file \in Snapshots
    /\ mem \in Snapshots
    /\ loaded \in BOOLEAN
    /\ op \in Operations
    /\ todo \in Seq(Requests)
    /\ posts \in [Requests -> Nat]
    /\ labelled \subseteq Requests
    /\ receipts \subseteq Requests
    /\ faults \in 0 .. MaxFaults

Init ==
    /\ file = Empty
    /\ mem = Empty
    /\ loaded = FALSE
    /\ op = Idle
    /\ todo = <<>>
    /\ posts = [r \in Requests |-> 0]
    /\ labelled = {}
    /\ receipts = {}
    /\ faults = 0

-----------------------------------------------------------------------------
(* The entries                                                               *)

Pending(s) == {k \in Held(s) : s[k].state = "pending"}

Published(s) == Held(s) \ Pending(s)

\* Mutant: what is not kept leaves a hole in the array.
Filtered_holes(s, kept) == [k \in Keys |-> IF k \in kept THEN s[k] ELSE Absent]

\* The array without the entries that are not kept.
Filtered(s, kept) ==
    [k \in Keys |->
       IF k \in kept
         THEN [s[k] EXCEPT !.at = Cardinality({j \in kept : s[j].at <= s[k].at})]
         ELSE Absent]

\* Mutant: the newest entries are kept, executed or not.
compactOutboxSnapshot_newest(s) ==
    Filtered(s, {k \in Held(s) : Cardinality({j \in Held(s) : s[j].at > s[k].at}) < Retention})

\* Every pending entry is kept, and the newest of the published ones.
compactOutboxSnapshot(s) ==
    Filtered(s, Pending(s) \cup {k \in Published(s) :
                  Cardinality({j \in Published(s) : s[j].at > s[k].at}) < Retention})

load == IF loaded THEN mem ELSE compactOutboxSnapshot(file)

Loaded == mem' = load /\ loaded' = TRUE /\ UNCHANGED file

\* The change is in memory whether or not its write succeeds.
persist(s, ok) ==
    /\ mem' = s
    /\ loaded' = TRUE
    /\ file' = IF ok THEN s ELSE file

Fault(happens) ==
    /\ happens => faults < MaxFaults
    /\ faults' = IF happens THEN faults + 1 ELSE faults

-----------------------------------------------------------------------------
(* execute                                                                   *)

\* The operation is over; one that throws ends the resume it belongs to.
Return(resumed) == op' = Idle /\ todo' = IF resumed THEN Tail(todo) ELSE todo

Throw(resumed) == op' = Idle /\ todo' = IF resumed THEN <<>> ELSE todo

Goto(r, s, resumed) == op' = [at |-> s, req |-> r, resumed |-> resumed]

Upstream(r, resumed) == Goto(r, IF Kind[r] = "post" THEN "lookup" ELSE "send", resumed)

\* A key names one write: another write under it is refused.
ExecuteRefused(r, resumed) ==
    /\ load[KeyOf[r]] # Absent /\ load[KeyOf[r]].req # r
    /\ Loaded
    /\ Throw(resumed)
    /\ UNCHANGED <<posts, labelled, receipts, faults>>

\* Mutant: an entry is as good as its publication.
answered_pending(s, r) == s[KeyOf[r]] # Absent /\ s[KeyOf[r]].req = r

answered(s, r) == KeyOf[r] \in Published(s) /\ s[KeyOf[r]].req = r

ExecuteAnswered(r, resumed) ==
    /\ answered(load, r)
    /\ Loaded
    /\ receipts' = receipts \cup {r}
    /\ Return(resumed)
    /\ UNCHANGED <<posts, labelled, faults>>

\* A new entry is in the file before anything is sent.
ExecuteQueued(r, resumed) ==
    LET entry == [req |-> r, state |-> "pending", at |-> Cardinality(Held(load)) + 1] IN
      /\ load[KeyOf[r]] = Absent
      /\ \E ok \in BOOLEAN :
           /\ Fault(~ok)
           /\ persist([load EXCEPT ![KeyOf[r]] = entry], ok)
           /\ IF ok THEN Upstream(r, resumed) /\ UNCHANGED todo ELSE Throw(resumed)
      /\ UNCHANGED <<posts, labelled, receipts>>

ExecutePending(r, resumed) ==
    /\ KeyOf[r] \in Pending(load) /\ load[KeyOf[r]].req = r /\ ~answered(load, r)
    /\ Loaded
    /\ Upstream(r, resumed)
    /\ UNCHANGED <<todo, posts, labelled, receipts, faults>>

Execute(r, resumed) ==
    \/ ExecuteRefused(r, resumed) \/ ExecuteAnswered(r, resumed)
    \/ ExecuteQueued(r, resumed) \/ ExecutePending(r, resumed)

publish(r) == op = Idle /\ Execute(r, FALSE)

\* resume lists what is pending, in the order of the array, and executes one after
\* the other; callers' operations run in between.
ResumeList ==
    /\ op = Idle /\ todo = <<>> /\ Pending(load) # {}
    /\ LET s == load IN
         \E t \in [1 .. Cardinality(Pending(s)) -> Requests] :
           /\ {t[i] : i \in DOMAIN t} = {s[k].req : k \in Pending(s)}
           /\ \A i, j \in DOMAIN t : i < j => s[KeyOf[t[i]]].at < s[KeyOf[t[j]]].at
           /\ todo' = t
    /\ Loaded
    /\ UNCHANGED <<op, posts, labelled, receipts, faults>>

ResumeNext ==
    /\ op = Idle /\ todo # <<>>
    /\ Execute(Head(todo), TRUE)

-----------------------------------------------------------------------------
(* The requests to GitHub                                                    *)

\* A request takes effect and is answered, or it fails, having taken effect or not.
Answers == {a \in [done : BOOLEAN, ok : BOOLEAN] : a.ok => a.done}

\* A push of the same commit again, and the same labels again, change nothing.
Send ==
    LET r == op.req IN
      /\ op.at = "send"
      /\ \E a \in Answers :
           /\ Fault(~a.ok)
           /\ posts' = IF a.done /\ Kind[r] = "push" THEN [posts EXCEPT ![r] = 1] ELSE posts
           /\ labelled' = IF a.done /\ Kind[r] = "transition" THEN labelled \cup {r} ELSE labelled
           /\ IF ~a.ok THEN Throw(op.resumed)
              ELSE /\ Goto(r, IF Kind[r] = "push" THEN "record" ELSE "lookup", op.resumed)
                   /\ UNCHANGED todo
      /\ UNCHANGED <<file, mem, loaded, receipts>>

\* Mutant: the marker is not looked for.
findMarkedPublication_never(r) == FALSE

\* The marker names the key; only the page that is listed is searched.
findMarkedPublication(r) ==
    \E q \in Requests \ Hidden : KeyOf[q] = KeyOf[r] /\ posts[q] > 0

Lookup ==
    LET r == op.req IN
      /\ op.at = "lookup"
      /\ \E ok \in BOOLEAN :
           /\ Fault(~ok)
           /\ IF ~ok THEN Throw(op.resumed)
              ELSE /\ Goto(r, IF findMarkedPublication(r) THEN "record" ELSE "post", op.resumed)
                   /\ UNCHANGED todo
      /\ UNCHANGED <<file, mem, loaded, posts, labelled, receipts>>

Post ==
    LET r == op.req IN
      /\ op.at = "post"
      /\ \E a \in Answers :
           /\ Fault(~a.ok)
           /\ posts' = IF a.done THEN [posts EXCEPT ![r] = @ + 1] ELSE posts
           /\ IF ~a.ok THEN Throw(op.resumed)
              ELSE Goto(r, "record", op.resumed) /\ UNCHANGED todo
      /\ UNCHANGED <<file, mem, loaded, labelled, receipts>>

\* The entry is published; when its write fails the caller hears of that alone.
Publish ==
    LET r == op.req IN
      /\ op.at = "record"
      /\ \E ok \in BOOLEAN :
           /\ Fault(~ok)
           /\ persist(compactOutboxSnapshot([mem EXCEPT ![KeyOf[r]].state = "published"]), ok)
           /\ IF ok THEN Return(op.resumed) ELSE Throw(op.resumed)
           /\ receipts' = IF ok THEN receipts \cup {r} ELSE receipts
      /\ UNCHANGED <<posts, labelled>>

\* The daemon stops or dies, and a successor starts: only the file is left.
Restart ==
    /\ Fault(TRUE)
    /\ mem' = Empty
    /\ loaded' = FALSE
    /\ op' = Idle
    /\ todo' = <<>>
    /\ UNCHANGED <<file, posts, labelled, receipts>>

-----------------------------------------------------------------------------

OpStep == Send \/ Lookup \/ Post \/ Publish

Next ==
    \/ \E r \in Requests : publish(r)
    \/ ResumeList \/ ResumeNext
    \/ OpStep
    \/ Restart

Spec == Init /\ [][Next]_vars

-----------------------------------------------------------------------------
(* Properties                                                                *)

Listed == Requests \ Hidden

\* The outbox implements WriteOnce for the writes whose marker a lookup can list:
\* whatever fails, is retried, resumed, shed or lost with the daemon, a key takes
\* effect once, and a receipt is of a key that took effect (execute, the upstream).
Outbox ==
    INSTANCE WriteOnce WITH
      Requests <- Listed,
      KeyOf    <- [r \in Listed |-> KeyOf[r]],
      posts    <- [r \in Listed |-> posts[r]],
      receipts <- receipts \cap Listed

WrittenOnce == Outbox!Spec

\* A write in the file stays there until it is executed: it is not shed, not undone
\* by a daemon's replacement, and marked published only once GitHub has it
\* (compactOutboxSnapshot: "an unexecuted write is an obligation, not a memory").
ObligationsAreKept ==
    [][\A k \in Pending(file) :
         \/ k \in Pending(file') /\ file'[k].req = file[k].req
         \/ \E r \in Requests : KeyOf[r] = k /\ posts[r] > 0]_vars

\* A receipt of a transition means that its labels were changed, and that its comment
\* is there, although the two are requests of their own (applyIssueTransition).
TransitionsAreWhole ==
    \A r \in receipts : Kind[r] = "transition" => r \in labelled /\ posts[r] > 0
=============================================================================

----------------------------- MODULE MergeCustody -----------------------------
(***************************************************************************)
(* The Queue Custodian: the daemon's owner of "this pull request ends      *)
(* merged".  A landing hands a pull request over; the record is kept in a  *)
(* file, and a driver in memory observes the forge on a timer and arms its *)
(* native auto-merge whenever that intent is missing, unless the head is   *)
(* no longer the commit the landing validated.  The timers die with the    *)
(* daemon: a tender revives them from the file.                            *)
(* The custodian serializes its changes of the records, and each is the    *)
(* change in memory and the write of the file, so a change is one step,    *)
(* whose write succeeds or fails; the calls to the forge lie between.      *)
(***************************************************************************)
EXTENDS Naturals, FiniteSets

CONSTANTS
    PRs,        \* pull requests of one Project
    Tickets,    \* owners a handoff may name
    Commits,    \* heads a pull request may have
    Retention,  \* GITHUB_CUSTODY_TERMINAL_RETENTION
    MaxFaults,  \* bound: restarts, failed calls and failed writes
    MaxMoves    \* bound: heads moved and intents dropped on the forge

NoHead == "none"

ASSUME CustodyConstants ==
    /\ IsFiniteSet(PRs)
    /\ NoHead \notin Commits
    /\ Retention \in Nat
    /\ MaxFaults \in Nat
    /\ MaxMoves \in Nat

VARIABLES
    forge,   \* each pull request as GitHub has it
    file,    \* the snapshot on disk
    mem,     \* the daemon's snapshot
    loaded,  \* whether it was read from the file yet
    exec,    \* executions: whose authority the daemon holds
    timers,  \* pull requests with a timer set
    drive,   \* how far the driver's pass over each pull request is
    faults,  \* for the bound
    moves    \* for the bound

vars == <<forge, file, mem, loaded, exec, timers, drive, faults, moves>>

Heads == Commits \cup {NoHead}

\* A custody record.  `at` is its place in the snapshot's array and `next` its
\* next_action; observations of an open pull request are not told apart.
Record ==
    [owner : Tickets, head : Heads, state : {"active", "terminal"}, at : Nat,
     next : {"observe-forge", "await-forge", "retry-forge", "report-moved-head", "none"},
     outcome : {"none", "merged", "closed"}]

Absent == [state |-> "absent"]

Empty == [p \in PRs |-> Absent]

Snapshots == [PRs -> Record \cup {Absent}]

Steps == {"idle", "tick", "observe", "armLookup", "armPost", "armView", "settle", "catch"}

\* `armed` is the head of the record the tick read, `state` and `moved` what the
\* pass has observed so far.
Passes ==
    [at : Steps, armed : Heads, state : {"none", "open", "merged", "closed"}, moved : BOOLEAN]

Idle == [at |-> "idle", armed |-> NoHead, state |-> "none", moved |-> FALSE]

TypeOK ==
    /\ forge \in [PRs -> [state : {"open", "merged", "closed"}, head : Commits, intent : BOOLEAN]]
    /\ file \in Snapshots
    /\ mem \in Snapshots
    /\ loaded \in BOOLEAN
    /\ exec \subseteq PRs
    /\ timers \subseteq PRs
    /\ drive \in [PRs -> Passes]
    /\ faults \in 0 .. MaxFaults
    /\ moves \in 0 .. MaxMoves

Init ==
    /\ forge \in [PRs -> [state : {"open"}, head : Commits, intent : {FALSE}]]
    /\ file = Empty
    /\ mem = Empty
    /\ loaded = FALSE
    /\ exec = {}
    /\ timers = {}
    /\ drive = [p \in PRs |-> Idle]
    /\ faults = 0
    /\ moves = 0

-----------------------------------------------------------------------------
(* The snapshot                                                              *)

Held(s) == {p \in PRs : s[p] # Absent}

Active(s) == {p \in Held(s) : s[p].state = "active"}

Terminal(s) == Held(s) \ Active(s)

\* The array without the records that are not kept.
Filtered(s, kept) ==
    [p \in PRs |->
       IF p \in kept
         THEN [s[p] EXCEPT !.at = Cardinality({q \in kept : s[q].at <= s[p].at})]
         ELSE Absent]

\* Every active record is kept, and the newest of the terminal ones.
compactGithubCustodySnapshot(s) ==
    Filtered(s, Active(s) \cup {p \in Terminal(s) :
                   Cardinality({q \in Terminal(s) : s[q].at > s[p].at}) < Retention})

load == IF loaded THEN mem ELSE compactGithubCustodySnapshot(file)

Loaded == mem' = load /\ loaded' = TRUE /\ UNCHANGED file

\* The change is in memory whether or not its write succeeds.
persist(s, ok) ==
    /\ mem' = s
    /\ loaded' = TRUE
    /\ file' = IF ok THEN s ELSE file

\* updateRecord: a record that was shed meanwhile is not updated, nor anything written.
updateRecord(p, r, ok) ==
    IF mem[p] = Absent THEN ok /\ UNCHANGED <<file, mem, loaded>>
    ELSE persist([mem EXCEPT ![p] = r], ok)

Fault(happens) ==
    /\ happens => faults < MaxFaults
    /\ faults' = IF happens THEN faults + 1 ELSE faults

-----------------------------------------------------------------------------
(* Executions and timers                                                     *)

\* Mutant: the authority is registered, and the timers are left to the passes.
register_authorityOnly(s) ==
    /\ exec' = exec \cup Active(s)
    /\ UNCHANGED timers

\* Every active record of the Project gets an execution and a timer.
register(s) ==
    /\ exec' = exec \cup Active(s)
    /\ timers' = timers \cup Active(s)

\* A landing, or a client, hands a pull request over: a new record, the restated
\* head of the same owner's, or the record that is there.
Handoff(p, owner, head) ==
    LET s == load
        fresh == [owner |-> owner, head |-> head, state |-> "active",
                  at |-> Cardinality(Held(s)) + 1, next |-> "observe-forge", outcome |-> "none"]
        restated == s[p] # Absent /\ head # NoHead /\ head # s[p].head
        t == IF s[p] = Absent THEN compactGithubCustodySnapshot([s EXCEPT ![p] = fresh])
             ELSE IF restated THEN [s EXCEPT ![p].head = head] ELSE s
    IN
      /\ s[p] # Absent => s[p].owner = owner
      /\ \E ok \in BOOLEAN :
           /\ Fault(~ok)
           /\ ok \/ t # s
           /\ IF t # s THEN persist(t, ok) ELSE Loaded
           /\ LET served == Active(s) \cup (IF ok /\ t[p].state = "active" THEN {p} ELSE {}) IN
                /\ exec' = exec \cup served \cup (IF ok THEN {p} ELSE {})
                /\ timers' = timers \cup served
      /\ UNCHANGED <<forge, drive, moves>>

\* A record of another owner's refuses the handoff, once the others are registered.
HandoffRefused(p, owner) ==
    /\ load[p] # Absent /\ load[p].owner # owner
    /\ Loaded
    /\ register(load)
    /\ UNCHANGED <<forge, drive, faults, moves>>

\* A client asks for the custody status.
Status ==
    /\ Loaded
    /\ register(load)
    /\ UNCHANGED <<forge, drive, faults, moves>>

\* The tender, at boot and then on an interval, asks for the status of every
\* Project that has an active record in the file.
Tend ==
    /\ Active(file) # {}
    /\ Status

-----------------------------------------------------------------------------
(* A pass of the driver                                                      *)

Pass(p, s) == drive' = [drive EXCEPT ![p] = s]

\* A pass that is over leaves nothing behind.
Settled(p) == Pass(p, Idle)

TimerFires(p) ==
    /\ p \in timers
    /\ timers' = timers \ {p}
    /\ IF drive[p].at = "idle" /\ p \in exec
         THEN Pass(p, [Idle EXCEPT !.at = "tick"])
         ELSE UNCHANGED drive
    /\ UNCHANGED <<forge, file, mem, loaded, exec, faults, moves>>

\* A step of the pass that throws goes on in its catch.
Throws(p) == Pass(p, [drive[p] EXCEPT !.at = "catch"])

Tick(p) ==
    LET r == mem[p]
        ticking == IF r.state = "active" THEN [r EXCEPT !.next = "observe-forge"] ELSE r
    IN
      /\ drive[p].at = "tick"
      /\ \E ok \in BOOLEAN :
           /\ Fault(~ok)
           /\ updateRecord(p, ticking, ok)
           /\ IF ~ok THEN Throws(p)
              ELSE IF ticking.state = "active"
                     THEN Pass(p, [drive[p] EXCEPT !.at = "observe", !.armed = ticking.head])
                     ELSE Settled(p)
      /\ UNCHANGED <<forge, exec, timers, moves>>

\* #4130: an open pull request whose head is not the one the landing validated.
movedHead(p) ==
    /\ forge[p].state = "open"
    /\ drive[p].armed # NoHead
    /\ forge[p].head # drive[p].armed

Observe(p) ==
    /\ drive[p].at = "observe"
    /\ \E ok \in BOOLEAN :
         /\ Fault(~ok)
         /\ IF ~ok THEN Throws(p)
            ELSE Pass(p, [drive[p] EXCEPT
                   !.at = IF forge[p].state = "open" /\ ~movedHead(p) /\ ~forge[p].intent
                            THEN "armLookup" ELSE "settle",
                   !.state = forge[p].state,
                   !.moved = movedHead(p)])
    /\ UNCHANGED <<forge, file, mem, loaded, exec, timers, moves>>

\* arm: a pull request that was merged meanwhile needs no intent.
ArmLookup(p) ==
    /\ drive[p].at = "armLookup"
    /\ \E ok \in BOOLEAN :
         /\ Fault(~ok)
         /\ IF ~ok THEN Throws(p)
            ELSE IF forge[p].state = "merged"
                   THEN Pass(p, [drive[p] EXCEPT !.at = "settle", !.state = "merged"])
                   ELSE Pass(p, [drive[p] EXCEPT !.at = "armPost"])
    /\ UNCHANGED <<forge, file, mem, loaded, exec, timers, moves>>

\* The mutation takes effect, or is refused, or takes effect and its answer is lost.
\* The forge refuses it for a pull request that is not open.
ArmPost(p) ==
    /\ drive[p].at = "armPost"
    /\ \E done, ok \in BOOLEAN :
         /\ ok => done
         /\ done => forge[p].state = "open"
         /\ Fault(~ok /\ forge[p].state = "open")
         /\ forge' = [forge EXCEPT ![p].intent = @ \/ done]
         /\ IF ok THEN Pass(p, [drive[p] EXCEPT !.at = "armView"]) ELSE Throws(p)
    /\ UNCHANGED <<file, mem, loaded, exec, timers, moves>>

ArmView(p) ==
    /\ drive[p].at = "armView"
    /\ \E ok \in BOOLEAN :
         /\ Fault(~ok)
         /\ IF ~ok THEN Throws(p)
            ELSE Pass(p, [drive[p] EXCEPT !.at = "settle", !.state = forge[p].state])
    /\ UNCHANGED <<forge, file, mem, loaded, exec, timers, moves>>

\* Mutant: only a merge ends the custody.
ends_merged(state) == state = "merged"

ends(state) == state \in {"merged", "closed"}

\* Mutant: whatever was observed is the outcome.
terminal_outcome_asSeen(state) == state

\* Mutant: what ended was merged.
terminal_outcome_merged(state) == IF ends(state) THEN "merged" ELSE "none"

terminal_outcome(state) == IF ends(state) THEN state ELSE "none"

\* What the pass saw is recorded; an open pull request is seen again.
Settle(p) ==
    LET d == drive[p]
        terminal == ends(d.state)
        r == [mem[p] EXCEPT
                !.state = IF terminal THEN "terminal" ELSE "active",
                !.next = IF terminal THEN "none"
                         ELSE IF d.moved THEN "report-moved-head" ELSE "await-forge",
                !.outcome = terminal_outcome(d.state)]
    IN
      /\ d.at = "settle"
      /\ \E ok \in BOOLEAN :
           /\ Fault(~ok)
           /\ updateRecord(p, r, ok)
           /\ IF ok THEN Settled(p) ELSE Throws(p)
           /\ timers' = IF ok /\ ~terminal THEN timers \cup {p} ELSE timers
      /\ UNCHANGED <<forge, exec, moves>>

\* A record that is terminal by now stays so; a write that fails again is ignored.
Catch(p) ==
    /\ drive[p].at = "catch"
    /\ \E ok \in BOOLEAN :
         /\ Fault(~ok)
         /\ updateRecord(p, IF mem[p].state = "active"
                              THEN [mem[p] EXCEPT !.next = "retry-forge"] ELSE mem[p], ok)
    /\ timers' = timers \cup {p}
    /\ Settled(p)
    /\ UNCHANGED <<forge, exec, moves>>

-----------------------------------------------------------------------------
(* The daemon and the forge                                                  *)

\* The daemon stops or dies, and a successor starts: only the file is left.  (A stop
\* does not await the passes; that one still writes while the successor reads is left
\* out.)
Restart ==
    /\ Fault(TRUE)
    /\ mem' = Empty
    /\ loaded' = FALSE
    /\ exec' = {}
    /\ timers' = {}
    /\ drive' = [p \in PRs |-> Idle]
    /\ UNCHANGED <<forge, file, moves>>

\* Somebody pushes to the branch, or the forge drops the intent (an ejection).
ForgeMoves(p) ==
    /\ forge[p].state = "open" /\ moves < MaxMoves
    /\ moves' = moves + 1
    /\ \/ \E c \in Commits \ {forge[p].head} : forge' = [forge EXCEPT ![p].head = c]
       \/ forge[p].intent /\ forge' = [forge EXCEPT ![p].intent = FALSE]
    /\ UNCHANGED <<file, mem, loaded, exec, timers, drive, faults>>

\* The forge merges what is armed; a human merges or closes.
ForgeEnds(p) ==
    /\ forge[p].state = "open"
    /\ \E s \in {"merged", "closed"} :
         forge' = [forge EXCEPT ![p].state = s, ![p].intent = FALSE]
    /\ UNCHANGED <<file, mem, loaded, exec, timers, drive, faults, moves>>

-----------------------------------------------------------------------------

PassStep(p) ==
    \/ Tick(p) \/ Observe(p)
    \/ ArmLookup(p) \/ ArmPost(p) \/ ArmView(p)
    \/ Settle(p) \/ Catch(p)

Next ==
    \/ \E p \in PRs :
         \/ \E owner \in Tickets :
              HandoffRefused(p, owner) \/ \E head \in Heads : Handoff(p, owner, head)
         \/ TimerFires(p) \/ PassStep(p)
         \/ ForgeMoves(p) \/ ForgeEnds(p)
    \/ Status \/ Tend \/ Restart

\* Timers fire, calls to the forge end one way or the other, and the tender runs on
\* its interval.  Nothing is promised of handoffs, clients or the forge.
Fairness ==
    /\ WF_vars(Tend)
    /\ \A p \in PRs : WF_vars(TimerFires(p)) /\ WF_vars(PassStep(p))

Spec == Init /\ [][Next]_vars /\ Fairness

-----------------------------------------------------------------------------
(* Properties                                                                *)

\* A promise in the file stays there, and its owner's, until its pull request has
\* ended, whatever is restated, shed or not written, and whenever the daemon is
\* replaced; and an end that is recorded is the one the forge has
\* (compactGithubCustodySnapshot: "Active records are never compacted").
ObligationsAreKept ==
    [][\A p \in Active(file) :
         \/ p \in Active(file') /\ file'[p].owner = file[p].owner
         \/ /\ forge[p].state # "open"
            /\ p \in Terminal(file') => file'[p].outcome = forge[p].state]_vars

\* A pull request in custody that has lost its intent, or never had it, is armed
\* again, or its moved head is reported, or it has ended, whatever fails or restarts
\* on the way ("watches for the intent vanishing").
IntentIsRestored ==
    \A p \in PRs :
       (p \in Active(file) /\ forge[p].state = "open" /\ ~forge[p].intent)
         ~> \/ forge[p].intent \/ forge[p].state # "open"
            \/ p \in Active(file) /\ file[p].next = "report-moved-head"

\* A pull request that has ended is in the end recorded so, although the record is
\* only in a file when a daemon is replaced (register, tendGithubCustody).
EndIsRecorded ==
    \A p \in PRs :
       (p \in Active(file) /\ forge[p].state # "open") ~> p \notin Active(file)
=============================================================================

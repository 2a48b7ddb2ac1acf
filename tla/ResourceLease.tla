---------------------------- MODULE ResourceLease ----------------------------
(***************************************************************************)
(* Host resource admission of the redskilled daemon (resource-lease.ts,    *)
(* resource-lease-store.ts, daemon/resource-lease-runtime.ts) and the      *)
(* client that runs heavy validation under a lease                         *)
(* (heavy-validation-lease.ts).                                            *)
(*                                                                         *)
(* A request is one call of acquire and what follows from it; it names one *)
(* resource and one holder.  A table of leases gives each request the time *)
(* its lease has left: 0 for a lease that has expired and is still in the  *)
(* table, NoLease for none.  The in-memory map, the snapshot waiting to be *)
(* written, the one being written and the file are four such tables.       *)
(***************************************************************************)
EXTENDS Integers

CONSTANTS
    Requests,
    Resource,    \* the resource each request names
    TTL,         \* ttl_ms, in ticks
    WaitTimeout, \* wait_timeout_ms, in ticks
    MaxFaults    \* bound: crashes, failed writes and reads, deaths, lost releases,
                 \* living Workers given up

ASSUME LeaseConstants ==
    /\ TTL \in Nat \ {0}
    /\ WaitTimeout \in Nat
    /\ MaxFaults \in Nat

VARIABLES
    leases,    \* the daemon's map
    pending,   \* the store: the snapshot to write next, if any
    writing,   \* the store: the snapshot being written, if any
    file,
    phase,     \* of each request
    conflict,  \* what acquire saw before it sampled the memory
    waitLeft,  \* time to the deadline
    offer,     \* time left on the lease of the response being prepared
    told,      \* time left on the lease as the client knows it
    renewal,   \* of each request
    alive,     \* the client's process
    up,        \* the daemon
    intact,    \* history: no write failed and no read of the file failed
    givenUp,   \* history: the requests whose lease a daemon took, giving their
               \* Worker up, while the client lived
    faults

storeVars == <<pending, writing, file>>
clientVars == <<told, alive>>
acquireVars == <<phase, conflict, waitLeft>>
hostVars == <<up, intact, givenUp, faults>>
vars == <<leases, storeVars, acquireVars, offer, renewal, clientVars, hostVars>>

NoLease == -1

Table == [Requests -> NoLease .. TTL]

Empty == [r \in Requests |-> NoLease]

Held(table) == {r \in Requests : table[r] # NoLease}

Phases == {"idle", "start", "pruning", "pruned", "sampled", "waiting", "persisting",
           "granted", "timedOut", "failed", "done"}

TypeOK ==
    /\ leases \in Table
    /\ pending \in SUBSET Table
    /\ writing \in SUBSET Table
    /\ file \in Table
    /\ phase \in [Requests -> Phases]
    /\ conflict \in [Requests -> BOOLEAN]
    /\ waitLeft \in [Requests -> 0 .. WaitTimeout]
    /\ offer \in [Requests -> 0 .. TTL]
    /\ told \in [Requests -> 0 .. TTL]
    /\ renewal \in [Requests -> {"none", "pruning", "pruned", "persisting"}]
    /\ alive \in [Requests -> BOOLEAN]
    /\ up \in BOOLEAN
    /\ intact \in BOOLEAN
    /\ givenUp \subseteq Requests
    /\ faults \in 0 .. MaxFaults

Init ==
    /\ leases = Empty
    /\ pending = {}
    /\ writing = {}
    /\ file = Empty
    /\ phase = [r \in Requests |-> "idle"]
    /\ conflict = [r \in Requests |-> FALSE]
    /\ waitLeft = [r \in Requests |-> WaitTimeout]
    /\ offer = [r \in Requests |-> 0]
    /\ told = [r \in Requests |-> 0]
    /\ renewal = [r \in Requests |-> "none"]
    /\ alive = [r \in Requests |-> TRUE]
    /\ up = TRUE
    /\ intact = TRUE
    /\ givenUp = {}
    /\ faults = 0

Fault == faults < MaxFaults /\ faults' = faults + 1

-----------------------------------------------------------------------------
(* The daemon.                                                              *)

\* The map becomes table, and a snapshot of it is scheduled.
Change(table) ==
    /\ leases' = table
    /\ pending' = {table}
    /\ UNCHANGED <<writing, file>>

\* Mutant: a lease is dropped one tick before it expires.
Unexpired_early(table) == [r \in Requests |-> IF table[r] \in {0, 1} THEN NoLease ELSE table[r]]

Unexpired(table) == [r \in Requests |-> IF table[r] = 0 THEN NoLease ELSE table[r]]

\* pruneExpired drops the expired leases; it awaits the write if there were any.
pruneExpired(next, unchanged, changed) ==
    IF Unexpired(leases) # leases
      THEN Change(Unexpired(leases)) /\ next = changed
      ELSE UNCHANGED <<leases, storeVars>> /\ next = unchanged

\* The client sends the request.
Request(r) ==
    /\ up
    /\ alive[r]
    /\ phase[r] = "idle"
    /\ phase' = [phase EXCEPT ![r] = "start"]
    /\ UNCHANGED <<leases, storeVars, conflict, waitLeft, offer, renewal, clientVars, hostVars>>

AcquirePrune(r) ==
    /\ phase[r] = "start"
    /\ \E next \in {"pruned", "pruning"} :
         /\ pruneExpired(next, "pruned", "pruning")
         /\ phase' = [phase EXCEPT ![r] = next]
    /\ UNCHANGED <<conflict, waitLeft, offer, renewal, clientVars, hostVars>>

Conflicting(r) == \E s \in Held(leases) : Resource[s] = Resource[r]

\* acquire looks for a conflicting lease, then awaits the memory sample.
AcquireSample(r) ==
    /\ phase[r] = "pruned"
    /\ conflict' = [conflict EXCEPT ![r] = Conflicting(r)]
    /\ phase' = [phase EXCEPT ![r] = "sampled"]
    /\ UNCHANGED <<leases, storeVars, waitLeft, offer, renewal, clientVars, hostVars>>

\* Mutant: the map is not looked at again after the sample.
stillFree_trusted(r) == TRUE

stillFree(r) == ~Conflicting(r)

\* The resource was and is free, and the sample showed enough memory.
AcquireInsert(r) ==
    /\ phase[r] = "sampled"
    /\ ~conflict[r]
    /\ stillFree(r)
    /\ Change([leases EXCEPT ![r] = TTL])
    /\ offer' = [offer EXCEPT ![r] = TTL]
    /\ phase' = [phase EXCEPT ![r] = "persisting"]
    /\ UNCHANGED <<conflict, waitLeft, renewal, clientVars, hostVars>>

\* Mutant: the deadline is not looked at.
AcquireWait_forever(r) ==
    /\ phase[r] = "sampled"
    /\ phase' = [phase EXCEPT ![r] = "waiting"]
    /\ UNCHANGED <<leases, storeVars, conflict, waitLeft, offer, renewal, clientVars, hostVars>>

\* There is a conflict, or too little memory: wait, unless the deadline passed.
AcquireWait(r) ==
    /\ phase[r] = "sampled"
    /\ phase' = [phase EXCEPT ![r] = IF waitLeft[r] = 0 THEN "timedOut" ELSE "waiting"]
    /\ UNCHANGED <<leases, storeVars, conflict, waitLeft, offer, renewal, clientVars, hostVars>>

\* The timer of waitForChange: the next expiry, the safety poll or the deadline.
WaitTimer(r) ==
    /\ phase[r] = "waiting"
    /\ phase' = [phase EXCEPT ![r] = "start"]
    /\ UNCHANGED <<leases, storeVars, conflict, waitLeft, offer, renewal, clientVars, hostVars>>

\* The client's renewal timer.
RenewPrune(r) ==
    /\ up
    /\ alive[r] /\ phase[r] = "granted" /\ renewal[r] = "none"
    /\ \E next \in {"pruned", "pruning"} :
         /\ pruneExpired(next, "pruned", "pruning")
         /\ renewal' = [renewal EXCEPT ![r] = next]
    /\ UNCHANGED <<acquireVars, offer, clientVars, hostVars>>

\* renew extends the lease if the map still has it; a null answer is ignored.
RenewSet(r) ==
    /\ renewal[r] = "pruned"
    /\ IF leases[r] = NoLease
         THEN /\ renewal' = [renewal EXCEPT ![r] = "none"]
              /\ UNCHANGED <<leases, storeVars, offer>>
         ELSE /\ Change([leases EXCEPT ![r] = TTL])
              /\ offer' = [offer EXCEPT ![r] = TTL]
              /\ renewal' = [renewal EXCEPT ![r] = "persisting"]
    /\ UNCHANGED <<acquireVars, clientVars, hostVars>>

\* The validation is over: its renewal was awaited, and the lease is released.
Release(r) ==
    /\ alive[r] /\ phase[r] = "granted" /\ renewal[r] = "none"
    /\ up
    /\ IF leases[r] = NoLease
         THEN UNCHANGED <<leases, storeVars>>
         ELSE Change([leases EXCEPT ![r] = NoLease])
    /\ phase' = [phase EXCEPT ![r] = "done"]
    /\ UNCHANGED <<conflict, waitLeft, offer, renewal, clientVars, hostVars>>

\* The release does not get through, which the client ignores.
ReleaseFails(r) ==
    /\ alive[r] /\ phase[r] = "granted" /\ renewal[r] = "none"
    /\ Fault
    /\ phase' = [phase EXCEPT ![r] = "done"]
    /\ UNCHANGED <<leases, storeVars, conflict, waitLeft, offer, renewal, clientVars, up, intact, givenUp>>

\* The client's process dies; an acquire under way goes on for it.
ClientDies(r) ==
    /\ alive[r] /\ phase[r] \notin {"idle", "done"}
    /\ Fault
    /\ alive' = [alive EXCEPT ![r] = FALSE]
    /\ told' = [told EXCEPT ![r] = 0]
    /\ UNCHANGED <<leases, storeVars, acquireVars, offer, renewal, up, intact, givenUp>>

\* The daemon takes the leases of these holders, living ones among them.
GivesUp(holders) ==
    LET living == {r \in holders : alive[r]}
    IN  /\ givenUp' = givenUp \cup living
        /\ IF living = {} THEN UNCHANGED faults ELSE Fault

\* forgetWorker: the daemon gives a Worker up and releases what it holds.  The
\* Worker died; or a stop was not confirmed or a probe failed, and it lives.
ReleaseHolder(r) ==
    /\ up
    /\ leases[r] # NoLease
    /\ Change([leases EXCEPT ![r] = NoLease])
    /\ GivesUp({r})
    /\ UNCHANGED <<acquireVars, offer, renewal, clientVars, up, intact>>

-----------------------------------------------------------------------------
(* The store.                                                               *)

WriteBegin ==
    /\ up
    /\ pending # {} /\ writing = {}
    /\ writing' = pending
    /\ pending' = {}
    /\ UNCHANGED <<leases, file, acquireVars, offer, renewal, clientVars, hostVars>>

\* The queue of writes is drained: whoever awaits one goes on.  An acquire or a
\* renewal that changed the map answers its client, and waiters are woken.
Settle ==
    IF pending = {}
      THEN /\ phase' = [r \in Requests |->
                          IF phase[r] = "pruning" THEN "pruned"
                          ELSE IF phase[r] = "waiting" THEN "start"
                          ELSE IF phase[r] # "persisting" THEN phase[r]
                          ELSE IF alive[r] THEN "granted" ELSE "done"]
           /\ renewal' = [r \in Requests |->
                            IF renewal[r] = "pruning" THEN "pruned"
                            ELSE IF renewal[r] = "persisting" THEN "none" ELSE renewal[r]]
           /\ told' = [r \in Requests |->
                         IF alive[r] /\ "persisting" \in {phase[r], renewal[r]}
                           THEN offer[r] ELSE told[r]]
      ELSE UNCHANGED <<phase, renewal, told>>

\* The rename.
WriteEnd ==
    /\ writing # {}
    /\ file' \in writing
    /\ writing' = {}
    /\ Settle
    /\ UNCHANGED <<leases, pending, conflict, waitLeft, offer, alive, hostVars>>

\* A failed write is remembered and not repeated: its snapshot is lost, and
\* those who await it are answered all the same.
WriteFails ==
    /\ writing # {}
    /\ Fault
    /\ writing' = {}
    /\ intact' = FALSE
    /\ Settle
    /\ UNCHANGED <<leases, pending, file, conflict, waitLeft, offer, alive, up, givenUp>>

-----------------------------------------------------------------------------
(* The daemon's life and time.                                              *)

\* The daemon stops: requests in progress get no answer.
DaemonStops ==
    /\ up
    /\ Fault
    /\ up' = FALSE
    /\ leases' = Empty
    /\ pending' = {}
    /\ writing' = {}
    /\ phase' = [r \in Requests |->
                   IF phase[r] \in {"idle", "granted", "timedOut", "failed", "done"}
                     THEN phase[r] ELSE "failed"]
    /\ renewal' = [r \in Requests |-> "none"]
    /\ UNCHANGED <<file, conflict, waitLeft, offer, clientVars, intact, givenUp>>

\* Mutant: the successor starts with no leases.
Restored_nothing(reattached) == Empty

\* The leases in the file, less those of Workers the successor has not reattached.
Restored(reattached) == [r \in Requests |-> IF r \in reattached THEN file[r] ELSE NoLease]

\* A successor restores the leases and releases the orphaned ones.  Its probes
\* decide which Workers it reattaches; one that fails may be of a living Worker.
DaemonStarts ==
    /\ ~up
    /\ up' = TRUE
    /\ \E reattached \in SUBSET Requests :
         /\ leases' = Restored(reattached)
         /\ GivesUp(Held(file) \ reattached)
    /\ pending' = IF leases' = file THEN {} ELSE {leases'}
    /\ UNCHANGED <<writing, file, acquireVars, offer, renewal, clientVars, intact>>

\* The file cannot be read: the successor starts with none.
DaemonStartsBlank ==
    /\ ~up
    /\ Fault
    /\ up' = TRUE
    /\ intact' = FALSE
    /\ UNCHANGED <<leases, storeVars, acquireVars, offer, renewal, clientVars, givenUp>>

Less(n) == IF n > 0 THEN n - 1 ELSE n

Aged(table) == [r \in Requests |-> Less(table[r])]

Tick ==
    /\ leases' = Aged(leases)
    /\ pending' = {Aged(t) : t \in pending}
    /\ writing' = {Aged(t) : t \in writing}
    /\ file' = Aged(file)
    /\ offer' = Aged(offer)
    /\ told' = Aged(told)
    /\ waitLeft' = [r \in Requests |-> IF phase[r] = "idle" THEN waitLeft[r] ELSE Less(waitLeft[r])]
    /\ UNCHANGED <<phase, conflict, renewal, alive, hostVars>>

AcquireStep(r) ==
    \/ AcquirePrune(r)
    \/ AcquireSample(r)
    \/ AcquireInsert(r)
    \/ AcquireWait(r)
    \/ WaitTimer(r)

RenewStep(r) == RenewPrune(r) \/ RenewSet(r)

StoreStep == WriteBegin \/ WriteEnd

Next ==
    \/ \E r \in Requests :
         \/ Request(r)
         \/ AcquireStep(r)
         \/ RenewStep(r)
         \/ Release(r)
         \/ ReleaseFails(r)
         \/ ClientDies(r)
         \/ ReleaseHolder(r)
    \/ StoreStep
    \/ WriteFails
    \/ DaemonStops
    \/ DaemonStarts
    \/ DaemonStartsBlank
    \/ Tick

\* The event loop serves every acquire, the store writes, time passes, and a
\* stopped daemon is replaced.
Fairness ==
    /\ \A r \in Requests : WF_vars(AcquireStep(r))
    /\ WF_vars(StoreStep)
    /\ WF_vars(DaemonStarts)
    /\ WF_vars(Tick)

Spec == Init /\ [][Next]_vars /\ Fairness

-----------------------------------------------------------------------------
(* Properties.                                                              *)

Exclusive(table) ==
    \A r, s \in Held(table) : Resource[r] = Resource[s] => r = s

\* The daemon never has two leases of one resource, however many acquires are
\* between their checks, and across its replacements (acquire's re-check after
\* the memory sample, the restored snapshot).
OneLeasePerResource == Exclusive(leases)

\* Two clients never both believe in an unexpired lease of one resource, though
\* daemons are replaced between the two grants: a grant or a renewal is answered
\* only once it is in the file.  Excepted are a store that failed, which the
\* daemon ignores, and a client whose Worker was given up while it lived: it is
\* told nothing, and validates on beside the next holder.
OneBeliever ==
    intact =>
      \A r, s \in Requests \ givenUp :
         told[r] > 0 /\ told[s] > 0 /\ phase[r] = "granted" /\ phase[s] = "granted"
           /\ Resource[r] = Resource[s] => r = s

\* A lease that has time left and a living client leaves the map only by the
\* client's own release, because the daemon stops, or because a daemon gave its
\* Worker up: no pruning, other request, renewal or restored snapshot takes it.
NotEvicted ==
    [][\A r \in Requests :
         leases[r] > 0 /\ leases'[r] = NoLease /\ alive[r] =>
            phase'[r] = "done" \/ ~up' \/ r \in givenUp']_vars

\* Every acquire is answered: with a lease, with a timeout or by a lost daemon.
AcquireIsAnswered ==
    \A r \in Requests :
       phase[r] = "start" ~> phase[r] \in {"granted", "timedOut", "failed", "done"}
=============================================================================

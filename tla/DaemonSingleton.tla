--------------------------- MODULE DaemonSingleton ---------------------------
(***************************************************************************)
(* One redskilled daemon per machine.  A daemon that starts passes three   *)
(* arbiters in turn: the machine claim, a file every session of the        *)
(* machine looks at; the session lease, a file of its own runtime          *)
(* directory; and the exclusive bind of the socket.  A crash leaves all    *)
(* three behind, and the next start removes what it takes for debris.      *)
(* Every step below is one awaited file or socket operation: between two   *)
(* of them any other process may move.                                     *)
(***************************************************************************)
EXTENDS Naturals

CONSTANTS
    Procs,        \* daemon processes; a process is a pid and a start time
    Sock,         \* the socket each resolves to; each socket is of one OS user
    ClaimRounds,  \* MAX_CLAIM_ROUNDS
    ClearProbes,  \* a probe of a socket nobody listens to always says so
    MaxStops,     \* bound
    MaxCrashes    \* bound

Nobody == "nobody"

ASSUME SingletonConstants ==
    /\ Nobody \notin Procs
    /\ ClaimRounds \in Nat \ {0}
    /\ ClearProbes \in BOOLEAN
    /\ MaxStops \in Nat
    /\ MaxCrashes \in Nat

Sockets == {Sock[p] : p \in Procs}

VARIABLES
    claim,     \* the machine claim file
    lease,     \* the lease file of each runtime directory
    sock,      \* whose socket the path names
    pc,        \* where each process is
    why,       \* what a process gives its records up for
    seen,      \* the record a process read last
    tries,     \* rounds of claim, then attempts of bindExclusive
    renewing,  \* processes between the read and the rename of a renewal
    reused,    \* dead processes whose pid an unrelated process has
    faults     \* stops and crashes so far, for the bounds

vars == <<claim, lease, sock, pc, why, seen, tries, renewing, reused, faults>>

\* `written` is FALSE between the creation of a file and its contents; `aged` is
\* TRUE once two renewal periods passed since the last renewal.
Absent == [by |-> Nobody, written |-> FALSE, aged |-> FALSE]

Records == [by : Procs, written : BOOLEAN, aged : BOOLEAN] \cup {Absent}

Starting == {"check", "probe",
             "claim", "claimWrite", "claimRead", "claimPid", "claimReap",
             "lease", "leaseWrite", "leaseRead", "leasePid", "leaseReap",
             "bind", "bindProbe", "bindOwner", "bindReap"}

Releasing == {"relLease", "rmLease", "relClaim", "rmClaim"}

Alive == Starting \cup Releasing \cup {"serve", "stuck", "close", "unlink", "exit"}

States == Alive \cup {"off", "gone", "dead"}

TypeOK ==
    /\ claim \in Records
    /\ lease \in [Sockets -> Records]
    /\ sock \in [Sockets -> Procs \cup {Nobody}]
    /\ pc \in [Procs -> States]
    /\ why \in [Procs -> {"none", "rescue", "undo", "stop"}]
    /\ seen \in [Procs -> Records]
    /\ tries \in [Procs -> Nat]
    /\ renewing \subseteq Procs
    /\ reused \subseteq Procs
    /\ faults \in [stops : 0 .. MaxStops, crashes : 0 .. MaxCrashes]

Init ==
    /\ claim = Absent
    /\ lease = [s \in Sockets |-> Absent]
    /\ sock = [s \in Sockets |-> Nobody]
    /\ pc = [p \in Procs |-> "off"]
    /\ why = [p \in Procs |-> "none"]
    /\ seen = [p \in Procs |-> Absent]
    /\ tries = [p \in Procs |-> 0]
    /\ renewing = {}
    /\ reused = {}
    /\ faults = [stops |-> 0, crashes |-> 0]

Goto(p, s) == pc' = [pc EXCEPT ![p] = s]

isPidAlive(q) == pc[q] \in Alive \/ q \in reused

\* Another daemon's record whose pid is alive.
heldByOther(file, p) == file.written /\ file.by # p /\ isPidAlive(file.by)

Created(p) == [by |-> p, written |-> FALSE, aged |-> FALSE]

\* The contents reach the file their writer created, which may be gone by now.
Written(file, p) == IF file.by = p THEN [file EXCEPT !.written = TRUE] ELSE file

\* A process listens from its bind until its server closes.
Listening(p) ==
    \/ pc[p] \in {"serve", "stuck", "close"}
    \/ pc[p] \in Releasing /\ why[p] = "stop"

owned(s) == sock[s] # Nobody /\ Listening(sock[s])

\* Mutant: an answer that comes too late reads as no owner.
probeSocketOwnership_timeoutIsAbsence(s) == {"unowned"}

\* A connect that succeeds proves an owner; one that is refused, that there is none.
\* A timeout or another error proves neither, and counts as owned.
probeSocketOwnership(s) ==
    IF owned(s) THEN {"owned"} ELSE {"unowned"} \cup (IF ClearProbes THEN {} ELSE {"unknown"})

\* The claim lies in a sticky directory: another user's file cannot be removed.
mayReap(p) == claim = Absent \/ Sock[claim.by] = Sock[p]

-----------------------------------------------------------------------------
(* Start: the check for an owner that lost its socket                        *)

Start(p) ==
    /\ pc[p] = "off"
    /\ Goto(p, "check")
    /\ UNCHANGED <<claim, lease, sock, why, seen, tries, renewing, reused, faults>>

\* Both records name one owner on this socket, whose lease missed two renewals.
looksSocketless(p) ==
    LET held == lease[Sock[p]] IN
      /\ held.written /\ held.aged
      /\ claim.written
      /\ held.by = claim.by

CheckSocketless(p) ==
    /\ pc[p] = "check"
    /\ IF looksSocketless(p)
         THEN /\ seen' = [seen EXCEPT ![p] = lease[Sock[p]]]
              /\ Goto(p, "probe")
         ELSE /\ Goto(p, "claim")
              /\ UNCHANGED seen
    /\ UNCHANGED <<claim, lease, sock, why, tries, renewing, reused, faults>>

\* The kernel says whether anything listens; an unclear answer changes nothing.
ProbeSocketless(p) ==
    /\ pc[p] = "probe"
    /\ \E answer \in probeSocketOwnership(Sock[p]) :
         IF answer = "unowned"
           THEN /\ why' = [why EXCEPT ![p] = "rescue"]
                /\ Goto(p, "relLease")
                /\ UNCHANGED seen
           ELSE /\ Goto(p, "claim")
                /\ seen' = [seen EXCEPT ![p] = Absent]
                /\ UNCHANGED why
    /\ UNCHANGED <<claim, lease, sock, tries, renewing, reused, faults>>

-----------------------------------------------------------------------------
(* The machine claim                                                         *)

ClaimCreate(p) ==
    /\ pc[p] = "claim"
    /\ IF claim = Absent
         THEN claim' = Created(p) /\ Goto(p, "claimWrite")
         ELSE Goto(p, "claimRead") /\ UNCHANGED claim
    /\ UNCHANGED <<lease, sock, why, seen, tries, renewing, reused, faults>>

ClaimWrite(p) ==
    /\ pc[p] = "claimWrite"
    /\ claim' = Written(claim, p)
    /\ tries' = [tries EXCEPT ![p] = 0]
    /\ Goto(p, "lease")
    /\ UNCHANGED <<lease, sock, why, seen, renewing, reused, faults>>

\* A missing record, and one that nobody can interpret, are reaped like a corpse.
ClaimRead(p) ==
    /\ pc[p] = "claimRead"
    /\ IF claim.written
         THEN /\ seen' = [seen EXCEPT ![p] = claim]
              /\ Goto(p, "claimPid")
         ELSE /\ Goto(p, "claimReap")
              /\ UNCHANGED seen
    /\ UNCHANGED <<claim, lease, sock, why, tries, renewing, reused, faults>>

\* `held` refuses the start; the recorded owner is never this process, which
\* claims once.
ClaimPid(p) ==
    /\ pc[p] = "claimPid"
    /\ Goto(p, IF isPidAlive(seen[p].by) THEN "exit" ELSE "claimReap")
    /\ seen' = [seen EXCEPT ![p] = Absent]
    /\ UNCHANGED <<claim, lease, sock, why, tries, renewing, reused, faults>>

\* Whatever is there now is removed; a refusal to remove it refuses the start.
ClaimReap(p) ==
    /\ pc[p] = "claimReap"
    /\ IF mayReap(p)
         THEN /\ claim' = Absent
              /\ tries' = [tries EXCEPT ![p] = @ + 1]
              /\ Goto(p, IF tries[p] + 1 < ClaimRounds THEN "claim" ELSE "exit")
         ELSE /\ Goto(p, "exit")
              /\ UNCHANGED <<claim, tries>>
    /\ UNCHANGED <<lease, sock, why, seen, renewing, reused, faults>>

-----------------------------------------------------------------------------
(* The session lease                                                         *)

SetLease(p, r) == lease' = [lease EXCEPT ![Sock[p]] = r]

LeaseCreate(p) ==
    /\ pc[p] = "lease"
    /\ IF lease[Sock[p]] = Absent
         THEN SetLease(p, Created(p)) /\ Goto(p, "leaseWrite")
         ELSE Goto(p, "leaseRead") /\ UNCHANGED lease
    /\ UNCHANGED <<claim, sock, why, seen, tries, renewing, reused, faults>>

LeaseWrite(p) ==
    /\ pc[p] = "leaseWrite"
    /\ SetLease(p, Written(lease[Sock[p]], p))
    /\ Goto(p, "bind")
    /\ UNCHANGED <<claim, sock, why, seen, tries, renewing, reused, faults>>

\* Mutant: a record that nobody can interpret is waited for.
LeaseRead_waits(p) ==
    /\ pc[p] = "leaseRead"
    /\ IF lease[Sock[p]].written
         THEN /\ seen' = [seen EXCEPT ![p] = lease[Sock[p]]]
              /\ Goto(p, "leasePid")
         ELSE /\ Goto(p, "lease")
              /\ UNCHANGED seen
    /\ UNCHANGED <<claim, lease, sock, why, tries, renewing, reused, faults>>

LeaseRead(p) ==
    /\ pc[p] = "leaseRead"
    /\ IF lease[Sock[p]].written
         THEN /\ seen' = [seen EXCEPT ![p] = lease[Sock[p]]]
              /\ Goto(p, "leasePid")
         ELSE /\ Goto(p, "leaseReap")
              /\ UNCHANGED seen
    /\ UNCHANGED <<claim, lease, sock, why, tries, renewing, reused, faults>>

\* A start that another daemon's lease refuses gives its claim back.
LeasePid(p) ==
    /\ pc[p] = "leasePid"
    /\ seen' = [seen EXCEPT ![p] = Absent]
    /\ IF isPidAlive(seen[p].by)
         THEN why' = [why EXCEPT ![p] = "undo"] /\ Goto(p, "relClaim")
         ELSE Goto(p, "leaseReap") /\ UNCHANGED why
    /\ UNCHANGED <<claim, lease, sock, tries, renewing, reused, faults>>

LeaseReap(p) ==
    /\ pc[p] = "leaseReap"
    /\ SetLease(p, Absent)
    /\ Goto(p, "lease")
    /\ UNCHANGED <<claim, sock, why, seen, tries, renewing, reused, faults>>

-----------------------------------------------------------------------------
(* bindExclusive                                                             *)

Bind(p) ==
    /\ pc[p] = "bind"
    /\ IF sock[Sock[p]] = Nobody
         THEN /\ sock' = [sock EXCEPT ![Sock[p]] = p]
              /\ Goto(p, "serve")
         ELSE /\ Goto(p, "bindProbe")
              /\ UNCHANGED sock
    /\ UNCHANGED <<claim, lease, why, seen, tries, renewing, reused, faults>>

BindProbe(p) ==
    /\ pc[p] = "bindProbe"
    /\ \E answer \in probeSocketOwnership(Sock[p]) :
         IF answer = "unowned"
           THEN Goto(p, "bindOwner") /\ UNCHANGED why
           ELSE why' = [why EXCEPT ![p] = "undo"] /\ Goto(p, "relLease")
    /\ UNCHANGED <<claim, lease, sock, seen, tries, renewing, reused, faults>>

\* Mutant: the start's own records refuse it.
ownerRecorded_own(p) ==
    \/ lease[Sock[p]].written /\ isPidAlive(lease[Sock[p]].by)
    \/ claim.written /\ isPidAlive(claim.by) /\ Sock[claim.by] = Sock[p]

\* ownerRecorded: the records are consulted only to refuse.
ownerRecorded(p) ==
    \/ heldByOther(lease[Sock[p]], p)
    \/ heldByOther(claim, p) /\ Sock[claim.by] = Sock[p]

BindOwner(p) ==
    /\ pc[p] = "bindOwner"
    /\ IF ownerRecorded(p)
         THEN why' = [why EXCEPT ![p] = "undo"] /\ Goto(p, "relLease")
         ELSE Goto(p, "bindReap") /\ UNCHANGED why
    /\ UNCHANGED <<claim, lease, sock, seen, tries, renewing, reused, faults>>

\* The path is removed, whatever it is by now; the second time was the last.
BindReap(p) ==
    /\ pc[p] = "bindReap"
    /\ sock' = [sock EXCEPT ![Sock[p]] = Nobody]
    /\ tries' = [tries EXCEPT ![p] = @ + 1]
    /\ IF tries[p] = 0
         THEN Goto(p, "bind") /\ UNCHANGED why
         ELSE why' = [why EXCEPT ![p] = "undo"] /\ Goto(p, "relLease")
    /\ UNCHANGED <<claim, lease, seen, renewing, reused, faults>>

-----------------------------------------------------------------------------
(* Giving the records up: a stop, a start that failed, and the rescue of a    *)
(* socketless owner's, which releases in that owner's name.                   *)

releaser(p) == IF why[p] = "rescue" THEN seen[p].by ELSE p

\* Where the release of the lease goes on; a stop throws on another's lease.
AfterLease(p, mine) ==
    IF mine THEN "rmLease"
    ELSE IF why[p] = "rescue" THEN "claim"
         ELSE IF why[p] = "stop" /\ lease[Sock[p]].written THEN "stuck" ELSE "relClaim"

ReleaseLeaseRead(p) ==
    LET held == lease[Sock[p]] IN
      /\ pc[p] = "relLease"
      /\ Goto(p, AfterLease(p, held.written /\ held.by = releaser(p)))
      /\ UNCHANGED <<claim, lease, sock, why, seen, tries, renewing, reused, faults>>

ReleaseLeaseRemove(p) ==
    /\ pc[p] = "rmLease"
    /\ SetLease(p, Absent)
    /\ Goto(p, "relClaim")
    /\ UNCHANGED <<claim, sock, why, seen, tries, renewing, reused, faults>>

AfterClaim(p) ==
    IF why[p] = "rescue" THEN "claim" ELSE IF why[p] = "stop" THEN "close" ELSE "exit"

Released(p) ==
    /\ Goto(p, AfterClaim(p))
    /\ why' = [why EXCEPT ![p] = "none"]
    /\ seen' = [seen EXCEPT ![p] = Absent]

ReleaseClaimRead(p) ==
    /\ pc[p] = "relClaim"
    /\ IF claim.written /\ claim.by = releaser(p)
         THEN Goto(p, "rmClaim") /\ UNCHANGED <<why, seen>>
         ELSE Released(p)
    /\ UNCHANGED <<claim, lease, sock, tries, renewing, reused, faults>>

ReleaseClaimRemove(p) ==
    /\ pc[p] = "rmClaim"
    /\ claim' = IF mayReap(p) THEN Absent ELSE claim
    /\ Released(p)
    /\ UNCHANGED <<lease, sock, tries, renewing, reused, faults>>

-----------------------------------------------------------------------------
(* A serving daemon                                                          *)

\* A renewal that finds another's record, or none, fails and is ignored.
RenewRead(p) ==
    /\ pc[p] = "serve"
    /\ lease[Sock[p]].written /\ lease[Sock[p]].by = p
    /\ p \notin renewing
    /\ renewing' = renewing \cup {p}
    /\ UNCHANGED <<claim, lease, sock, pc, why, seen, tries, reused, faults>>

\* The rename replaces whatever is there; it may outlast the timer's end.
RenewReplace(p) ==
    /\ p \in renewing
    /\ SetLease(p, [by |-> p, written |-> TRUE, aged |-> FALSE])
    /\ renewing' = renewing \ {p}
    /\ UNCHANGED <<claim, sock, pc, why, seen, tries, reused, faults>>

Stop(p) ==
    /\ pc[p] = "serve"
    /\ faults.stops < MaxStops
    /\ faults' = [faults EXCEPT !.stops = @ + 1]
    /\ why' = [why EXCEPT ![p] = "stop"]
    /\ Goto(p, "relLease")
    /\ UNCHANGED <<claim, lease, sock, seen, tries, renewing, reused>>

\* Closing the server unlinks the path it was bound to.
CloseServer(p) ==
    /\ pc[p] = "close"
    /\ sock' = [sock EXCEPT ![Sock[p]] = Nobody]
    /\ Goto(p, "unlink")
    /\ UNCHANGED <<claim, lease, why, seen, tries, renewing, reused, faults>>

\* The path is removed once more when the last connection has closed.
Unlink(p) ==
    /\ pc[p] = "unlink"
    /\ sock' = [sock EXCEPT ![Sock[p]] = Nobody]
    /\ Goto(p, "exit")
    /\ UNCHANGED <<claim, lease, why, seen, tries, renewing, reused, faults>>

-----------------------------------------------------------------------------
(* The machine                                                               *)

Exit(p) ==
    /\ pc[p] = "exit"
    /\ Goto(p, "gone")
    /\ renewing' = renewing \ {p}
    /\ UNCHANGED <<claim, lease, sock, why, seen, tries, reused, faults>>

Crash(p) ==
    /\ pc[p] \in Alive
    /\ faults.crashes < MaxCrashes
    /\ faults' = [faults EXCEPT !.crashes = @ + 1]
    /\ Goto(p, "dead")
    /\ why' = [why EXCEPT ![p] = "none"]
    /\ seen' = [seen EXCEPT ![p] = Absent]
    /\ tries' = [tries EXCEPT ![p] = 0]
    /\ renewing' = renewing \ {p}
    /\ UNCHANGED <<claim, lease, sock, reused>>

\* The OS gives a dead daemon's pid to an unrelated process.
PidReused(p) ==
    /\ pc[p] = "dead" /\ p \notin reused
    /\ reused' = reused \cup {p}
    /\ UNCHANGED <<claim, lease, sock, pc, why, seen, tries, renewing, faults>>

\* Two renewal periods pass without a renewal: the owner is gone, or serves and fails
\* to renew, which it ignores.  Starts and stops take far less than that.
LeaseAges(s) ==
    /\ lease[s].written /\ ~lease[s].aged
    /\ \A p \in Procs : pc[p] \notin Starting \cup Releasing
    /\ lease' = [lease EXCEPT ![s].aged = TRUE]
    /\ UNCHANGED <<claim, sock, pc, why, seen, tries, renewing, reused, faults>>

-----------------------------------------------------------------------------

StartStep(p) ==
    \/ CheckSocketless(p) \/ ProbeSocketless(p)
    \/ ClaimCreate(p) \/ ClaimWrite(p) \/ ClaimRead(p) \/ ClaimPid(p) \/ ClaimReap(p)
    \/ LeaseCreate(p) \/ LeaseWrite(p) \/ LeaseRead(p) \/ LeasePid(p) \/ LeaseReap(p)
    \/ Bind(p) \/ BindProbe(p) \/ BindOwner(p) \/ BindReap(p)

ReleaseStep(p) ==
    \/ ReleaseLeaseRead(p) \/ ReleaseLeaseRemove(p)
    \/ ReleaseClaimRead(p) \/ ReleaseClaimRemove(p)
    \/ CloseServer(p) \/ Unlink(p) \/ Exit(p)

Next ==
    \/ \E p \in Procs :
          \/ Start(p) \/ StartStep(p) \/ ReleaseStep(p)
          \/ RenewRead(p) \/ RenewReplace(p) \/ Stop(p)
          \/ Crash(p) \/ PidReused(p)
    \/ \E s \in Sockets : LeaseAges(s)

\* Starting and stopping are sequences of awaited operations that nothing blocks;
\* whether a daemon is started, stopped or renews is not promised.
Fairness == \A p \in Procs : WF_vars(StartStep(p) \/ ReleaseStep(p))

Spec == Init /\ [][Next]_vars /\ Fairness

-----------------------------------------------------------------------------
(* Properties.                                                               *)

\* At most one daemon serves on the machine, whichever OS user starts it: the promise
\* of machine-scope, which claims the machine by an exclusive creation.
OneDaemon == \A p, q \in Procs : pc[p] = "serve" /\ pc[q] = "serve" => p = q

\* Whoever gives records up in another's name takes them from a daemon that its socket
\* path does not lead to, nor will again: an owner whose renewals fail keeps its lease
\* and its claim for as long as its socket answers (the socketless check).
RescueSparesOwners ==
    \A p \in Procs : pc[p] \in Releasing /\ why[p] = "rescue" =>
       LET owner == seen[p].by IN ~(Listening(owner) /\ sock[Sock[owner]] = owner)

\* Every start comes to an end: the daemon serves, or it is refused and exits,
\* whoever else starts, stops or dies in between (the loops of acquire and claim).
StartIsDecided ==
    \A p \in Procs : pc[p] = "check" ~> pc[p] \notin Starting

Alone(p) == \A q \in Procs \ {p} : pc[q] \in {"gone", "dead"}

\* A crash keeps nobody out: the records and the socket it left name a dead pid, or
\* a pid that somebody else has by now but no socket answers for, and a daemon that
\* starts alone then serves (acquire, claim, bindExclusive, the socketless check).
DebrisIsCleared ==
    \A p \in Procs :
       /\ (pc[p] = "check" /\ Alone(p) /\ reused = {})
            ~> (pc[p] \in {"serve", "dead"} \/ reused # {})
       /\ (pc[p] = "check" /\ Alone(p) /\ looksSocketless(p))
            ~> pc[p] \in {"serve", "dead"}
=============================================================================

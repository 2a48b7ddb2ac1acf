------------------------ MODULE DaemonSingletonProofs ------------------------
(***************************************************************************)
(* Proofs about DaemonSingleton, for any number of daemons and sockets.    *)
(***************************************************************************)
EXTENDS DaemonSingleton, TLAPS

\* The missing record is a record.
LEMMA AbsentRecord == Absent \in Records
  BY DEF Records

\* A record may name any daemon, with contents or without.
LEMMA RecordOf ==
    \A p \in Procs, w, a \in BOOLEAN : [by |-> p, written |-> w, aged |-> a] \in Records
  BY DEF Records

\* A record that names somebody is not the absent one.
LEMMA NamedRecord ==
    ASSUME NEW r \in Records, r.by \in Procs
    PROVE  r \in [by : Procs, written : BOOLEAN, aged : BOOLEAN]
  BY SingletonConstants DEF Records, Absent, Nobody

\* A write to a record leaves a record.
LEMMA WrittenRecord ==
    ASSUME NEW r \in Records, NEW p \in Procs PROVE Written(r, p) \in Records
<1>1. CASE r.by = p
  <2>1. r \in [by : Procs, written : BOOLEAN, aged : BOOLEAN]
    BY <1>1, NamedRecord
  <2> QED
    BY <1>1, <2>1 DEF Written, Records
<1> QED
  BY <1>1 DEF Written

\* A record with contents is not the absent one.
LEMMA WrittenIsNamed ==
    ASSUME NEW r \in Records, r.written
    PROVE  r \in [by : Procs, written : BOOLEAN, aged : BOOLEAN]
  BY DEF Records, Absent

\* A daemon's socket is one of the sockets.
LEMMA SockFacts == \A p \in Procs : Sock[p] \in Sockets
  BY DEF Sockets

\* The states the actions name are states.
LEMMA StateFacts ==
    /\ "off" \in States /\ "gone" \in States /\ "dead" \in States
    /\ "check" \in States /\ "probe" \in States
    /\ "claim" \in States /\ "claimWrite" \in States /\ "claimRead" \in States
    /\ "claimPid" \in States /\ "claimReap" \in States
    /\ "lease" \in States /\ "leaseWrite" \in States /\ "leaseRead" \in States
    /\ "leasePid" \in States /\ "leaseReap" \in States
    /\ "bind" \in States /\ "bindProbe" \in States /\ "bindOwner" \in States
    /\ "bindReap" \in States
    /\ "relLease" \in States /\ "rmLease" \in States
    /\ "relClaim" \in States /\ "rmClaim" \in States
    /\ "serve" \in States /\ "stuck" \in States /\ "close" \in States
    /\ "unlink" \in States /\ "exit" \in States
  BY DEF States, Alive, Starting, Releasing

\* One step of a daemon, or of the machine, keeps every variable in its type.
LEMMA TypeStep ==
    ASSUME TypeOK, [Next]_vars PROVE TypeOK'
<1> USE SingletonConstants, SockFacts, StateFacts DEF TypeOK
<1>1. ASSUME NEW p \in Procs,
             \/ Start(p) \/ StartStep(p) \/ ReleaseStep(p)
             \/ RenewRead(p) \/ RenewReplace(p) \/ Stop(p)
             \/ Crash(p) \/ PidReused(p)
      PROVE TypeOK'
  <2>1. CASE Start(p)
    BY <2>1 DEF Start, Goto
  <2>2. CASE CheckSocketless(p)
    BY <2>2 DEF CheckSocketless, Goto
  <2>3. CASE ProbeSocketless(p)
    BY <2>3, AbsentRecord DEF ProbeSocketless, Goto
  <2>4. CASE ClaimCreate(p)
    BY <2>4, RecordOf DEF ClaimCreate, Goto, Created
  <2>5. CASE ClaimWrite(p)
    BY <2>5, WrittenRecord DEF ClaimWrite, Goto
  <2>6. CASE ClaimRead(p)
    BY <2>6 DEF ClaimRead, Goto
  <2>7. CASE ClaimPid(p)
    BY <2>7, AbsentRecord DEF ClaimPid, Goto
  <2>8. CASE ClaimReap(p)
    BY <2>8, AbsentRecord DEF ClaimReap, Goto
  <2>9. CASE LeaseCreate(p)
    <3>1. lease' \in [Sockets -> Records]
      BY <2>9, RecordOf DEF LeaseCreate, SetLease, Created
    <3> QED
      BY <2>9, <3>1 DEF LeaseCreate, Goto
  <2>10. CASE LeaseWrite(p)
    BY <2>10, WrittenRecord DEF LeaseWrite, Goto, SetLease
  <2>11. CASE LeaseRead(p)
    BY <2>11 DEF LeaseRead, Goto
  <2>12. CASE LeasePid(p)
    BY <2>12, AbsentRecord DEF LeasePid, Goto
  <2>13. CASE LeaseReap(p)
    BY <2>13, AbsentRecord DEF LeaseReap, Goto, SetLease
  <2>14. CASE Bind(p)
    BY <2>14 DEF Bind, Goto
  <2>15. CASE BindProbe(p)
    BY <2>15 DEF BindProbe, Goto
  <2>16. CASE BindOwner(p)
    BY <2>16 DEF BindOwner, Goto
  <2>17. CASE BindReap(p)
    BY <2>17 DEF BindReap, Goto
  <2>18. CASE ReleaseLeaseRead(p)
    BY <2>18 DEF ReleaseLeaseRead, Goto, AfterLease
  <2>19. CASE ReleaseLeaseRemove(p)
    BY <2>19, AbsentRecord DEF ReleaseLeaseRemove, Goto, SetLease
  <2>20. CASE ReleaseClaimRead(p)
    BY <2>20, AbsentRecord DEF ReleaseClaimRead, Goto, Released, AfterClaim
  <2>21. CASE ReleaseClaimRemove(p)
    BY <2>21, AbsentRecord DEF ReleaseClaimRemove, Goto, Released, AfterClaim
  <2>22. CASE CloseServer(p)
    BY <2>22 DEF CloseServer, Goto
  <2>23. CASE Unlink(p)
    BY <2>23 DEF Unlink, Goto
  <2>24. CASE Exit(p)
    BY <2>24 DEF Exit, Goto
  <2>25. CASE RenewRead(p)
    BY <2>25 DEF RenewRead
  <2>26. CASE RenewReplace(p)
    BY <2>26, RecordOf DEF RenewReplace, SetLease
  <2>27. CASE Stop(p)
    BY <2>27 DEF Stop, Goto
  <2>28. CASE Crash(p)
    BY <2>28, AbsentRecord DEF Crash, Goto
  <2>29. CASE PidReused(p)
    BY <2>29 DEF PidReused
  <2> QED
    BY <1>1, <2>1, <2>2, <2>3, <2>4, <2>5, <2>6, <2>7, <2>8, <2>9, <2>10, <2>11, <2>12, <2>13, <2>14, <2>15, <2>16, <2>17, <2>18, <2>19, <2>20, <2>21, <2>22, <2>23, <2>24, <2>25, <2>26, <2>27, <2>28, <2>29
    DEF StartStep, ReleaseStep
<1>2. ASSUME NEW s \in Sockets, LeaseAges(s) PROVE TypeOK'
  <2>1. lease[s] \in [by : Procs, written : BOOLEAN, aged : BOOLEAN]
    BY <1>2, WrittenIsNamed DEF LeaseAges
  <2>2. [lease[s] EXCEPT !.aged = TRUE] \in Records
    BY <2>1 DEF Records
  <2> QED
    BY <1>2, <2>2 DEF LeaseAges
<1>3. CASE UNCHANGED vars
  BY <1>3 DEF vars
<1> QED
  BY <1>1, <1>2, <1>3 DEF Next

\* The claim, the leases, the sockets and every daemon's position are always well
\* typed: no reading or removal leaves a record that nobody wrote.
THEOREM TypeCorrect == Spec => []TypeOK
<1>1. Init => TypeOK
  BY SingletonConstants, AbsentRecord, StateFacts DEF Init, TypeOK
<1> QED
  BY <1>1, TypeStep, PTL DEF Spec

-----------------------------------------------------------------------------
(* The rescue of a socketless owner's records.  Between the probe and the      *)
(* removals any daemon may move: what makes the answer last is that a lease    *)
(* only ages once its owner's start is over, and an owner binds once.          *)

\* The daemon has passed its bind or was refused: it will not bind again.
StartIsOver(p) ==
    \/ pc[p] \in {"serve", "stuck", "close", "unlink", "exit", "gone", "dead"}
    \/ pc[p] \in Releasing /\ why[p] = "stop"

\* A lease lies in the directory of the daemon that it names, which has been started,
\* as has one that renews.
LeasesLieAtHome ==
    /\ \A s \in Sockets : lease[s].by # Nobody =>
          Sock[lease[s].by] = s /\ pc[lease[s].by] # "off"
    /\ \A p \in renewing : pc[p] # "off"

AgedOwnersAreSettled ==
    \A s \in Sockets : lease[s].by # Nobody /\ lease[s].aged => StartIsOver(lease[s].by)

\* Who probes or rescues has read the aged lease of its own directory.
RescuersRead ==
    \A p \in Procs :
       pc[p] = "probe" \/ (pc[p] \in Releasing /\ why[p] = "rescue") =>
          /\ seen[p].by \in Procs
          /\ Sock[seen[p].by] = Sock[p]
          /\ StartIsOver(seen[p].by)

RescueInv ==
    TypeOK /\ LeasesLieAtHome /\ AgedOwnersAreSettled /\ RescuersRead /\ RescueSparesOwners

\* No record is held of a machine without daemons, and nobody rescues.
LEMMA RescueInvInit == Init => RescueInv
<1> SUFFICES ASSUME Init PROVE RescueInv
  OBVIOUS
<1>1. TypeOK
  BY SingletonConstants, AbsentRecord, StateFacts DEF Init, TypeOK
<1> QED
  BY <1>1, SockFacts
  DEF Init, RescueInv, LeasesLieAtHome, AgedOwnersAreSettled, RescuersRead,
      RescueSparesOwners, Absent, Releasing

\* The steps of a start's decision, of a release and of a stop.
Step(p) ==
    \/ Start(p) \/ StartStep(p) \/ ReleaseStep(p)
    \/ RenewRead(p) \/ RenewReplace(p) \/ Stop(p)
    \/ Crash(p) \/ PidReused(p)

\* A daemon whose start is over stays so, and listens or is bound only if it already
\* was: no handler of a serving or stopping daemon goes back to the bind.
LEMMA SettledStaysSettled ==
    ASSUME TypeOK, NEW p \in Procs, Step(p), NEW q \in Procs, StartIsOver(q)
    PROVE  /\ StartIsOver(q)'
           /\ Listening(q)' => Listening(q)
           /\ (sock[Sock[q]] = q)' => sock[Sock[q]] = q
<1> USE SockFacts, SingletonConstants
    DEF TypeOK, StartIsOver, Listening, Starting, Releasing, Goto
<1>1. CASE Start(p)
  BY <1>1 DEF Start
<1>2. CASE StartStep(p)
  <2>1. CASE CheckSocketless(p) \/ ProbeSocketless(p)
    BY <2>1 DEF CheckSocketless, ProbeSocketless
  <2>2. CASE ClaimCreate(p) \/ ClaimWrite(p) \/ ClaimRead(p) \/ ClaimPid(p) \/ ClaimReap(p)
    BY <2>2 DEF ClaimCreate, ClaimWrite, ClaimRead, ClaimPid, ClaimReap
  <2>3. CASE LeaseCreate(p) \/ LeaseWrite(p) \/ LeaseRead(p) \/ LeasePid(p) \/ LeaseReap(p)
    BY <2>3 DEF LeaseCreate, LeaseWrite, LeaseRead, LeasePid, LeaseReap
  <2>4. CASE Bind(p) \/ BindProbe(p) \/ BindOwner(p) \/ BindReap(p)
    BY <2>4 DEF Bind, BindProbe, BindOwner, BindReap
  <2> QED
    BY <1>2, <2>1, <2>2, <2>3, <2>4 DEF StartStep
<1>3. CASE ReleaseStep(p)
  <2>1. CASE ReleaseLeaseRead(p) \/ ReleaseLeaseRemove(p)
    BY <2>1 DEF ReleaseLeaseRead, ReleaseLeaseRemove, AfterLease
  <2>2. CASE ReleaseClaimRead(p) \/ ReleaseClaimRemove(p)
    BY <2>2 DEF ReleaseClaimRead, ReleaseClaimRemove, Released, AfterClaim
  <2>3. CASE CloseServer(p) \/ Unlink(p) \/ Exit(p)
    BY <2>3 DEF CloseServer, Unlink, Exit
  <2> QED
    BY <1>3, <2>1, <2>2, <2>3 DEF ReleaseStep
<1>4. CASE RenewRead(p) \/ RenewReplace(p) \/ PidReused(p)
  BY <1>4 DEF RenewRead, RenewReplace, PidReused
<1>5. CASE Stop(p) \/ Crash(p)
  BY <1>5 DEF Stop, Crash
<1> QED
  BY <1>1, <1>2, <1>3, <1>4, <1>5 DEF Step

\* Who moves has been started, and stays so; so has who begins to renew.
LEMMA StartedSteps ==
    ASSUME TypeOK, NEW p \in Procs, Step(p)
    PROVE  /\ \A q \in Procs : pc[q] # "off" => pc'[q] # "off"
           /\ pc'[p] # "off" \/ (pc'[p] = pc[p] /\ p \in renewing)
           /\ renewing' \subseteq renewing \/ (renewing' = renewing \cup {p} /\ pc'[p] # "off")
<1> USE SockFacts, SingletonConstants DEF TypeOK, Starting, Releasing, Alive, Goto
<1>1. CASE Start(p)
  BY <1>1 DEF Start
<1>2. CASE StartStep(p)
  <2>1. CASE CheckSocketless(p) \/ ProbeSocketless(p)
    BY <2>1 DEF CheckSocketless, ProbeSocketless
  <2>2. CASE ClaimCreate(p) \/ ClaimWrite(p) \/ ClaimRead(p) \/ ClaimPid(p) \/ ClaimReap(p)
    BY <2>2 DEF ClaimCreate, ClaimWrite, ClaimRead, ClaimPid, ClaimReap
  <2>3. CASE LeaseCreate(p) \/ LeaseWrite(p) \/ LeaseRead(p) \/ LeasePid(p) \/ LeaseReap(p)
    BY <2>3 DEF LeaseCreate, LeaseWrite, LeaseRead, LeasePid, LeaseReap
  <2>4. CASE Bind(p) \/ BindProbe(p) \/ BindOwner(p) \/ BindReap(p)
    BY <2>4 DEF Bind, BindProbe, BindOwner, BindReap
  <2> QED
    BY <1>2, <2>1, <2>2, <2>3, <2>4 DEF StartStep
<1>3. CASE ReleaseStep(p)
  <2>1. CASE ReleaseLeaseRead(p) \/ ReleaseLeaseRemove(p)
    BY <2>1 DEF ReleaseLeaseRead, ReleaseLeaseRemove, AfterLease
  <2>2. CASE ReleaseClaimRead(p) \/ ReleaseClaimRemove(p)
    BY <2>2 DEF ReleaseClaimRead, ReleaseClaimRemove, Released, AfterClaim
  <2>3. CASE CloseServer(p) \/ Unlink(p) \/ Exit(p)
    BY <2>3 DEF CloseServer, Unlink, Exit
  <2> QED
    BY <1>3, <2>1, <2>2, <2>3 DEF ReleaseStep
<1>4. CASE RenewRead(p) \/ RenewReplace(p) \/ PidReused(p)
  BY <1>4 DEF RenewRead, RenewReplace, PidReused
<1>5. CASE Stop(p) \/ Crash(p)
  BY <1>5 DEF Stop, Crash
<1> QED
  BY <1>1, <1>2, <1>3, <1>4, <1>5 DEF Step

\* A step of a daemon writes no lease but in its own directory and in its own name,
\* never an aged one.
LEMMA LeaseSteps ==
    ASSUME TypeOK, NEW p \in Procs, Step(p), NEW s \in Sockets
    PROVE  \/ lease'[s] = lease[s]
           \/ lease'[s] = Absent
           \/ s = Sock[p] /\ lease'[s].by = p /\ lease'[s].aged = FALSE
           \/ s = Sock[p] /\ lease'[s].by = p /\ lease[s].by = p /\ lease'[s].aged = lease[s].aged
<1> USE SockFacts DEF TypeOK, SetLease
<1>1. CASE LeaseCreate(p)
  BY <1>1 DEF LeaseCreate, Created
<1>2. CASE LeaseWrite(p)
  <2> SUFFICES ASSUME lease'[s] # lease[s]
               PROVE  s = Sock[p] /\ lease'[s].by = p /\ lease[s].by = p
                      /\ lease'[s].aged = lease[s].aged
    OBVIOUS
  <2>1. s = Sock[p] /\ lease'[s] = Written(lease[s], p) /\ lease[s].by = p
    BY <1>2 DEF LeaseWrite, Written
  <2>2. lease[s] \in [by : Procs, written : BOOLEAN, aged : BOOLEAN]
    BY <2>1, NamedRecord
  <2> QED
    BY <2>1, <2>2 DEF Written
<1>3. CASE LeaseReap(p) \/ ReleaseLeaseRemove(p)
  BY <1>3 DEF LeaseReap, ReleaseLeaseRemove
<1>4. CASE RenewReplace(p)
  BY <1>4 DEF RenewReplace
<1>6. CASE Start(p) \/ RenewRead(p) \/ Stop(p) \/ Crash(p) \/ PidReused(p)
  BY <1>6 DEF Start, RenewRead, Stop, Crash, PidReused
<1>7. CASE StartStep(p) /\ ~LeaseCreate(p) /\ ~LeaseWrite(p) /\ ~LeaseReap(p)
  BY <1>7 DEF StartStep, CheckSocketless, ProbeSocketless, ClaimCreate, ClaimWrite,
      ClaimRead, ClaimPid, ClaimReap, LeaseRead, LeasePid, Bind, BindProbe, BindOwner, BindReap
<1>8. CASE ReleaseStep(p) /\ ~ReleaseLeaseRemove(p)
  BY <1>8 DEF ReleaseStep, ReleaseLeaseRead, ReleaseClaimRead, ReleaseClaimRemove,
      CloseServer, Unlink, Exit
<1> QED
  BY <1>1, <1>2, <1>3, <1>4, <1>6, <1>7, <1>8 DEF Step

Rescuing(p) == pc[p] \in Releasing /\ why[p] = "rescue"

\* Only the socketless check brings a daemon to the probe, with the aged lease that it
\* read, and only a refused connection brings it from there to the rescue; meanwhile
\* what it read stays what it read.
LEMMA RescueSteps ==
    ASSUME TypeOK, NEW p \in Procs, Step(p), NEW q \in Procs
    PROVE  /\ (pc[q] = "probe")' => \/ pc[q] = "probe" /\ seen'[q] = seen[q]
                                    \/ /\ lease[Sock[q]].written /\ lease[Sock[q]].aged
                                       /\ seen'[q] = lease[Sock[q]]
           /\ Rescuing(q)' => /\ seen'[q] = seen[q]
                              /\ \/ Rescuing(q)
                                 \/ pc[q] = "probe" /\ ~owned(Sock[q]) /\ UNCHANGED sock
<1> USE SockFacts, SingletonConstants DEF TypeOK, Rescuing, Releasing, Goto
<1>1. CASE Start(p)
  BY <1>1 DEF Start
<1>2. CASE StartStep(p)
  <2>1. CASE CheckSocketless(p)
    BY <2>1 DEF CheckSocketless, looksSocketless
  <2>2. CASE ProbeSocketless(p)
    BY <2>2 DEF ProbeSocketless, probeSocketOwnership
  <2>3. CASE ClaimCreate(p) \/ ClaimWrite(p) \/ ClaimRead(p) \/ ClaimPid(p) \/ ClaimReap(p)
    BY <2>3 DEF ClaimCreate, ClaimWrite, ClaimRead, ClaimPid, ClaimReap
  <2>4. CASE LeaseCreate(p) \/ LeaseWrite(p) \/ LeaseRead(p) \/ LeasePid(p) \/ LeaseReap(p)
    BY <2>4 DEF LeaseCreate, LeaseWrite, LeaseRead, LeasePid, LeaseReap
  <2>5. CASE Bind(p) \/ BindProbe(p) \/ BindOwner(p) \/ BindReap(p)
    BY <2>5 DEF Bind, BindProbe, BindOwner, BindReap
  <2> QED
    BY <1>2, <2>1, <2>2, <2>3, <2>4, <2>5 DEF StartStep
<1>3. CASE ReleaseStep(p)
  <2>1. CASE ReleaseLeaseRead(p) \/ ReleaseLeaseRemove(p)
    BY <2>1 DEF ReleaseLeaseRead, ReleaseLeaseRemove, AfterLease
  <2>2. CASE ReleaseClaimRead(p) \/ ReleaseClaimRemove(p)
    BY <2>2 DEF ReleaseClaimRead, ReleaseClaimRemove, Released, AfterClaim
  <2>3. CASE CloseServer(p) \/ Unlink(p) \/ Exit(p)
    BY <2>3 DEF CloseServer, Unlink, Exit
  <2> QED
    BY <1>3, <2>1, <2>2, <2>3 DEF ReleaseStep
<1>4. CASE RenewRead(p) \/ RenewReplace(p) \/ PidReused(p)
  BY <1>4 DEF RenewRead, RenewReplace, PidReused
<1>5. CASE Stop(p) \/ Crash(p)
  BY <1>5 DEF Stop, Crash
<1> QED
  BY <1>1, <1>2, <1>3, <1>4, <1>5 DEF Step

\* Every step of a daemon keeps the rescue's invariant.
LEMMA RescueInvDaemon ==
    ASSUME RescueInv, NEW p \in Procs, Step(p), TypeOK'
    PROVE  RescueInv'
<1> USE SockFacts, SingletonConstants
<1>0. TypeOK /\ LeasesLieAtHome /\ AgedOwnersAreSettled
  BY DEF RescueInv
<1>1. LeasesLieAtHome'
  <2>1. \A q \in renewing' : pc'[q] # "off"
    BY <1>0, StartedSteps DEF LeasesLieAtHome, TypeOK
  <2>2. ASSUME NEW s \in Sockets, lease'[s].by # Nobody
        PROVE  Sock[lease'[s].by] = s /\ pc'[lease'[s].by] # "off"
    <3>1. PICK o \in Procs : o = lease'[s].by
      BY <2>2 DEF TypeOK, Records, Absent
    <3>2. CASE o = lease[s].by
      BY <1>0, <3>1, <3>2, StartedSteps DEF LeasesLieAtHome
    <3>3. CASE o = p /\ s = Sock[p]
      BY <1>0, <3>1, <3>3, StartedSteps DEF LeasesLieAtHome
    <3>4. lease'[s] # Absent
      BY <2>2 DEF Absent
    <3> QED
      BY <1>0, <3>1, <3>2, <3>3, <3>4, LeaseSteps
  <2> QED
    BY <2>1, <2>2 DEF LeasesLieAtHome
<1>2. AgedOwnersAreSettled'
  <2> SUFFICES ASSUME NEW s \in Sockets, lease'[s].by # Nobody, lease'[s].aged,
                      NEW o, o = lease'[s].by
               PROVE  StartIsOver(o)'
    BY DEF AgedOwnersAreSettled, StartIsOver
  <2>1. lease'[s].by = lease[s].by /\ lease[s].aged
    <3>1. lease'[s] # Absent
      BY DEF Absent
    <3>2. lease'[s].aged # FALSE
      OBVIOUS
    <3> QED
      BY <1>0, <3>1, <3>2, LeaseSteps
  <2>2. o \in Procs /\ o = lease[s].by
    BY <2>1 DEF TypeOK, Records, Absent
  <2>3. StartIsOver(o)
    BY <1>0, <2>1, <2>2 DEF AgedOwnersAreSettled
  <2> QED
    BY <1>0, <2>2, <2>3, SettledStaysSettled
<1>3. ASSUME NEW q \in Procs, (pc[q] = "probe")' \/ Rescuing(q)'
      PROVE  \E o \in Procs : o = seen'[q].by /\ Sock[o] = Sock[q] /\ StartIsOver(o)
  <2>1. CASE lease[Sock[q]].written /\ lease[Sock[q]].aged /\ seen'[q] = lease[Sock[q]]
    <3>1. lease[Sock[q]].by \in Procs
      BY <2>1, WrittenIsNamed DEF RescueInv, TypeOK
    <3>2. Sock[lease[Sock[q]].by] = Sock[q] /\ StartIsOver(lease[Sock[q]].by)
      BY <2>1, <3>1 DEF RescueInv, LeasesLieAtHome, AgedOwnersAreSettled
    <3> QED
      BY <2>1, <3>1, <3>2
  <2>2. CASE (pc[q] = "probe" \/ Rescuing(q)) /\ seen'[q] = seen[q]
    BY <2>2 DEF RescueInv, RescuersRead, Rescuing
  <2> QED
    BY <1>3, <2>1, <2>2, RescueSteps DEF RescueInv
<1>4. RescuersRead'
  <2> SUFFICES ASSUME NEW q \in Procs, (pc[q] = "probe")' \/ Rescuing(q)',
                      NEW z, z = seen'[q].by
               PROVE  z \in Procs /\ Sock[z] = Sock[q] /\ StartIsOver(z)'
    BY DEF RescuersRead, Rescuing, StartIsOver
  <2>1. PICK o \in Procs : o = seen'[q].by /\ Sock[o] = Sock[q] /\ StartIsOver(o)
    BY <1>3
  <2>2. StartIsOver(o)'
    BY <2>1, SettledStaysSettled DEF RescueInv
  <2> QED
    BY <2>1, <2>2
<1>5. RescueSparesOwners'
  <2> SUFFICES ASSUME NEW q \in Procs, Rescuing(q)', NEW o, o = seen'[q].by
               PROVE  ~(Listening(o)' /\ sock'[Sock[o]] = o)
    BY DEF RescueSparesOwners, Rescuing, Listening
  <2>1. o \in Procs /\ Sock[o] = Sock[q] /\ StartIsOver(o) /\ o = seen[q].by
    BY <1>3, RescueSteps DEF RescueInv
  <2>2. /\ Listening(o)' => Listening(o)
        /\ (sock[Sock[o]] = o)' => sock[Sock[o]] = o
    BY <2>1, SettledStaysSettled DEF RescueInv
  <2>3. CASE Rescuing(q)
    BY <2>1, <2>2, <2>3 DEF RescueInv, RescueSparesOwners, Rescuing
  <2>4. CASE ~owned(Sock[q])
    BY <2>1, <2>2, <2>4 DEF owned
  <2> QED
    BY <2>3, <2>4, RescueSteps DEF RescueInv
<1> QED
  BY <1>1, <1>2, <1>4, <1>5 DEF RescueInv

\* A lease ages only while nobody starts or gives records up.
LEMMA RescueInvAges ==
    ASSUME RescueInv, NEW s \in Sockets, LeaseAges(s), TypeOK'
    PROVE  RescueInv'
<1> USE SockFacts, SingletonConstants
<1>1. lease[s] \in [by : Procs, written : BOOLEAN, aged : BOOLEAN]
  BY WrittenIsNamed DEF RescueInv, TypeOK, LeaseAges
<1>2. \A t \in Sockets : /\ lease'[t].by = lease[t].by
                         /\ lease'[t].aged = lease[t].aged \/ t = s
  BY <1>1 DEF RescueInv, TypeOK, LeaseAges
<1>3. UNCHANGED <<sock, pc, why, seen, renewing>> /\ StartIsOver(lease[s].by)
  <2>1. pc[lease[s].by] \in States \ ({"off"} \cup Starting \cup Releasing)
    BY <1>1 DEF LeaseAges, RescueInv, TypeOK, LeasesLieAtHome
  <2> QED
    BY <2>1 DEF LeaseAges, StartIsOver, States, Alive
<1>4. LeasesLieAtHome' /\ AgedOwnersAreSettled'
  BY <1>2, <1>3 DEF RescueInv, LeasesLieAtHome, AgedOwnersAreSettled, StartIsOver
<1>5. RescuersRead' /\ RescueSparesOwners'
  BY <1>3 DEF RescueInv, RescuersRead, RescueSparesOwners, StartIsOver, Listening
<1> QED
  BY <1>4, <1>5 DEF RescueInv

\* Every step keeps it.
LEMMA RescueInvStep == ASSUME RescueInv, [Next]_vars PROVE RescueInv'
<1>1. TypeOK'
  BY TypeStep DEF RescueInv
<1>2. ASSUME NEW p \in Procs, Step(p) PROVE RescueInv'
  BY <1>1, <1>2, RescueInvDaemon
<1>3. ASSUME NEW s \in Sockets, LeaseAges(s) PROVE RescueInv'
  BY <1>1, <1>3, RescueInvAges
<1>4. CASE UNCHANGED vars
  BY <1>1, <1>4
  DEF vars, RescueInv, LeasesLieAtHome, AgedOwnersAreSettled, RescuersRead,
      RescueSparesOwners, StartIsOver, Listening
<1> QED
  BY <1>2, <1>3, <1>4 DEF Next, Step

\* Any number of daemons, users, stops and crashes: nobody gives up in another's name
\* the records of a daemon whose socket path leads to it, however long its renewals
\* have failed and however late the removals come after the probe.
THEOREM OwnersAreSpared == Spec => []RescueSparesOwners
<1>1. RescueInv => RescueSparesOwners
  BY DEF RescueInv
<1> QED
  BY <1>1, RescueInvInit, RescueInvStep, PTL DEF Spec
=============================================================================

------------------------- MODULE ResourceLeaseProofs -------------------------
(***************************************************************************)
(* Proofs about ResourceLease: the type invariant, that the daemon never   *)
(* has two leases of one resource, that two clients never both believe in  *)
(* one, unless its Worker was given up, and that a lease with time left is  *)
(* not taken from its client otherwise.                                    *)
(***************************************************************************)
EXTENDS ResourceLease, TLAPS

\* The tables the actions build are tables.
LEMMA TableFacts ==
    ASSUME NEW t \in Table
    PROVE  /\ Empty \in Table
           /\ Unexpired(t) \in Table
           /\ Aged(t) \in Table
           /\ \A r \in Requests : [t EXCEPT ![r] = TTL] \in Table
           /\ \A r \in Requests : [t EXCEPT ![r] = NoLease] \in Table
<1> USE LeaseConstants DEF NoLease, Table
<1>1. Empty \in Table
  BY DEF Empty
<1>2. Unexpired(t) \in Table
  BY DEF Unexpired
<1>3. Aged(t) \in Table
  BY DEF Aged, Less
<1>4. \A r \in Requests : [t EXCEPT ![r] = TTL] \in Table /\ [t EXCEPT ![r] = NoLease] \in Table
  OBVIOUS
<1> QED
  BY <1>1, <1>2, <1>3, <1>4

\* Aging keeps the time left of offers within the lease's time.
LEMMA AgedTimes ==
    ASSUME NEW t \in [Requests -> 0 .. TTL]
    PROVE  Aged(t) \in [Requests -> 0 .. TTL]
BY LeaseConstants DEF Aged, Less

LeaseTypes ==
    /\ leases \in Table
    /\ pending \in SUBSET Table
    /\ writing \in SUBSET Table
    /\ file \in Table

RequestTypes ==
    /\ phase \in [Requests -> Phases]
    /\ conflict \in [Requests -> BOOLEAN]
    /\ waitLeft \in [Requests -> 0 .. WaitTimeout]
    /\ renewal \in [Requests -> {"none", "pruning", "pruned", "persisting"}]

ClientTypes ==
    /\ offer \in [Requests -> 0 .. TTL]
    /\ told \in [Requests -> 0 .. TTL]
    /\ alive \in [Requests -> BOOLEAN]

HostTypes ==
    /\ up \in BOOLEAN
    /\ intact \in BOOLEAN
    /\ givenUp \subseteq Requests
    /\ faults \in 0 .. MaxFaults

\* The type invariant, by parts.
LEMMA TypeParts == TypeOK <=> LeaseTypes /\ RequestTypes /\ ClientTypes /\ HostTypes
BY DEF TypeOK, LeaseTypes, RequestTypes, ClientTypes, HostTypes

\* A change of the map keeps the store's tables tables.
LEMMA ChangeTypes ==
    ASSUME LeaseTypes, NEW t \in Table, Change(t)
    PROVE  LeaseTypes'
BY DEF LeaseTypes, Change

\* Pruning keeps the types.
LEMMA PruneTypes ==
    ASSUME LeaseTypes, NEW next, NEW unchanged, NEW changed, pruneExpired(next, unchanged, changed)
    PROVE  LeaseTypes'
<1>1. Unexpired(leases) \in Table
  BY TableFacts DEF LeaseTypes
<1>2. CASE Unexpired(leases) # leases
  BY <1>1, <1>2, ChangeTypes DEF pruneExpired
<1>3. CASE Unexpired(leases) = leases
  BY <1>3 DEF pruneExpired, storeVars, LeaseTypes
<1> QED
  BY <1>2, <1>3

\* Answering those who await a write moves their requests between phases.
LEMMA SettleTypes ==
    ASSUME TypeOK, Settle
    PROVE  /\ phase' \in [Requests -> Phases]
           /\ renewal' \in [Requests -> {"none", "pruning", "pruned", "persisting"}]
           /\ told' \in [Requests -> 0 .. TTL]
<1>1. CASE pending = {}
  BY <1>1 DEF TypeOK, Settle, Phases
<1>2. CASE pending # {}
  BY <1>2 DEF TypeOK, Settle
<1> QED
  BY <1>1, <1>2

\* The initial state is well typed.
LEMMA InitTypes == Init => TypeOK
<1> SUFFICES ASSUME Init PROVE TypeOK
  OBVIOUS
<1>1. Empty \in Table
  BY LeaseConstants DEF Empty, Table, NoLease
<1>2. LeaseTypes
  BY <1>1 DEF Init, LeaseTypes
<1>3. RequestTypes
  BY LeaseConstants DEF Init, RequestTypes, Phases
<1>4. ClientTypes
  BY LeaseConstants DEF Init, ClientTypes
<1>5. HostTypes
  BY LeaseConstants DEF Init, HostTypes
<1> QED
  BY <1>2, <1>3, <1>4, <1>5, TypeParts

\* Every step of a request, the store, the daemon and the clock keeps the types.
LEMMA NextTypes == TypeOK /\ [Next]_vars => TypeOK'
<1> SUFFICES ASSUME TypeOK, [Next]_vars PROVE TypeOK'
  OBVIOUS
<1>0. LeaseTypes /\ RequestTypes /\ ClientTypes /\ HostTypes
  BY TypeParts
<1>f. Fault => faults' \in 0 .. MaxFaults
  BY <1>0, LeaseConstants DEF Fault, HostTypes
<1>g. ASSUME NEW gone \in SUBSET Requests, GivesUp(gone)
      PROVE  faults' \in 0 .. MaxFaults /\ givenUp' \subseteq Requests
  BY <1>0, <1>f, <1>g DEF GivesUp, HostTypes
<1> DEFINE Same == UNCHANGED <<conflict, waitLeft, renewal>>
<1>p. ASSUME NEW r \in Requests, NEW p \in Phases, phase' = [phase EXCEPT ![r] = p], Same
      PROVE  RequestTypes'
  BY <1>0, <1>p DEF RequestTypes
<1>t. /\ leases \in Table
      /\ \A r \in Requests : [leases EXCEPT ![r] = TTL] \in Table
      /\ \A r \in Requests : [leases EXCEPT ![r] = NoLease] \in Table
  BY <1>0, TableFacts DEF LeaseTypes
<1>1. ASSUME NEW r \in Requests, Request(r) PROVE TypeOK'
  <2>1. RequestTypes'
    BY <1>1, <1>p DEF Request, Phases
  <2> QED
    BY <1>0, <1>1, <2>1, TypeParts DEF Request, storeVars, clientVars, hostVars, LeaseTypes,
       ClientTypes, HostTypes, TypeOK, RequestTypes
<1>2. ASSUME NEW r \in Requests, AcquirePrune(r) PROVE TypeOK'
  <2>1. PICK next \in {"pruned", "pruning"} :
           pruneExpired(next, "pruned", "pruning") /\ phase' = [phase EXCEPT ![r] = next]
    BY <1>2 DEF AcquirePrune
  <2>2. LeaseTypes'
    BY <1>0, <2>1, PruneTypes
  <2>3. RequestTypes'
    BY <1>2, <1>p, <2>1 DEF AcquirePrune, Phases
  <2> QED
    BY <1>0, <1>2, <2>2, <2>3 DEF AcquirePrune, clientVars, hostVars, ClientTypes, HostTypes,
       TypeOK, RequestTypes, LeaseTypes
<1>3. ASSUME NEW r \in Requests, AcquireSample(r) PROVE TypeOK'
  <2>1. Conflicting(r) \in BOOLEAN
    BY DEF Conflicting
  <2>2. RequestTypes'
    BY <1>0, <1>3, <2>1 DEF AcquireSample, RequestTypes, Phases
  <2> QED
    BY <1>0, <1>3, <2>2 DEF AcquireSample, storeVars, clientVars, hostVars, LeaseTypes,
       ClientTypes, HostTypes, TypeOK, RequestTypes
<1>4. ASSUME NEW r \in Requests, AcquireInsert(r) PROVE TypeOK'
  <2>1. LeaseTypes'
    BY <1>0, <1>4, <1>t, ChangeTypes DEF AcquireInsert
  <2>2. RequestTypes'
    BY <1>4, <1>p DEF AcquireInsert, Phases
  <2>3. ClientTypes'
    BY <1>0, <1>4, LeaseConstants DEF AcquireInsert, ClientTypes, clientVars
  <2> QED
    BY <1>0, <1>4, <2>1, <2>2, <2>3 DEF AcquireInsert, hostVars, HostTypes, ClientTypes, TypeOK,
       RequestTypes, LeaseTypes
<1>5. ASSUME NEW r \in Requests, AcquireWait(r) PROVE TypeOK'
  <2>1. RequestTypes'
    BY <1>5, <1>p DEF AcquireWait, Phases
  <2> QED
    BY <1>0, <1>5, <2>1 DEF AcquireWait, storeVars, clientVars, hostVars, LeaseTypes,
       ClientTypes, HostTypes, TypeOK, RequestTypes
<1>6. ASSUME NEW r \in Requests, WaitTimer(r) PROVE TypeOK'
  <2>1. RequestTypes'
    BY <1>6, <1>p DEF WaitTimer, Phases
  <2> QED
    BY <1>0, <1>6, <2>1 DEF WaitTimer, storeVars, clientVars, hostVars, LeaseTypes,
       ClientTypes, HostTypes, TypeOK, RequestTypes
<1>7. ASSUME NEW r \in Requests, RenewPrune(r) PROVE TypeOK'
  <2>1. PICK next \in {"pruned", "pruning"} :
           pruneExpired(next, "pruned", "pruning") /\ renewal' = [renewal EXCEPT ![r] = next]
    BY <1>7 DEF RenewPrune
  <2>2. LeaseTypes'
    BY <1>0, <2>1, PruneTypes
  <2>3. RequestTypes'
    BY <1>0, <1>7, <2>1 DEF RenewPrune, acquireVars, RequestTypes
  <2> QED
    BY <1>0, <1>7, <2>2, <2>3 DEF RenewPrune, clientVars, hostVars, ClientTypes, HostTypes,
       TypeOK, RequestTypes, LeaseTypes
<1>8. ASSUME NEW r \in Requests, RenewSet(r) PROVE TypeOK'
  <2>1. LeaseTypes'
    <3>1. CASE leases[r] = NoLease
      BY <1>0, <1>8, <3>1 DEF RenewSet, storeVars, LeaseTypes
    <3>2. CASE leases[r] # NoLease
      BY <1>0, <1>8, <1>t, <3>2, ChangeTypes DEF RenewSet
    <3> QED
      BY <3>1, <3>2
  <2>2. RequestTypes' /\ ClientTypes'
    BY <1>0, <1>8, LeaseConstants DEF RenewSet, acquireVars, clientVars, RequestTypes, ClientTypes
  <2> QED
    BY <1>0, <1>8, <2>1, <2>2 DEF RenewSet, hostVars, HostTypes, TypeOK, RequestTypes,
       LeaseTypes, ClientTypes
<1>9. ASSUME NEW r \in Requests, Release(r) PROVE TypeOK'
  <2>1. LeaseTypes'
    <3>1. CASE leases[r] = NoLease
      BY <1>0, <1>9, <3>1 DEF Release, storeVars, LeaseTypes
    <3>2. CASE leases[r] # NoLease
      BY <1>0, <1>9, <1>t, <3>2, ChangeTypes DEF Release
    <3> QED
      BY <3>1, <3>2
  <2>2. RequestTypes'
    BY <1>9, <1>p DEF Release, Phases
  <2> QED
    BY <1>0, <1>9, <2>1, <2>2 DEF Release, clientVars, hostVars, ClientTypes, HostTypes, TypeOK,
       RequestTypes, LeaseTypes
<1>10. ASSUME NEW r \in Requests, ReleaseFails(r) PROVE TypeOK'
  <2>1. RequestTypes'
    BY <1>10, <1>p DEF ReleaseFails, Phases
  <2> QED
    BY <1>0, <1>10, <1>f, <2>1 DEF ReleaseFails, storeVars, clientVars, LeaseTypes,
       ClientTypes, HostTypes, TypeOK, RequestTypes
<1>11. ASSUME NEW r \in Requests, ClientDies(r) PROVE TypeOK'
  <2>1. ClientTypes'
    BY <1>0, <1>11, LeaseConstants DEF ClientDies, ClientTypes
  <2> QED
    BY <1>0, <1>11, <1>f, <2>1 DEF ClientDies, storeVars, acquireVars, LeaseTypes,
       ClientTypes, HostTypes, TypeOK, RequestTypes
<1>12. ASSUME NEW r \in Requests, ReleaseHolder(r) PROVE TypeOK'
  <2>1. LeaseTypes'
    BY <1>0, <1>12, <1>t, ChangeTypes DEF ReleaseHolder
  <2> QED
    BY <1>0, <1>12, <1>g, <2>1 DEF ReleaseHolder, acquireVars, clientVars, LeaseTypes,
       ClientTypes, HostTypes, TypeOK, RequestTypes
<1>13. CASE WriteBegin
  BY <1>0, <1>13 DEF WriteBegin, acquireVars, clientVars, hostVars, LeaseTypes,
     ClientTypes, HostTypes, TypeOK, RequestTypes
<1>14. CASE WriteEnd
  BY <1>0, <1>14, SettleTypes DEF WriteEnd, hostVars, LeaseTypes, ClientTypes, HostTypes,
     TypeOK, RequestTypes
<1>15. CASE WriteFails
  BY <1>0, <1>15, <1>f, SettleTypes DEF WriteFails, LeaseTypes, ClientTypes, HostTypes,
     TypeOK, RequestTypes
<1>16. CASE DaemonStops
  <2>1. Empty \in Table
    BY <1>t, TableFacts
  <2>2. RequestTypes'
    BY <1>0, <1>16 DEF DaemonStops, RequestTypes, Phases
  <2> QED
    BY <1>0, <1>16, <1>f, <2>1, <2>2 DEF DaemonStops, clientVars, LeaseTypes, ClientTypes,
       HostTypes, TypeOK, RequestTypes
<1>17. CASE DaemonStarts
  <2>0. PICK reattached \in SUBSET Requests :
           leases' = Restored(reattached) /\ GivesUp(Held(file) \ reattached)
    BY <1>17 DEF DaemonStarts
  <2>1. Restored(reattached) \in Table
    BY <1>0, LeaseConstants DEF Restored, Table, NoLease, LeaseTypes
  <2>2. LeaseTypes'
    BY <1>0, <1>17, <2>0, <2>1 DEF DaemonStarts, LeaseTypes
  <2>3. Held(file) \ reattached \in SUBSET Requests
    BY DEF Held
  <2>4. faults' \in 0 .. MaxFaults /\ givenUp' \subseteq Requests
    BY <1>g, <2>0, <2>3
  <2> QED
    BY <1>0, <1>17, <2>2, <2>4 DEF DaemonStarts, acquireVars, clientVars, LeaseTypes, ClientTypes,
       HostTypes, TypeOK, RequestTypes
<1>18. CASE DaemonStartsBlank
  BY <1>0, <1>18, <1>f DEF DaemonStartsBlank, storeVars, acquireVars, clientVars, LeaseTypes,
     ClientTypes, HostTypes, TypeOK, RequestTypes
<1>19. CASE Tick
  <2>1. LeaseTypes'
    BY <1>0, <1>19, TableFacts DEF Tick, LeaseTypes
  <2>2. ClientTypes'
    BY <1>0, <1>19, AgedTimes DEF Tick, ClientTypes
  <2>3. RequestTypes'
    BY <1>0, <1>19, LeaseConstants DEF Tick, RequestTypes, Less
  <2> QED
    BY <1>0, <1>19, <2>1, <2>2, <2>3 DEF Tick, hostVars, LeaseTypes, ClientTypes, HostTypes,
       TypeOK, RequestTypes
<1>20. CASE UNCHANGED vars
  BY <1>0, <1>20 DEF vars, storeVars, acquireVars, clientVars, hostVars, LeaseTypes,
     ClientTypes, HostTypes, TypeOK, RequestTypes
<1> QED
  BY <1>1, <1>2, <1>3, <1>4, <1>5, <1>6, <1>7, <1>8, <1>9, <1>10, <1>11, <1>12, <1>13, <1>14,
     <1>15, <1>16, <1>17, <1>18, <1>19, <1>20 DEF Next, AcquireStep, RenewStep, StoreStep

\* The map, the store and every request are always well typed.
THEOREM TypeCorrect == Spec => []TypeOK
BY InitTypes, NextTypes, PTL DEF Spec

-----------------------------------------------------------------------------
(* One lease per resource.                                                  *)

\* The map and everything a successor may restore it from.
AllExclusive ==
    /\ Exclusive(leases)
    /\ Exclusive(file)
    /\ \A t \in pending \cup writing : Exclusive(t)

LeaseInv == TypeOK /\ AllExclusive

\* A table that holds no more than an exclusive one is exclusive.
LEMMA FewerLeases ==
    ASSUME NEW t, NEW u, Exclusive(t), Held(u) \subseteq Held(t)
    PROVE  Exclusive(u)
BY DEF Exclusive

\* Dropping expired leases, aging, releasing and renewing add no lease.
LEMMA NoNewLease ==
    ASSUME NEW t \in Table
    PROVE  /\ Held(Unexpired(t)) \subseteq Held(t)
           /\ Held(Aged(t)) \subseteq Held(t)
           /\ \A r \in Requests : Held([t EXCEPT ![r] = NoLease]) \subseteq Held(t)
           /\ \A r \in Held(t) : Held([t EXCEPT ![r] = TTL]) \subseteq Held(t)
           /\ Held(Empty) = {}
<1> USE DEF NoLease, Table, Held
<1>1. Held(Unexpired(t)) \subseteq Held(t)
  BY DEF Unexpired
<1>2. Held(Aged(t)) \subseteq Held(t)
  BY DEF Aged, Less
<1>3. \A r \in Requests : Held([t EXCEPT ![r] = NoLease]) \subseteq Held(t)
  OBVIOUS
<1>4. \A r \in Held(t) : Held([t EXCEPT ![r] = TTL]) \subseteq Held(t)
  OBVIOUS
<1>5. Held(Empty) = {}
  BY DEF Empty
<1> QED
  BY <1>1, <1>2, <1>3, <1>4, <1>5

\* A lease for a resource nobody has a lease of keeps the table exclusive.
LEMMA FreeLease ==
    ASSUME NEW r \in Requests, leases \in Table, Exclusive(leases), stillFree(r)
    PROVE  Exclusive([leases EXCEPT ![r] = TTL])
<1>1. \A s \in Held([leases EXCEPT ![r] = TTL]) : s = r \/ s \in Held(leases)
  BY DEF Held, Table
<1> QED
  BY <1>1 DEF Exclusive, stillFree, Conflicting

\* A scheduled change to an exclusive table keeps everything exclusive.
LEMMA ExclusiveChange ==
    ASSUME NEW t, Exclusive(t), AllExclusive, Change(t)
    PROVE  AllExclusive'
<1>1. leases' = t /\ pending' = {t} /\ writing' = writing /\ file' = file
  BY DEF Change
<1> QED
  BY <1>1 DEF AllExclusive, Exclusive, Held

\* So does a step that leaves the map, the store and the file alone.
LEMMA ExclusiveSame ==
    ASSUME AllExclusive, UNCHANGED <<leases, pending, writing, file>>
    PROVE  AllExclusive'
BY DEF AllExclusive, Exclusive, Held

\* Pruning takes leases away, and exclusion survives it.
LEMMA ExclusivePrune ==
    ASSUME leases \in Table, AllExclusive, NEW next, NEW unchanged, NEW changed,
           pruneExpired(next, unchanged, changed)
    PROVE  AllExclusive'
<1>1. Exclusive(Unexpired(leases))
  BY NoNewLease, FewerLeases DEF AllExclusive
<1>2. CASE Unexpired(leases) # leases
  BY <1>1, <1>2, ExclusiveChange DEF pruneExpired
<1>3. CASE Unexpired(leases) = leases
  BY <1>3, ExclusiveSame DEF pruneExpired, storeVars
<1> QED
  BY <1>2, <1>3

\* The initial tables are empty, hence exclusive.
LEMMA LeaseInit == Init => LeaseInv
<1> SUFFICES ASSUME Init PROVE AllExclusive
  BY InitTypes DEF LeaseInv
<1>1. Exclusive(Empty)
  BY DEF Exclusive, Held, Empty
<1> QED
  BY <1>1 DEF Init, AllExclusive

\* Every step keeps the map, and all a successor may restore it from, exclusive.
LEMMA LeaseInvStep == LeaseInv /\ [Next]_vars => LeaseInv'
<1> SUFFICES ASSUME LeaseInv, [Next]_vars PROVE AllExclusive'
  BY NextTypes DEF LeaseInv
<1>0. AllExclusive /\ leases \in Table /\ file \in Table /\ pending \subseteq Table /\ writing \subseteq Table
  BY DEF LeaseInv, TypeOK
<1>d. ASSUME NEW r \in Requests PROVE Exclusive([leases EXCEPT ![r] = NoLease])
  BY <1>0, NoNewLease, FewerLeases DEF AllExclusive
<1>1. ASSUME NEW r \in Requests,
             Request(r) \/ AcquireSample(r) \/ AcquireWait(r) \/ WaitTimer(r)
               \/ ReleaseFails(r) \/ ClientDies(r)
      PROVE  AllExclusive'
  BY <1>0, <1>1, ExclusiveSame DEF Request, AcquireSample, AcquireWait, WaitTimer,
     ReleaseFails, ClientDies, storeVars
<1>2. ASSUME NEW r \in Requests, AcquirePrune(r) \/ RenewPrune(r) PROVE AllExclusive'
  BY <1>0, <1>2, ExclusivePrune DEF AcquirePrune, RenewPrune
<1>3. ASSUME NEW r \in Requests, AcquireInsert(r) PROVE AllExclusive'
  <2>1. Exclusive([leases EXCEPT ![r] = TTL])
    BY <1>0, <1>3, FreeLease DEF AcquireInsert, AllExclusive
  <2> QED
    BY <1>0, <1>3, <2>1, ExclusiveChange DEF AcquireInsert
<1>4. ASSUME NEW r \in Requests, RenewSet(r) PROVE AllExclusive'
  <2>1. CASE leases[r] = NoLease
    BY <1>0, <1>4, <2>1, ExclusiveSame DEF RenewSet, storeVars
  <2>2. CASE leases[r] # NoLease
    <3>1. r \in Held(leases)
      BY <2>2 DEF Held
    <3>2. Exclusive([leases EXCEPT ![r] = TTL])
      BY <1>0, <3>1, NoNewLease, FewerLeases DEF AllExclusive
    <3> QED
      BY <1>0, <1>4, <2>2, <3>2, ExclusiveChange DEF RenewSet
  <2> QED
    BY <2>1, <2>2
<1>5. ASSUME NEW r \in Requests, Release(r) PROVE AllExclusive'
  <2>1. CASE leases[r] = NoLease
    BY <1>0, <1>5, <2>1, ExclusiveSame DEF Release, storeVars
  <2>2. CASE leases[r] # NoLease
    BY <1>0, <1>5, <1>d, <2>2, ExclusiveChange DEF Release
  <2> QED
    BY <2>1, <2>2
<1>6. ASSUME NEW r \in Requests, ReleaseHolder(r) PROVE AllExclusive'
  BY <1>0, <1>6, <1>d, ExclusiveChange DEF ReleaseHolder
<1>7. CASE WriteBegin
  BY <1>0, <1>7 DEF WriteBegin, AllExclusive, Exclusive, Held
<1>8. CASE WriteEnd
  BY <1>0, <1>8 DEF WriteEnd, AllExclusive, Exclusive, Held
<1>9. CASE WriteFails
  BY <1>0, <1>9 DEF WriteFails, AllExclusive, Exclusive, Held
<1>10. CASE DaemonStops
  <2>1. Exclusive(Empty)
    BY DEF Exclusive, Held, Empty
  <2> QED
    BY <1>0, <1>10, <2>1 DEF DaemonStops, AllExclusive, Exclusive, Held
<1>11. CASE DaemonStarts
  <2>0. PICK reattached \in SUBSET Requests : leases' = Restored(reattached)
    BY <1>11 DEF DaemonStarts
  <2>1. Held(Restored(reattached)) \subseteq Held(file)
    BY <1>0 DEF Held, Restored, Table
  <2>2. Exclusive(Restored(reattached))
    BY <1>0, <2>1, FewerLeases DEF AllExclusive
  <2>3. /\ pending' \subseteq {Restored(reattached)} /\ writing' = writing /\ file' = file
        /\ leases' = Restored(reattached)
    BY <1>11, <2>0 DEF DaemonStarts
  <2> QED
    BY <1>0, <2>2, <2>3 DEF AllExclusive, Exclusive, Held
<1>12. CASE DaemonStartsBlank
  BY <1>0, <1>12, ExclusiveSame DEF DaemonStartsBlank, storeVars
<1>13. CASE Tick
  <2>1. \A t \in Table : Exclusive(t) => Exclusive(Aged(t))
    BY NoNewLease, FewerLeases
  <2>2. /\ leases' = Aged(leases) /\ file' = Aged(file)
        /\ \A t \in pending' \cup writing' : \E u \in pending \cup writing : t = Aged(u)
    BY <1>13 DEF Tick
  <2>3. /\ Exclusive(Aged(leases)) /\ Exclusive(Aged(file))
        /\ \A t \in pending' \cup writing' : Exclusive(t)
    BY <1>0, <2>1, <2>2 DEF AllExclusive
  <2> QED
    BY <2>2, <2>3 DEF AllExclusive, Exclusive, Held
<1>14. CASE UNCHANGED vars
  BY <1>0, <1>14, ExclusiveSame DEF vars, storeVars
<1> QED
  BY <1>1, <1>2, <1>3, <1>4, <1>5, <1>6, <1>7, <1>8, <1>9, <1>10, <1>11, <1>12, <1>13,
     <1>14 DEF Next, AcquireStep, RenewStep, StoreStep

\* At no time does the daemon have two leases of one resource: not with any
\* number of acquires between their checks, and not after a replacement.
THEOREM LeasesAreExclusive == Spec => []OneLeasePerResource
<1>1. LeaseInv => OneLeasePerResource
  BY DEF LeaseInv, AllExclusive, OneLeasePerResource
<1> QED
  BY <1>1, LeaseInit, LeaseInvStep, PTL DEF Spec

-----------------------------------------------------------------------------
(* One believer per resource.  What a client believes is in the file, and in *)
(* every table that may become the file; what it is about to be told is in   *)
(* the last of the tables that wait to be written.                           *)

\* The table gives every client that believes in its lease, and whose Worker was
\* not given up, at least that time.
Covers(table, known, at, lost) ==
    \A r \in Requests \ lost : known[r] > 0 /\ at[r] = "granted" => table[r] >= known[r]

\* r awaits the write of a lease with time left and will be told of it.
Awaits(r, offered, living, at, renewing) ==
    living[r] /\ offered[r] > 0 /\ "persisting" \in {at[r], renewing[r]}

\* The table gives everyone who will be told, less those whose Workers were given
\* up, at least what they will be told.
Promises(table, offered, living, at, renewing, lost) ==
    \A r \in Requests \ lost : Awaits(r, offered, living, at, renewing) => table[r] >= offered[r]

Answered == {"idle", "granted", "timedOut", "failed", "done"}

\* Nothing of a daemon that is down is in progress.
Quiet ==
    ~up => /\ leases = Empty
           /\ pending = {}
           /\ writing = {}
           /\ \A r \in Requests : phase[r] \in Answered /\ renewal[r] = "none"

LiveBelief == \A r \in Requests : told[r] > 0 => alive[r]

Durable ==
    /\ Covers(file, told, phase, givenUp)
    /\ \A t \in pending \cup writing : Covers(t, told, phase, givenUp)
    /\ \A t \in pending : Promises(t, offer, alive, phase, renewal, givenUp)
    /\ pending = {} => \A t \in writing : Promises(t, offer, alive, phase, renewal, givenUp)
    /\ up => /\ Covers(leases, told, phase, givenUp)
             /\ Promises(leases, offer, alive, phase, renewal, givenUp)

BeliefInv == LeaseInv /\ Quiet /\ LiveBelief /\ (intact => Durable)

\* No one comes to believe in a lease, or in more of one.
NoNewBelief ==
    \A r \in Requests :
       told'[r] > 0 /\ phase'[r] = "granted" => told'[r] = told[r] /\ phase[r] = "granted"

\* No one comes to await the answer to a change of the map.
NoNewPromise ==
    \A r \in Requests :
       Awaits(r, offer', alive', phase', renewal')
         => Awaits(r, offer, alive, phase, renewal) /\ offer'[r] = offer[r]

\* A step that changes no table, and tells no one anything, keeps them durable.
LEMMA DurableSame ==
    ASSUME Durable, NoNewBelief, NoNewPromise,
           UNCHANGED <<leases, pending, writing, file, up>>, givenUp \subseteq givenUp'
    PROVE  Durable'
<1>1. \A t : Covers(t, told, phase, givenUp) => Covers(t, told', phase', givenUp')
  BY DEF Covers, NoNewBelief
<1>2. \A t : Promises(t, offer, alive, phase, renewal, givenUp)
               => Promises(t, offer', alive', phase', renewal', givenUp')
  BY DEF Promises, NoNewPromise
<1> QED
  BY <1>1, <1>2 DEF Durable

\* A change of the map is durable if the new map covers what clients believe and
\* what they will be told.
LEMMA DurableChange ==
    ASSUME Durable, NoNewBelief, NEW t, Change(t), up' = up, givenUp \subseteq givenUp',
           Covers(t, told', phase', givenUp'),
           Promises(t, offer', alive', phase', renewal', givenUp')
    PROVE  Durable'
<1>1. \A u : Covers(u, told, phase, givenUp) => Covers(u, told', phase', givenUp')
  BY DEF Covers, NoNewBelief
<1>2. leases' = t /\ pending' = {t} /\ writing' = writing /\ file' = file
  BY DEF Change
<1>3. Covers(file', told', phase', givenUp') /\ \A u \in writing' : Covers(u, told', phase', givenUp')
  BY <1>1, <1>2 DEF Durable
<1>4. /\ \A u \in pending' : Covers(u, told', phase', givenUp')
      /\ \A u \in pending' : Promises(u, offer', alive', phase', renewal', givenUp')
      /\ pending' # {}
  BY <1>2
<1>5. Covers(leases', told', phase', givenUp') /\ Promises(leases', offer', alive', phase', renewal', givenUp')
  BY <1>2
<1> QED
  BY <1>3, <1>4, <1>5 DEF Durable

\* A pruned map covers and promises what the map did: only spent leases go.
LEMMA PruneCovers ==
    ASSUME TypeOK, NEW t \in Table
    PROVE  /\ Covers(t, told, phase, givenUp) => Covers(Unexpired(t), told, phase, givenUp)
           /\ Promises(t, offer, alive, phase, renewal, givenUp)
                => Promises(Unexpired(t), offer, alive, phase, renewal, givenUp)
<1> USE LeaseConstants DEF Table, NoLease
<1>1. told \in [Requests -> 0 .. TTL] /\ offer \in [Requests -> 0 .. TTL]
  BY DEF TypeOK
<1>2. \A r \in Requests : t[r] > 0 => Unexpired(t)[r] = t[r]
  BY DEF Unexpired
<1>3. Covers(t, told, phase, givenUp) => Covers(Unexpired(t), told, phase, givenUp)
  BY <1>1, <1>2 DEF Covers
<1>4. Promises(t, offer, alive, phase, renewal, givenUp)
        => Promises(Unexpired(t), offer, alive, phase, renewal, givenUp)
  BY <1>1, <1>2 DEF Promises, Awaits
<1> QED
  BY <1>3, <1>4

\* Pruning keeps beliefs and promises durable.
LEMMA DurablePrune ==
    ASSUME TypeOK, Durable, up, up' = up, NoNewBelief, NoNewPromise, givenUp \subseteq givenUp',
           NEW next, NEW unchanged, NEW changed, pruneExpired(next, unchanged, changed)
    PROVE  Durable'
<1>0. leases \in Table
  BY DEF TypeOK
<1>1. /\ Covers(Unexpired(leases), told, phase, givenUp)
      /\ Promises(Unexpired(leases), offer, alive, phase, renewal, givenUp)
  BY <1>0, PruneCovers DEF Durable
<1>2. /\ Covers(Unexpired(leases), told', phase', givenUp')
      /\ Promises(Unexpired(leases), offer', alive', phase', renewal', givenUp')
  BY <1>1 DEF Covers, Promises, NoNewBelief, NoNewPromise
<1>3. CASE Unexpired(leases) # leases
  BY <1>2, <1>3, DurableChange DEF pruneExpired
<1>4. CASE Unexpired(leases) = leases
  BY <1>4, DurableSame DEF pruneExpired, storeVars
<1> QED
  BY <1>3, <1>4

\* The initial state: no one believes or awaits anything.
LEMMA BeliefInit == Init => Quiet /\ LiveBelief /\ Durable
<1> SUFFICES ASSUME Init PROVE Quiet /\ LiveBelief /\ Durable
  OBVIOUS
<1>1. Quiet
  BY DEF Init, Quiet
<1>2. \A r \in Requests : told[r] = 0 /\ offer[r] = 0
  BY DEF Init
<1>3. LiveBelief
  BY <1>2 DEF LiveBelief
<1>4. \A t : Covers(t, told, phase, givenUp) /\ Promises(t, offer, alive, phase, renewal, givenUp)
  BY <1>2 DEF Covers, Promises, Awaits
<1> QED
  BY <1>1, <1>3, <1>4 DEF Durable

\* While the daemon is down its map and store stay empty.
LEMMA QuietStep == TypeOK /\ Quiet /\ [Next]_vars => Quiet'
<1> SUFFICES ASSUME TypeOK, Quiet, [Next]_vars, ~up' PROVE Quiet'
  BY DEF Quiet
<1>t. phase \in [Requests -> Phases] /\ renewal \in [Requests -> {"none", "pruning", "pruned", "persisting"}]
  BY DEF TypeOK
<1>1. CASE up
  <2>1. DaemonStops
    BY <1>1 DEF Next, AcquireStep, RenewStep, StoreStep, Request, AcquirePrune, AcquireSample,
       AcquireInsert, AcquireWait, WaitTimer, RenewPrune, RenewSet, Release, ReleaseFails, ClientDies,
       ReleaseHolder, WriteBegin, WriteEnd, WriteFails, DaemonStarts, DaemonStartsBlank, Tick, vars,
       hostVars
  <2> QED
    BY <1>t, <2>1 DEF DaemonStops, Quiet, Answered
<1>2. CASE ~up
  <2>0. /\ leases = Empty /\ pending = {} /\ writing = {}
        /\ \A r \in Requests : phase[r] \in Answered /\ renewal[r] = "none"
    BY <1>2 DEF Quiet
  <2>1. ASSUME NEW r \in Requests, ReleaseFails(r) PROVE Quiet'
    BY <1>t, <2>0, <2>1 DEF ReleaseFails, storeVars, Quiet, Answered
  <2>2. ASSUME NEW r \in Requests, ClientDies(r) PROVE Quiet'
    BY <2>0, <2>2 DEF ClientDies, storeVars, acquireVars, Quiet
  <2>3. ASSUME NEW r \in Requests PROVE ~AcquireStep(r) /\ ~RenewStep(r)
    BY <1>2, <2>0 DEF AcquireStep, RenewStep, AcquirePrune, AcquireSample, AcquireInsert, AcquireWait,
       WaitTimer, RenewPrune, RenewSet, Answered
  <2>4. ASSUME NEW r \in Requests PROVE ~Request(r) /\ ~Release(r) /\ ~ReleaseHolder(r)
    BY <1>2 DEF Request, Release, ReleaseHolder
  <2>5. ~WriteBegin /\ ~WriteEnd /\ ~WriteFails /\ ~DaemonStops /\ ~DaemonStarts /\ ~DaemonStartsBlank
    BY <1>2, <2>0 DEF WriteBegin, WriteEnd, WriteFails, DaemonStops, DaemonStarts, DaemonStartsBlank
  <2>6. CASE Tick
    <3>1. Aged(Empty) = Empty
      BY DEF Aged, Less, Empty, NoLease
    <3> QED
      BY <2>0, <2>6, <3>1 DEF Tick, Quiet
  <2>7. CASE UNCHANGED vars
    BY <2>0, <2>7 DEF vars, storeVars, acquireVars, Quiet
  <2> QED
    BY <2>1, <2>2, <2>3, <2>4, <2>5, <2>6, <2>7 DEF Next, StoreStep
<1> QED
  BY <1>1, <1>2

\* A client that died believes in nothing, and is told nothing.
LEMMA LiveBeliefStep == TypeOK /\ LiveBelief /\ [Next]_vars => LiveBelief'
<1> SUFFICES ASSUME TypeOK, LiveBelief, [Next]_vars PROVE LiveBelief'
  OBVIOUS
<1>0. /\ told \in [Requests -> 0 .. TTL] /\ alive \in [Requests -> BOOLEAN]
      /\ \A r \in Requests : told[r] > 0 => alive[r]
  BY DEF TypeOK, LiveBelief
<1>1. ASSUME NEW r \in Requests, ClientDies(r) PROVE LiveBelief'
  BY <1>0, <1>1 DEF ClientDies, LiveBelief
<1>2. ASSUME Settle, alive' = alive PROVE LiveBelief'
  <2>1. CASE pending = {}
    BY <1>0, <1>2, <2>1 DEF Settle, LiveBelief
  <2>2. CASE pending # {}
    BY <1>0, <1>2, <2>2 DEF Settle, LiveBelief
  <2> QED
    BY <2>1, <2>2
<1>3. CASE Tick
  <2>1. \A r \in Requests : told'[r] > 0 => told[r] > 0
    BY <1>0, <1>3, LeaseConstants DEF Tick, Aged, Less
  <2> QED
    BY <1>0, <1>3, <2>1 DEF Tick, LiveBelief
<1>4. CASE UNCHANGED clientVars
  BY <1>0, <1>4 DEF clientVars, LiveBelief
<1>5. CASE \E r \in Requests : \/ Request(r) \/ AcquireStep(r) \/ RenewStep(r) \/ Release(r)
                               \/ ReleaseFails(r) \/ ReleaseHolder(r)
  BY <1>4, <1>5 DEF Request, AcquireStep, RenewStep, Release, ReleaseFails, ReleaseHolder, AcquirePrune,
     AcquireSample, AcquireInsert, AcquireWait, WaitTimer, RenewPrune, RenewSet, vars, clientVars
<1> QED
  BY <1>1, <1>2, <1>3, <1>4, <1>5 DEF Next, StoreStep, WriteBegin, WriteEnd, WriteFails, DaemonStops,
     DaemonStarts, DaemonStartsBlank, vars

\* A daemon that gave a living client's Worker up does not undo it.
LEMMA GivenUpGrows == [Next]_vars => givenUp \subseteq givenUp'
BY DEF Next, AcquireStep, RenewStep, StoreStep, Request, AcquirePrune, AcquireSample, AcquireInsert,
   AcquireWait, WaitTimer, RenewPrune, RenewSet, Release, ReleaseFails, ClientDies, ReleaseHolder, GivesUp,
   WriteBegin, WriteEnd, WriteFails, DaemonStops, DaemonStarts, DaemonStartsBlank, Tick, vars, hostVars

\* As long as neither a write nor a read of the file fails, every step keeps what
\* the clients believe, and what they will be told, in the tables.
LEMMA DurableStep ==
    TypeOK /\ Quiet /\ LiveBelief /\ Durable /\ [Next]_vars /\ intact /\ intact' => Durable'
<1> SUFFICES ASSUME TypeOK, Quiet, LiveBelief, Durable, [Next]_vars, intact /\ intact'
             PROVE  Durable'
  OBVIOUS
<1>0. /\ leases \in Table /\ file \in Table /\ pending \subseteq Table /\ writing \subseteq Table
      /\ told \in [Requests -> 0 .. TTL] /\ offer \in [Requests -> 0 .. TTL]
      /\ phase \in [Requests -> Phases] /\ alive \in [Requests -> BOOLEAN]
      /\ renewal \in [Requests -> {"none", "pruning", "pruned", "persisting"}]
  BY DEF TypeOK
<1>s. UNCHANGED <<told, offer, alive, phase, renewal>> => NoNewBelief /\ NoNewPromise
  BY DEF NoNewBelief, NoNewPromise, Awaits
<1>p. ASSUME NEW r \in Requests, NEW p \in Phases \ {"granted", "persisting"},
             phase' = [phase EXCEPT ![r] = p], UNCHANGED <<told, offer, alive, renewal>>
      PROVE  NoNewBelief /\ NoNewPromise
  BY <1>0, <1>p DEF NoNewBelief, NoNewPromise, Awaits
<1>u. ASSUME NEW r \in Requests, phase[r] \in Phases \ Answered \/ renewal[r] # "none" PROVE up
  BY <1>u DEF Quiet
<1>g. givenUp \subseteq givenUp'
  BY GivenUpGrows
<1>l. up => Covers(leases, told, phase, givenUp) /\ Promises(leases, offer, alive, phase, renewal, givenUp)
  BY DEF Durable
<1>1. ASSUME NEW r \in Requests, Request(r) \/ AcquireSample(r) \/ AcquireWait(r) \/ WaitTimer(r)
      PROVE  Durable'
  <2>1. PICK p \in {"start", "sampled", "timedOut", "waiting"} : phase' = [phase EXCEPT ![r] = p]
    BY <1>1 DEF Request, AcquireSample, AcquireWait, WaitTimer
  <2>2. NoNewBelief /\ NoNewPromise
    BY <1>1, <1>p, <2>1 DEF Request, AcquireSample, AcquireWait, WaitTimer, Phases, clientVars
  <2> QED
    BY <1>g, <1>1, <2>2, DurableSame DEF Request, AcquireSample, AcquireWait, WaitTimer, storeVars, hostVars
<1>2. ASSUME NEW r \in Requests, AcquirePrune(r) PROVE Durable'
  <2>1. PICK next \in {"pruned", "pruning"} :
           pruneExpired(next, "pruned", "pruning") /\ phase' = [phase EXCEPT ![r] = next]
    BY <1>2 DEF AcquirePrune
  <2>2. NoNewBelief /\ NoNewPromise
    BY <1>2, <1>p, <2>1 DEF AcquirePrune, Phases, clientVars
  <2>3. up /\ up' = up
    BY <1>2, <1>u DEF AcquirePrune, hostVars, Phases, Answered
  <2> QED
    BY <1>g, <2>1, <2>2, <2>3, DurablePrune
<1>3. ASSUME NEW r \in Requests, AcquireInsert(r) PROVE Durable'
  <2> DEFINE new == [leases EXCEPT ![r] = TTL]
  <2>1. up /\ up' = up
    BY <1>3, <1>u DEF AcquireInsert, hostVars, Phases, Answered
  <2>2. /\ Change(new)
        /\ offer' = [offer EXCEPT ![r] = TTL]
        /\ phase' = [phase EXCEPT ![r] = "persisting"]
        /\ UNCHANGED <<renewal, told, alive>>
    BY <1>3 DEF AcquireInsert, clientVars
  <2>3. NoNewBelief
    BY <1>0, <2>2 DEF NoNewBelief
  <2>4. /\ new[r] = TTL /\ \A s \in Requests \ {r} : new[s] = leases[s]
        /\ \A s \in Requests \ {r} : offer'[s] = offer[s] /\ phase'[s] = phase[s]
        /\ offer'[r] = TTL /\ phase'[r] = "persisting"
    BY <1>0, <2>2 DEF Table
  <2>5. Covers(new, told', phase', givenUp')
    BY <1>g, <1>l, <2>1, <2>2, <2>4 DEF Covers
  <2>6. Promises(new, offer', alive', phase', renewal', givenUp')
    BY <1>g, <1>l, <2>1, <2>2, <2>4, LeaseConstants DEF Promises, Awaits
  <2> HIDE DEF new
  <2> QED
    BY <1>g, <2>1, <2>2, <2>3, <2>5, <2>6, DurableChange
<1>4. ASSUME NEW r \in Requests, RenewPrune(r) PROVE Durable'
  <2>1. PICK next \in {"pruned", "pruning"} :
           pruneExpired(next, "pruned", "pruning") /\ renewal' = [renewal EXCEPT ![r] = next]
    BY <1>4 DEF RenewPrune
  <2>2. NoNewBelief
    BY <1>4 DEF RenewPrune, NoNewBelief, acquireVars, clientVars
  <2>3. NoNewPromise
    BY <1>0, <1>4, <2>1 DEF RenewPrune, NoNewPromise, Awaits, acquireVars, clientVars
  <2>4. up /\ up' = up
    BY <1>4 DEF RenewPrune, hostVars
  <2> QED
    BY <1>g, <2>1, <2>2, <2>3, <2>4, DurablePrune
<1>5. ASSUME NEW r \in Requests, RenewSet(r) PROVE Durable'
  <2>0. up /\ up' = up
    BY <1>5, <1>u DEF RenewSet, hostVars
  <2>1. CASE leases[r] = NoLease
    <3>1. NoNewBelief
      BY <1>5 DEF RenewSet, NoNewBelief, acquireVars, clientVars
    <3>2. NoNewPromise
      BY <1>0, <1>5, <2>1 DEF RenewSet, NoNewPromise, Awaits, acquireVars, clientVars
    <3> QED
      BY <1>g, <1>5, <2>0, <2>1, <3>1, <3>2, DurableSame DEF RenewSet, storeVars
  <2>2. CASE leases[r] # NoLease
    <3> DEFINE new == [leases EXCEPT ![r] = TTL]
    <3>1. /\ Change(new)
          /\ offer' = [offer EXCEPT ![r] = TTL]
          /\ renewal' = [renewal EXCEPT ![r] = "persisting"]
          /\ UNCHANGED <<phase, told, alive>>
      BY <1>5, <2>2 DEF RenewSet, acquireVars, clientVars
    <3>2. NoNewBelief
      BY <3>1 DEF NoNewBelief
    <3>3. /\ new[r] = TTL /\ \A s \in Requests \ {r} : new[s] = leases[s]
          /\ \A s \in Requests \ {r} : offer'[s] = offer[s] /\ renewal'[s] = renewal[s]
          /\ offer'[r] = TTL /\ TTL >= told[r] /\ TTL >= TTL
      BY <1>0, <3>1, LeaseConstants DEF Table
    <3>4. Covers(new, told', phase', givenUp')
      BY <1>g, <1>l, <2>0, <3>1, <3>3 DEF Covers
    <3>5. Promises(new, offer', alive', phase', renewal', givenUp')
      BY <1>g, <1>l, <2>0, <3>1, <3>3 DEF Promises, Awaits
    <3> HIDE DEF new
    <3> QED
      BY <1>g, <2>0, <3>1, <3>2, <3>4, <3>5, DurableChange
  <2> QED
    BY <2>1, <2>2
<1>6. ASSUME NEW r \in Requests, Release(r) PROVE Durable'
  <2>0. up /\ up' = up
    BY <1>6 DEF Release, hostVars
  <2>1. NoNewBelief /\ NoNewPromise
    BY <1>6, <1>p DEF Release, Phases, clientVars
  <2>2. CASE leases[r] = NoLease
    BY <1>g, <1>6, <2>0, <2>1, <2>2, DurableSame DEF Release, storeVars
  <2>3. CASE leases[r] # NoLease
    <3> DEFINE new == [leases EXCEPT ![r] = NoLease]
    <3>1. Change(new) /\ phase' = [phase EXCEPT ![r] = "done"] /\ renewal' = renewal /\ renewal[r] = "none"
      BY <1>6, <2>3 DEF Release
    <3>2. /\ \A s \in Requests \ {r} : new[s] = leases[s] /\ phase'[s] = phase[s]
          /\ phase'[r] = "done" /\ renewal'[r] = "none"
      BY <1>0, <3>1 DEF Table
    <3>3. UNCHANGED <<offer, told, alive, renewal>>
      BY <1>6 DEF Release, clientVars
    <3>4. Covers(new, told', phase', givenUp')
      BY <1>g, <1>l, <2>0, <3>2, <3>3 DEF Covers
    <3>5. Promises(new, offer', alive', phase', renewal', givenUp')
      BY <1>g, <1>l, <2>0, <3>2, <3>3 DEF Promises, Awaits
    <3> HIDE DEF new
    <3> QED
      BY <1>g, <2>0, <2>1, <3>1, <3>4, <3>5, DurableChange
  <2> QED
    BY <2>2, <2>3
<1>7. ASSUME NEW r \in Requests, ReleaseFails(r) PROVE Durable'
  <2>1. NoNewBelief /\ NoNewPromise
    BY <1>7, <1>p DEF ReleaseFails, Phases, clientVars
  <2> QED
    BY <1>g, <1>7, <2>1, DurableSame DEF ReleaseFails, storeVars
<1>8. ASSUME NEW r \in Requests, ClientDies(r) PROVE Durable'
  <2>1. NoNewBelief /\ NoNewPromise
    BY <1>0, <1>8 DEF ClientDies, acquireVars, NoNewBelief, NoNewPromise, Awaits
  <2> QED
    BY <1>g, <1>8, <2>1, DurableSame DEF ClientDies, storeVars
<1>9. ASSUME NEW r \in Requests, ReleaseHolder(r) PROVE Durable'
  <2> DEFINE new == [leases EXCEPT ![r] = NoLease]
  <2>0. up /\ up' = up /\ (alive[r] => r \in givenUp') /\ Change(new)
    BY <1>9 DEF ReleaseHolder, GivesUp
  <2>1. UNCHANGED <<offer, told, alive, phase, renewal>>
    BY <1>9 DEF ReleaseHolder, clientVars, acquireVars
  <2>2. \A s \in Requests \ {r} : new[s] = leases[s]
    BY <1>0 DEF Table
  <2>3. told[r] > 0 => r \in givenUp'
    BY <2>0 DEF LiveBelief
  <2>4. Covers(new, told', phase', givenUp')
    BY <1>g, <1>l, <2>0, <2>1, <2>2, <2>3 DEF Covers
  <2>5. Promises(new, offer', alive', phase', renewal', givenUp')
    BY <1>g, <1>l, <2>0, <2>1, <2>2 DEF Promises, Awaits
  <2> HIDE DEF new
  <2> QED
    BY <1>g, <1>s, <2>0, <2>1, <2>4, <2>5, DurableChange
<1>10. CASE WriteBegin
  <2>1. UNCHANGED <<offer, told, alive, phase, renewal, leases, file, up, givenUp>>
    BY <1>10 DEF WriteBegin, clientVars, acquireVars, hostVars
  <2>2. writing' = pending /\ pending' = {}
    BY <1>10 DEF WriteBegin
  <2> QED
    BY <2>1, <2>2 DEF Durable
<1>11. CASE WriteEnd
  <2>0. UNCHANGED <<leases, pending, offer, alive, up, givenUp>> /\ file' \in writing /\ writing' = {} /\ Settle
    BY <1>11 DEF WriteEnd, hostVars
  <2>1. CASE pending # {}
    <3>1. UNCHANGED <<phase, renewal, told>>
      BY <2>0, <2>1 DEF Settle
    <3> QED
      BY <2>0, <2>1, <3>1 DEF Durable
  <2>2. CASE pending = {}
    <3>1. ASSUME NEW r \in Requests
          PROVE  phase'[r] # "persisting" /\ renewal'[r] # "persisting"
      BY <2>0, <2>2 DEF Settle
    <3>2. \A t : Promises(t, offer', alive', phase', renewal', givenUp')
      BY <3>1 DEF Promises, Awaits
    <3>3. ASSUME NEW r \in Requests, told'[r] > 0, phase'[r] = "granted"
          PROVE  \/ Awaits(r, offer, alive, phase, renewal) /\ told'[r] = offer[r]
                 \/ told'[r] = told[r] /\ phase[r] = "granted"
      <4>1. CASE alive[r] /\ "persisting" \in {phase[r], renewal[r]}
        BY <2>0, <2>2, <3>3, <4>1 DEF Settle, Awaits
      <4>2. CASE ~(alive[r] /\ "persisting" \in {phase[r], renewal[r]})
        BY <1>0, <2>0, <2>2, <3>3, <4>2 DEF Settle
      <4> QED
        BY <4>1, <4>2
    <3>4. \A t : Covers(t, told, phase, givenUp) /\ Promises(t, offer, alive, phase, renewal, givenUp)
                   => Covers(t, told', phase', givenUp')
      BY <2>0, <3>3 DEF Covers, Promises
    <3>5. Covers(file', told', phase', givenUp')
      BY <2>0, <2>2, <3>4 DEF Durable
    <3>6. up => Covers(leases, told', phase', givenUp')
      BY <1>l, <3>4
    <3>7. pending' = {} /\ writing' = {} /\ leases' = leases /\ up' = up
      BY <2>0, <2>2
    <3> QED
      BY <3>2, <3>5, <3>6, <3>7 DEF Durable
  <2> QED
    BY <2>1, <2>2
<1>12. ~WriteFails /\ ~DaemonStartsBlank
  BY DEF WriteFails, DaemonStartsBlank
<1>13. CASE DaemonStops
  <2>1. /\ ~up' /\ pending' = {} /\ writing' = {} /\ file' = file /\ told' = told
        /\ \A r \in Requests : phase'[r] = "granted" => phase[r] = "granted"
    BY <1>0, <1>13 DEF DaemonStops, clientVars
  <2>2. Covers(file', told', phase', givenUp')
    BY <1>g, <2>1 DEF Durable, Covers
  <2> QED
    BY <2>1, <2>2 DEF Durable
<1>14. CASE DaemonStarts
  <2>0. PICK reattached \in SUBSET Requests :
           leases' = Restored(reattached) /\ GivesUp(Held(file) \ reattached)
    BY <1>14 DEF DaemonStarts
  <2> DEFINE new == Restored(reattached)
  <2>1. /\ UNCHANGED <<phase, offer, renewal, told, alive, file>>
        /\ leases' = new /\ pending' \subseteq {new} /\ writing' = {}
    BY <1>14, <2>0 DEF DaemonStarts, acquireVars, clientVars, Quiet
  <2>2. \A r \in Requests \ givenUp' : alive[r] => new[r] = file[r]
    BY <1>0, <2>0 DEF Restored, GivesUp, Held
  <2>3. Covers(new, told', phase', givenUp')
    BY <1>g, <2>1, <2>2 DEF Covers, Durable, LiveBelief
  <2>4. \A r \in Requests : ~Awaits(r, offer', alive', phase', renewal')
    BY <1>14, <2>1 DEF DaemonStarts, Quiet, Awaits, Answered
  <2>5. Promises(new, offer', alive', phase', renewal', givenUp')
    BY <2>4 DEF Promises
  <2>6. Covers(file', told', phase', givenUp')
    BY <1>g, <2>1 DEF Durable, Covers
  <2> HIDE DEF new
  <2> QED
    BY <2>1, <2>3, <2>5, <2>6 DEF Durable
<1>15. CASE Tick
  <2>1. /\ leases' = Aged(leases) /\ file' = Aged(file) /\ offer' = Aged(offer) /\ told' = Aged(told)
        /\ pending' = {Aged(t) : t \in pending} /\ writing' = {Aged(t) : t \in writing}
        /\ UNCHANGED <<phase, renewal, alive, up, givenUp>>
    BY <1>15 DEF Tick, hostVars
  <2>2. \A t \in Table : Covers(t, told, phase, givenUp) => Covers(Aged(t), Aged(told), phase, givenUp)
    BY <1>0, LeaseConstants DEF Covers, Aged, Less, Table, NoLease
  <2>3. \A t \in Table : Promises(t, offer, alive, phase, renewal, givenUp)
                           => Promises(Aged(t), Aged(offer), alive, phase, renewal, givenUp)
    BY <1>0, LeaseConstants DEF Promises, Awaits, Aged, Less, Table, NoLease
  <2>4. Covers(file', told', phase', givenUp') /\ \A t \in pending' \cup writing' : Covers(t, told', phase', givenUp')
    BY <1>0, <2>1, <2>2 DEF Durable
  <2>5. \A t \in pending' : Promises(t, offer', alive', phase', renewal', givenUp')
    BY <1>0, <2>1, <2>3 DEF Durable
  <2>6. pending' = {} => \A t \in writing' : Promises(t, offer', alive', phase', renewal', givenUp')
    <3>1. pending' = {} => pending = {}
      BY <2>1
    <3> QED
      BY <1>0, <2>1, <2>3, <3>1 DEF Durable
  <2>7. up' => Covers(leases', told', phase', givenUp') /\ Promises(leases', offer', alive', phase', renewal', givenUp')
    BY <1>0, <1>l, <2>1, <2>2, <2>3
  <2> QED
    BY <2>4, <2>5, <2>6, <2>7 DEF Durable
<1>16. CASE UNCHANGED vars
  BY <1>g, <1>s, <1>16, DurableSame DEF vars, storeVars, acquireVars, clientVars, hostVars
<1> QED
  BY <1>1, <1>2, <1>3, <1>4, <1>5, <1>6, <1>7, <1>8, <1>9, <1>10, <1>11, <1>12, <1>13, <1>14,
     <1>15, <1>16 DEF Next, AcquireStep, RenewStep, StoreStep

\* A store or a file that failed is not forgotten.
LEMMA IntactStep == intact' /\ [Next]_vars => intact
BY DEF Next, AcquireStep, RenewStep, StoreStep, Request, AcquirePrune, AcquireSample, AcquireInsert,
   AcquireWait, WaitTimer, RenewPrune, RenewSet, Release, ReleaseFails, ClientDies, ReleaseHolder,
   WriteBegin, WriteEnd, WriteFails, DaemonStops, DaemonStarts, DaemonStartsBlank, Tick, vars, hostVars

\* What clients believe stays backed by the file: the inductive invariant holds.
LEMMA BeliefCorrect == Spec => []BeliefInv
<1>1. Init => BeliefInv
  BY LeaseInit, BeliefInit DEF BeliefInv
<1>2. BeliefInv /\ [Next]_vars => BeliefInv'
  BY LeaseInvStep, QuietStep, LiveBeliefStep, DurableStep, IntactStep DEF BeliefInv, LeaseInv
<1> QED
  BY <1>1, <1>2, PTL DEF Spec

\* Two clients never both believe in an unexpired lease of one resource, with any
\* number of daemons replaced between the grants, as long as the store works and
\* neither's Worker was given up while the client lived.
THEOREM BelieversAreExclusive == Spec => []OneBeliever
<1>1. BeliefInv => OneBeliever
  <2> SUFFICES ASSUME BeliefInv, intact, NEW r \in Requests, NEW s \in Requests,
                      told[r] > 0, told[s] > 0, phase[r] = "granted", phase[s] = "granted",
                      Resource[r] = Resource[s], r \notin givenUp, s \notin givenUp
               PROVE  r = s
    BY DEF OneBeliever
  <2>1. file[r] >= told[r] /\ file[s] >= told[s]
    BY DEF BeliefInv, Durable, Covers
  <2>2. file \in Table /\ told \in [Requests -> 0 .. TTL]
    BY DEF BeliefInv, LeaseInv, TypeOK
  <2>3. file[r] # NoLease /\ file[s] # NoLease
    BY <2>1, <2>2, LeaseConstants DEF Table, NoLease
  <2> QED
    BY <2>3 DEF BeliefInv, LeaseInv, AllExclusive, Exclusive, Held
<1> QED
  BY <1>1, BeliefCorrect, PTL

\* A lease with time left is not taken from a living client: by no pruning, no
\* other request and no renewal, only by its release, by the daemon's end, or by
\* a daemon that gives its Worker up.
THEOREM LeasesAreNotEvicted == Spec => NotEvicted
<1> DEFINE Kept == \A r \in Requests :
         leases[r] > 0 /\ leases'[r] = NoLease /\ alive[r] =>
            phase'[r] = "done" \/ ~up' \/ r \in givenUp'
<1>1. BeliefInv /\ [Next]_vars => [Kept]_vars
  <2> SUFFICES ASSUME TypeOK, Quiet, [Next]_vars, NEW r \in Requests,
                      leases[r] > 0, leases'[r] = NoLease, alive[r]
               PROVE  phase'[r] = "done" \/ ~up' \/ r \in givenUp'
    BY DEF BeliefInv, LeaseInv
  <2>0. /\ leases \in Table /\ leases' # leases /\ phase \in [Requests -> Phases]
        /\ leases[r] \in NoLease .. TTL /\ NoLease = -1 /\ ~(NoLease > 0) /\ leases[r] # NoLease
    BY LeaseConstants DEF TypeOK, Table, NoLease
  <2>1. Unexpired(leases)[r] # NoLease
    BY <2>0, LeaseConstants DEF Unexpired
  <2>2. ASSUME NEW next, NEW a, NEW b, pruneExpired(next, a, b) PROVE FALSE
    BY <2>0, <2>1, <2>2 DEF pruneExpired, Change
  <2>3. ASSUME NEW s \in Requests, AcquireInsert(s) \/ RenewSet(s) PROVE FALSE
    <3>1. leases' = [leases EXCEPT ![s] = TTL]
      BY <2>0, <2>3 DEF AcquireInsert, RenewSet, Change
    <3> QED
      BY <2>0, <3>1, LeaseConstants DEF Table
  <2>4. ASSUME NEW s \in Requests, Release(s) PROVE phase'[r] = "done"
    <3>1. leases' = [leases EXCEPT ![s] = NoLease] /\ phase' = [phase EXCEPT ![s] = "done"]
      BY <2>0, <2>4 DEF Release, Change
    <3>2. r = s
      BY <2>0, <3>1 DEF Table
    <3> QED
      BY <2>0, <3>1, <3>2
  <2>5. ASSUME NEW s \in Requests, ReleaseHolder(s) PROVE r \in givenUp'
    <3>1. leases' = [leases EXCEPT ![s] = NoLease] /\ (alive[s] => s \in givenUp')
      BY <2>5 DEF ReleaseHolder, Change, GivesUp
    <3> QED
      BY <2>0, <3>1 DEF Table
  <2>6. CASE Tick
    <3>1. leases'[r] = Less(leases[r])
      BY <2>6 DEF Tick, Aged
    <3>2. Less(leases[r]) >= 0
      BY <2>0, LeaseConstants DEF Less
    <3> QED
      BY <2>0, <3>1, <3>2
  <2>7. CASE DaemonStarts
    <3>1. leases[r] = NoLease
      BY <2>7 DEF DaemonStarts, Quiet, Empty
    <3> QED
      BY <2>0, <3>1
  <2>8. CASE DaemonStops
    BY <2>8 DEF DaemonStops
  <2> QED
    BY <2>0, <2>2, <2>3, <2>4, <2>5, <2>6, <2>7, <2>8 DEF Next, AcquireStep, RenewStep, StoreStep,
       Request, AcquirePrune, AcquireSample, AcquireWait, WaitTimer, RenewPrune, ReleaseFails,
       ClientDies, WriteBegin, WriteEnd, WriteFails, DaemonStartsBlank, vars
<1>2. NotEvicted <=> [][Kept]_vars
  BY DEF NotEvicted
<1> QED
  BY <1>1, <1>2, BeliefCorrect, PTL DEF Spec
=============================================================================

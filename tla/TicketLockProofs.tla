------------------------- MODULE TicketLockProofs -------------------------
(* Theorems about the local ticket lock, for any number of processes,      *)
(* actors and tickets, any lease lengths and any bound on the clock.       *)
EXTENDS TicketLock, TLAPS

(* What the guarded sections see and write is a lock record or nothing. *)
LEMMA RecordTypes ==
  ASSUME TypeOK,
         NEW a \in Actor, NEW t \in Ticket, NEW d \in Duration
  PROVE  /\ NewLock(a, t, d) \in LockRecord
         /\ lock # NoLock => /\ lock \in LockRecord
                             /\ Renewed(d) \in LockRecord
                             /\ Extended(d) \in LockRecord
         /\ NoLock \notin LockRecord
<1>1. now \in Nat /\ d \in Nat \ {0} /\ now + d \in Nat
  BY ConstantsAssumption DEF TypeOK
<1>2. lock # NoLock => lock \in LockRecord
  BY DEF TypeOK
<1>3. NewLock(a, t, d) \in LockRecord
  BY <1>1 DEF NewLock, LockRecord
<1>4. ASSUME lock # NoLock
      PROVE  Renewed(d) \in LockRecord /\ Extended(d) \in LockRecord
  <2>1. Renewed(d) \in LockRecord
    <3>1. lock.fencing + 1 \in Nat \ {0}
      BY <1>2, <1>4 DEF LockRecord
    <3>2. [lock EXCEPT !.expires = now + d] \in LockRecord
      BY <1>1, <1>2, <1>4 DEF LockRecord
    <3>3. Renewed(d) = [[lock EXCEPT !.expires = now + d]
                          EXCEPT !.fencing = lock.fencing + 1]
      BY <1>2, <1>4 DEF Renewed, LockRecord
    <3>4. QED
      BY <3>1, <3>2, <3>3 DEF LockRecord
  <2>2. Extended(d) \in LockRecord
    BY <1>1, <1>2, <1>4 DEF Extended, LockRecord
  <2>3. QED
    BY <2>1, <2>2
<1>5. QED
  BY <1>2, <1>3, <1>4, NullAssumption

(* What a renewal writes is a record of the owner it acts for. *)
LEMMA RenewalTyped ==
  ASSUME TypeOK, NEW p \in Process, NEW d \in Duration, Renew(p, d)
  PROVE  /\ renewal[p].owner \in Actor
         /\ lock' \in LockRecord
         /\ lock'.owner = renewal[p].owner
<1>1. renewal[p].owner \in Actor /\ renewal[p].ticket \in Ticket
  BY DEF Renew, TypeOK, PendingRenewal
<1>2. CASE Existing = NoLock
  <2>1. lock' = NewLock(renewal[p].owner, renewal[p].ticket, d)
    BY <1>2 DEF Renew, RenewedFor
  <2>2. QED
    BY <1>1, <2>1, RecordTypes DEF NewLock
<1>3. CASE Existing # NoLock
  <2>1. lock # NoLock /\ lock.owner = renewal[p].owner /\ lock' = Renewed(d)
    BY <1>3 DEF Renew, RenewedFor, Existing
  <2>2. lock \in LockRecord /\ lock' \in LockRecord
    BY <1>1, <2>1, RecordTypes
  <2>3. QED
    BY <1>1, <2>1, <2>2 DEF Renewed, LockRecord
<1>4. QED
  BY <1>2, <1>3

(* TypeOK is an invariant: every lock file the guarded sections write is a *)
(* complete record with a positive fencing token.                          *)
THEOREM TypeCorrect == Spec => []TypeOK
<1>1. Init => TypeOK
  BY DEF Init, TypeOK, Fate
<1>2. TypeOK /\ [Next]_vars => TypeOK'
  <2> SUFFICES ASSUME TypeOK, [Next]_vars
               PROVE  TypeOK'
    OBVIOUS
  <2>1. ASSUME NEW p \in Process, NEW t \in Ticket, NEW d \in Duration,
               AcquireNew(p, t, d)
        PROVE  TypeOK'
    <3>1. lock' \in LockRecord /\ ActorOf[p] \in Actor
      BY <2>1, RecordTypes, ConstantsAssumption DEF AcquireNew
    <3>2. QED
      BY <2>1, <3>1 DEF AcquireNew, TypeOK, Fate
  <2>2. ASSUME NEW p \in Process, NEW t \in Ticket, NEW d \in Duration,
               AcquireRenew(p, t, d)
        PROVE  TypeOK'
    <3>1. lock' \in LockRecord /\ ActorOf[p] \in Actor
      BY <2>2, RecordTypes, ConstantsAssumption DEF AcquireRenew, Existing
    <3>2. QED
      BY <2>2, <3>1 DEF AcquireRenew, TypeOK, Fate
  <2>3. ASSUME NEW p \in Process, NEW o \in Actor \cup {NoOwner},
               NEW d \in Duration, HeartbeatLock(p, o, d)
        PROVE  TypeOK'
    <3>1. lock # NoLock
      BY <2>3 DEF HeartbeatLock, Existing
    <3>2. lock' \in LockRecord /\ ActorOf[p] \in Actor
      <4>0. ActorOf[p] \in Actor
        BY ConstantsAssumption
      <4>1. PICK t \in Ticket : TRUE
        BY <3>1 DEF TypeOK, LockRecord
      <4>2. QED
        BY <2>3, <3>1, <4>0, <4>1, RecordTypes
        DEF HeartbeatLock
    <3>3. QED
      BY <2>3, <3>2 DEF HeartbeatLock, TypeOK, Fate
  <2>4. ASSUME NEW p \in Process,
               GuardedUnlink(p) \/ ReadExpired(p) \/ UnlinkStale(p)
        PROVE  TypeOK'
    BY <2>4 DEF GuardedUnlink, ReadExpired, UnlinkStale, Lose, Fate, TypeOK
  <2>14. ASSUME NEW p \in Process, NEW t \in Ticket, ReleaseRemote(p, t)
         PROVE  TypeOK'
    BY <2>14 DEF ReleaseRemote, TypeOK, PendingRelease
  <2>15. ASSUME NEW p \in Process, NEW o \in Actor, NEW t \in Ticket,
                NEW e \in LeaseEnd, NEW f \in LeaseToken, CheckSync(p, o, t, e, f)
         PROVE  TypeOK'
    <3>1. sync' \in [Process -> PendingSync \cup {NoRelease}]
      <4>1. [ticket |-> t, owner |-> o, expires |-> e, fencing |-> f] \in LockRecord
        BY ConstantsAssumption DEF LockRecord
      <4>2. Existing \in LockRecord \cup {NoLock}
        BY DEF Existing, TypeOK
      <4>3. QED
        BY <2>15, <4>1, <4>2 DEF CheckSync, TypeOK, PendingSync
    <3>2. QED
      BY <2>15, <3>1 DEF CheckSync, TypeOK
  <2>16. ASSUME NEW p \in Process, WriteLock(p)
         PROVE  TypeOK'
    <3>1. lock' \in LockRecord /\ lock' = sync[p].lease /\ ActorOf[p] \in Actor
      BY <2>16, ConstantsAssumption DEF WriteLock, TypeOK, PendingSync
    <3>2. CASE ActorOf[p] = lock'.owner
      BY <2>16, <3>1, <3>2 DEF WriteLock, TypeOK, Fate
    <3>3. CASE ActorOf[p] # lock'.owner
      BY <2>16, <3>1, <3>3 DEF WriteLock, Lose, TypeOK, Fate
    <3>4. QED
      BY <3>2, <3>3
  <2>5. ASSUME NEW p \in Process, NEW o \in Actor \cup {NoOwner},
               CheckRelease(p, o)
        PROVE  TypeOK'
    <3>1. lock.ticket \in Ticket
      BY <2>5 DEF CheckRelease, Existing, TypeOK, LockRecord
    <3>2. release' \in [Process -> PendingRelease \cup {NoRelease}]
      BY <2>5, <3>1 DEF CheckRelease, TypeOK, PendingRelease
    <3>3. QED
      BY <2>5, <3>2 DEF CheckRelease, TypeOK
  <2>6. ASSUME NEW p \in Process, FinishSession(p)
        PROVE  TypeOK'
    <3>1. grant[ActorOf[p]].ticket \in Ticket
      BY <2>6, ConstantsAssumption DEF FinishSession, TypeOK, LockRecord
    <3>2. release' \in [Process -> PendingRelease \cup {NoRelease}]
      BY <2>6, <3>1 DEF FinishSession, TypeOK, PendingRelease
    <3>3. QED
      BY <2>6, <3>2 DEF FinishSession, TypeOK
  <2>7. ASSUME NEW p \in Process, ReleaseLock(p)
        PROVE  TypeOK'
    BY <2>7 DEF ReleaseLock, Lose, Fate, TypeOK
  <2>12. ASSUME NEW p \in Process, CheckRenewal(p)
         PROVE  TypeOK'
    <3>1. lock.ticket \in Ticket /\ lock.owner \in Actor
      BY <2>12 DEF CheckRenewal, Existing, TypeOK, LockRecord
    <3>2. renewal' \in [Process -> PendingRenewal \cup {NoRelease}]
      BY <2>12, <3>1 DEF CheckRenewal, TypeOK, PendingRenewal
    <3>3. QED
      BY <2>12, <3>2 DEF CheckRenewal, TypeOK
  <2>13. ASSUME NEW p \in Process, NEW d \in Duration, Renew(p, d)
         PROVE  TypeOK'
    <3>1. lock' \in LockRecord /\ ActorOf[p] \in Actor
      BY <2>13, RenewalTyped, ConstantsAssumption
    <3>2. CASE ActorOf[p] = renewal[p].owner
      BY <2>13, <3>1, <3>2 DEF Renew, TypeOK, Fate
    <3>3. CASE ActorOf[p] # renewal[p].owner
      BY <2>13, <3>1, <3>3 DEF Renew, Lose, TypeOK, Fate
    <3>4. QED
      BY <3>2, <3>3
  <2>8. ASSUME NEW p \in Process, Crash(p)
        PROVE  TypeOK'
    BY <2>8 DEF Crash, TypeOK
  <2>9. CASE Tick
    BY <2>9 DEF Tick, TypeOK
  <2>10. CASE UNCHANGED vars
    BY <2>10 DEF vars, TypeOK
  <2>11. QED
    BY <2>1, <2>2, <2>3, <2>4, <2>5, <2>6, <2>7, <2>8, <2>9, <2>10,
       <2>12, <2>13, <2>14, <2>15, <2>16 DEF Next
<1>3. QED
  BY <1>1, <1>2, PTL DEF Spec

-----------------------------------------------------------------------------
(* The inductive invariant behind mutual exclusion. *)
IInv == TypeOK /\ GrantOnDisk

(* While GrantOnDisk holds, an actor with a kept live grant is the owner   *)
(* of an unexpired lock, hence among the Holders.                          *)
LEMMA KeptGrantHolds ==
  ASSUME IInv, NEW a \in Actor, Live(a), lost[a] = "kept"
  PROVE  /\ Existing = lock /\ Existing # NoLock
         /\ lock.owner = a /\ lock.ticket = grant[a].ticket
         /\ lock.expires >= grant[a].expires
         /\ a \in Holders
<1>1. lock # NoLock /\ lock.owner = a /\ lock.ticket = grant[a].ticket
      /\ lock.expires >= grant[a].expires
  BY DEF IInv, GrantOnDisk
<1>2. grant[a] \in LockRecord /\ lock \in LockRecord /\ now \in Nat
  BY <1>1 DEF IInv, TypeOK, Live
<1>3. ~IsExpired(lock)
  BY <1>1, <1>2 DEF Live, IsExpired, LockRecord
<1>4. QED
  BY <1>1, <1>3 DEF Existing, Holders

(* An acquisition, renewal or heartbeat of the owner: the new record is    *)
(* both on disk and the owner's grant; no other actor has a kept one.      *)
LEMMA OwnWriteKeepsGrant ==
  ASSUME IInv, NEW a \in Actor,
         \/ Existing = NoLock
         \/ Existing # NoLock /\ lock.owner = a,
         lock' \in LockRecord, lock'.owner = a, now' = now,
         grant' = [grant EXCEPT ![a] = lock'],
         lost' = [lost EXCEPT ![a] = "kept"]
  PROVE  GrantOnDisk'
<1> SUFFICES ASSUME NEW b \in Actor, Live(b)', lost'[b] = "kept"
             PROVE  /\ lock' # NoLock /\ lock'.owner = b
                    /\ lock'.ticket = grant'[b].ticket
                    /\ lock'.expires >= grant'[b].expires
  BY DEF GrantOnDisk
<1>1. CASE b = a
  <2>1. grant'[b] = lock' /\ lock' # NoLock
    BY <1>1, NullAssumption DEF IInv, TypeOK
  <2>2. lock'.expires \in Nat
    BY DEF LockRecord
  <2>3. QED
    BY <1>1, <2>1, <2>2
<1>2. CASE b # a
  <2>1. grant'[b] = grant[b] /\ lost'[b] = lost[b]
    BY <1>2 DEF IInv, TypeOK
  <2>2. Live(b) /\ lost[b] = "kept"
    BY <2>1 DEF Live, IsExpired
  <2>3. Existing # NoLock /\ lock.owner = b
    BY <2>2, KeptGrantHolds
  <2>4. QED
    BY <1>2, <2>3
<1>3. QED
  BY <1>1, <1>2

(* A step that leaves the lock file, the grants and their fate alone, at   *)
(* the same or a later time, keeps GrantOnDisk.                            *)
LEMMA QuietStep ==
  ASSUME IInv, lock' = lock, grant' = grant, lost' = lost,
         now' \in Nat, now' >= now
  PROVE  GrantOnDisk'
<1> SUFFICES ASSUME NEW b \in Actor, Live(b)', lost'[b] = "kept"
             PROVE  Live(b)
  BY DEF IInv, GrantOnDisk
<1>1. grant[b] # NoLock /\ ~(now' >= grant[b].expires)
  BY DEF Live, IsExpired
<1>2. grant[b] \in LockRecord /\ now \in Nat
  BY <1>1 DEF IInv, TypeOK
<1>3. QED
  BY <1>1, <1>2 DEF Live, IsExpired, LockRecord

(* The copy of a distributed lease: its owner, if it asked for it, is told *)
(* what the file says; every other holder it deprives is recorded.         *)
LEMMA CopyKeepsGrants ==
  ASSUME IInv, NEW p \in Process, WriteLock(p)
  PROVE  GrantOnDisk'
<1> DEFINE a == ActorOf[p]
           l == sync[p].lease
<1>1. /\ a \in Actor /\ l \in LockRecord /\ lock' = l /\ now' = now
      /\ l # NoLock /\ l.expires \in Nat
  BY ConstantsAssumption, NullAssumption DEF WriteLock, IInv, TypeOK, PendingSync, LockRecord
<1> SUFFICES ASSUME NEW b \in Actor, Live(b)', lost'[b] = "kept"
             PROVE  /\ l.owner = b /\ l.ticket = grant'[b].ticket
                    /\ l.expires >= grant'[b].expires
  BY <1>1 DEF GrantOnDisk
<1>2. CASE a = l.owner /\ b = a
  <2>1. grant'[b] = l
    BY <1>1, <1>2 DEF WriteLock, IInv, TypeOK
  <2>2. QED
    BY <1>1, <1>2, <2>1
<1>3. CASE ~(a = l.owner /\ b = a)
  <2>1. grant'[b] = grant[b]
    BY <1>1, <1>3 DEF WriteLock, IInv, TypeOK
  <2>2. Live(b)
    BY <1>1, <2>1 DEF Live, IsExpired
  <2>3. b \notin CutShort(l) /\ lost[b] = "kept"
    <3>1. CASE a = l.owner
      BY <1>1, <1>3, <3>1 DEF WriteLock
    <3>2. CASE a # l.owner
      BY <1>1, <3>2 DEF WriteLock, Lose
    <3>3. QED
      BY <3>1, <3>2
  <2>4. b \in Holders
    BY <2>2, <2>3, KeptGrantHolds
  <2>5. l.owner = b /\ l.ticket = grant[b].ticket /\ ~(l.expires < grant[b].expires)
    BY <2>3, <2>4 DEF CutShort
  <2>6. grant[b].expires \in Nat
    BY <2>2 DEF Live, IInv, TypeOK, LockRecord
  <2>7. QED
    BY <1>1, <2>1, <2>5, <2>6
<1>4. QED
  BY <1>2, <1>3

(* GrantOnDisk is inductive: only a foreign release or renewal, a stale    *)
(* unlink or the copy of a distributed lease separates a live grant from   *)
(* the lock file, and all are recorded.                                    *)
LEMMA GrantOnDiskStep == IInv /\ [Next]_vars => GrantOnDisk'
<1> SUFFICES ASSUME IInv, [Next]_vars
             PROVE  GrantOnDisk'
  OBVIOUS
<1>1. ASSUME NEW p \in Process, NEW t \in Ticket, NEW d \in Duration,
             AcquireNew(p, t, d)
      PROVE  GrantOnDisk'
  <2>1. lock' \in LockRecord /\ lock'.owner = ActorOf[p]
        /\ ActorOf[p] \in Actor
    BY <1>1, RecordTypes, ConstantsAssumption DEF AcquireNew, NewLock, IInv
  <2>2. QED
    BY <1>1, <2>1, OwnWriteKeepsGrant DEF AcquireNew, FreeFor
<1>2. ASSUME NEW p \in Process, NEW t \in Ticket, NEW d \in Duration,
             AcquireRenew(p, t, d)
      PROVE  GrantOnDisk'
  <2>1. lock \in LockRecord /\ lock' \in LockRecord /\ ActorOf[p] \in Actor
    BY <1>2, RecordTypes, ConstantsAssumption
    DEF AcquireRenew, Existing, IInv
  <2>2. lock'.owner = ActorOf[p]
    BY <1>2, <2>1 DEF AcquireRenew, Renewed, LockRecord
  <2>3. QED
    BY <1>2, <2>1, <2>2, OwnWriteKeepsGrant DEF AcquireRenew
<1>3. ASSUME NEW p \in Process, NEW o \in Actor \cup {NoOwner},
             NEW d \in Duration, HeartbeatLock(p, o, d)
      PROVE  GrantOnDisk'
  <2>1. lock # NoLock /\ Existing # NoLock
    BY <1>3 DEF HeartbeatLock, Existing
  <2>2. lock \in LockRecord /\ lock' \in LockRecord /\ ActorOf[p] \in Actor
    <3>0. ActorOf[p] \in Actor
      BY ConstantsAssumption
    <3>1. PICK t \in Ticket : TRUE
      BY <2>1 DEF IInv, TypeOK, LockRecord
    <3>2. QED
      BY <1>3, <2>1, <3>0, <3>1, RecordTypes
      DEF HeartbeatLock, IInv
  <2>3. /\ lock'.owner = lock.owner /\ lock'.ticket = lock.ticket
        /\ lock'.expires >= lock.expires
    <3>1. now + d \in Nat
      BY ConstantsAssumption DEF IInv, TypeOK
    <3>2. QED
      BY <1>3, <2>2, <3>1 DEF HeartbeatLock, Extended, LockRecord
  <2>4. CASE ActorOf[p] = lock.owner
    BY <1>3, <2>1, <2>2, <2>3, <2>4, OwnWriteKeepsGrant DEF HeartbeatLock
  <2>5. CASE ActorOf[p] # lock.owner
    <3>1. now' = now /\ grant' = grant /\ lost' = lost
      BY <1>3, <2>5 DEF HeartbeatLock
    <3> SUFFICES ASSUME NEW b \in Actor, Live(b)', lost'[b] = "kept"
                 PROVE  /\ lock' # NoLock /\ lock'.owner = b
                        /\ lock'.ticket = grant'[b].ticket
                        /\ lock'.expires >= grant'[b].expires
      BY DEF GrantOnDisk
    <3>2. Live(b) /\ lost[b] = "kept"
      BY <3>1 DEF Live, IsExpired
    <3>3. /\ lock.owner = b /\ lock.ticket = grant[b].ticket
          /\ lock.expires >= grant[b].expires
      BY <3>2, KeptGrantHolds
    <3>4. /\ lock.expires \in Nat /\ lock'.expires \in Nat
          /\ grant[b].expires \in Nat
      BY <2>2, <3>2 DEF IInv, TypeOK, LockRecord, Live
    <3>5. QED
      BY <2>2, <2>3, <3>1, <3>3, <3>4, NullAssumption
  <2>6. QED
    BY <2>4, <2>5
<1>4. ASSUME NEW p \in Process, GuardedUnlink(p)
      PROVE  GrantOnDisk'
  <2> SUFFICES ASSUME NEW b \in Actor, Live(b)', lost'[b] = "kept"
               PROVE  FALSE
    BY DEF GrantOnDisk
  <2>1. Live(b) /\ lost[b] = "kept"
    BY <1>4 DEF GuardedUnlink, Live, IsExpired
  <2>2. QED
    BY <1>4, <2>1, KeptGrantHolds DEF GuardedUnlink
<1>5. ASSUME NEW p \in Process, UnlinkStale(p)
      PROVE  GrantOnDisk'
  <2> SUFFICES ASSUME NEW b \in Actor, Live(b)', lost'[b] = "kept"
               PROVE  FALSE
    BY DEF GrantOnDisk
  <2>1. Live(b) /\ lost[b] = "kept" /\ b \notin Holders
    BY <1>5 DEF UnlinkStale, Live, IsExpired, Lose
  <2>2. QED
    BY <2>1, KeptGrantHolds
<1>6. ASSUME NEW p \in Process, ReleaseLock(p)
      PROVE  GrantOnDisk'
  <2> DEFINE a == ActorOf[p]
             t == release[p].ticket
             removes == Existing = NoLock \/ lock.ticket = t
  <2>1. CASE removes
    <3> SUFFICES ASSUME NEW b \in Actor, Live(b)', lost'[b] = "kept"
                 PROVE  FALSE
      BY DEF GrantOnDisk
    <3>1. grant'[b] = grant[b]
      BY <1>6 DEF ReleaseLock, Live, IInv, TypeOK
    <3>2. Live(b)
      BY <1>6, <3>1 DEF ReleaseLock, Live, IsExpired
    <3>3. lost[b] = "kept" /\ b \notin Holders \ {a}
      BY <1>6, <2>1 DEF ReleaseLock, Lose
    <3>4. b = a /\ Existing # NoLock /\ lock.ticket = grant[b].ticket
      BY <3>2, <3>3, KeptGrantHolds
    <3>5. grant[a] # NoLock /\ grant[a].ticket = t
      BY <2>1, <3>2, <3>4 DEF Live
    <3>6. grant'[b] = NoLock
      BY <1>6, <3>4, <3>5 DEF ReleaseLock, IInv, TypeOK
    <3>7. QED
      BY <3>6 DEF Live
  <2>2. CASE ~removes
    <3>1. lock' = lock /\ lost' = lost /\ now' = now
      BY <1>6, <2>2 DEF ReleaseLock
    <3> SUFFICES ASSUME NEW b \in Actor, Live(b)', lost'[b] = "kept"
                 PROVE  Live(b) /\ grant'[b] = grant[b]
      BY <3>1 DEF IInv, GrantOnDisk
    <3>2. grant'[b] = grant[b]
      BY <1>6 DEF ReleaseLock, Live, IInv, TypeOK
    <3>3. QED
      BY <3>1, <3>2 DEF Live, IsExpired
  <2>3. QED
    BY <2>1, <2>2
<1>11. ASSUME NEW p \in Process, NEW d \in Duration, Renew(p, d)
       PROVE  GrantOnDisk'
  <2> DEFINE o == renewal[p].owner
  <2>1. o \in Actor /\ lock' \in LockRecord /\ lock'.owner = o /\ now' = now
    BY <1>11, RenewalTyped DEF Renew, IInv
  <2>2. CASE ActorOf[p] = o
    <3>1. grant' = [grant EXCEPT ![o] = lock'] /\ lost' = [lost EXCEPT ![o] = "kept"]
      BY <1>11, <2>2 DEF Renew
    <3>2. Existing = NoLock \/ (Existing # NoLock /\ lock.owner = o)
      BY <1>11 DEF Renew
    <3>3. QED
      BY <2>1, <3>1, <3>2, OwnWriteKeepsGrant
  <2>3. CASE ActorOf[p] # o
    <3>1. /\ grant' = grant
          /\ lost' = [b \in Actor |->
               IF b \in {c \in Holders : now + d < grant[c].expires} THEN "operator" ELSE lost[b]]
      BY <1>11, <2>3 DEF Renew, Lose
    <3> SUFFICES ASSUME NEW b \in Actor, Live(b)', lost'[b] = "kept"
                 PROVE  /\ lock' # NoLock /\ lock'.owner = b
                        /\ lock'.ticket = grant'[b].ticket
                        /\ lock'.expires >= grant'[b].expires
      BY DEF GrantOnDisk
    <3>2. Live(b) /\ lost[b] = "kept" /\ ~(b \in Holders /\ now + d < grant[b].expires)
      BY <2>1, <3>1 DEF Live, IsExpired
    <3>3. /\ Existing # NoLock /\ lock.owner = b /\ lock.ticket = grant[b].ticket
          /\ b \in Holders
      BY <3>2, KeptGrantHolds
    <3>4. lock.owner = o /\ lock' = Renewed(d) /\ lock \in LockRecord
      BY <1>11, <3>3 DEF Renew, RenewedFor, Existing, IInv, TypeOK
    <3>5. lock'.ticket = lock.ticket /\ lock'.expires = now + d
      BY <3>4 DEF Renewed, LockRecord
    <3>6. now + d \in Nat /\ grant[b].expires \in Nat
      BY <3>2, ConstantsAssumption DEF IInv, TypeOK, LockRecord, Live
    <3>7. lock' # NoLock /\ lock'.owner = b /\ lock'.ticket = grant'[b].ticket
      BY <2>1, <3>1, <3>3, <3>4, <3>5, NullAssumption
    <3>8. lock'.expires >= grant'[b].expires
      <4>1. ~(now + d < grant[b].expires)
        BY <3>2, <3>3
      <4>2. QED
        BY <4>1, <3>1, <3>5, <3>6
    <3>9. QED
      BY <3>7, <3>8
  <2>4. QED
    BY <2>2, <2>3
<1>12. ASSUME NEW p \in Process, WriteLock(p)
       PROVE  GrantOnDisk'
  BY <1>12, CopyKeepsGrants
<1>7. ASSUME NEW p \in Process, NEW o \in Actor \cup {NoOwner},
             ReadExpired(p) \/ CheckRelease(p, o) \/ CheckRenewal(p)
             \/ FinishSession(p) \/ Crash(p)
      PROVE  GrantOnDisk'
  <2>1. now \in Nat
    BY DEF IInv, TypeOK
  <2>2. QED
    BY <1>7, <2>1, QuietStep
    DEF ReadExpired, CheckRelease, CheckRenewal, FinishSession, Crash
<1>14. ASSUME NEW p \in Process, NEW t \in Ticket, ReleaseRemote(p, t)
       PROVE  GrantOnDisk'
  <2>1. now \in Nat
    BY DEF IInv, TypeOK
  <2>2. QED
    BY <1>14, <2>1, QuietStep DEF ReleaseRemote
<1>13. ASSUME NEW p \in Process, NEW o \in Actor, NEW t \in Ticket,
              NEW e \in LeaseEnd, NEW f \in LeaseToken, CheckSync(p, o, t, e, f)
       PROVE  GrantOnDisk'
  <2>1. now \in Nat
    BY DEF IInv, TypeOK
  <2>2. QED
    BY <1>13, <2>1, QuietStep DEF CheckSync
<1>8. CASE Tick
  <2>1. now' \in Nat /\ now' >= now
    BY <1>8 DEF Tick, IInv, TypeOK
  <2>2. QED
    BY <1>8, <2>1, QuietStep DEF Tick
<1>9. CASE UNCHANGED vars
  <2>1. now \in Nat /\ now >= now
    BY DEF IInv, TypeOK
  <2>2. QED
    BY <1>9, <2>1, QuietStep DEF vars
<1>10. QED
  BY <1>1, <1>2, <1>3, <1>4, <1>5, <1>6, <1>7, <1>8, <1>9, <1>11, <1>12,
     <1>13, <1>14 DEF Next

(* GrantOnDisk is an invariant of the specification. *)
THEOREM GrantsMatchLockFile == Spec => []GrantOnDisk
<1>1. Init => IInv
  BY DEF Init, IInv, TypeOK, GrantOnDisk, Live, Fate
<1>2. IInv /\ TypeOK' /\ [Next]_vars => IInv'
  BY GrantOnDiskStep DEF IInv
<1>3. IInv => GrantOnDisk
  BY DEF IInv
<1>4. QED
  BY <1>1, <1>2, <1>3, TypeCorrect, PTL DEF Spec

(* Mutual exclusion of the local lock: two actors hold live grants that no *)
(* unlink, foreign release, renewal in another's name or copy of a         *)
(* distributed lease took only if they are the same actor.                 *)
THEOREM MutualExclusion == Spec => []ExclusiveUnlessLost
<1>1. TypeOK /\ GrantOnDisk => ExclusiveUnlessLost
  BY KeptGrantHolds DEF IInv, ExclusiveUnlessLost
<1>2. QED
  BY <1>1, TypeCorrect, GrantsMatchLockFile, PTL

(* A lease about to be copied has passed its precheck: the lock it was     *)
(* checked against, if any, was of the same ticket and owner.              *)
SyncsChecked ==
  \A p \in Process :
    sync[p] # NoRelease /\ sync[p].existing # NoLock =>
      /\ sync[p].existing.ticket = sync[p].lease.ticket
      /\ sync[p].existing.owner = sync[p].lease.owner

LEMMA SyncsStayChecked == TypeOK /\ SyncsChecked /\ [Next]_vars => SyncsChecked'
<1> SUFFICES ASSUME TypeOK, SyncsChecked, [Next]_vars
             PROVE  SyncsChecked'
  OBVIOUS
<1>1. ASSUME NEW p \in Process, NEW o \in Actor, NEW t \in Ticket,
             NEW e \in LeaseEnd, NEW f \in LeaseToken, CheckSync(p, o, t, e, f)
      PROVE  SyncsChecked'
  <2> SUFFICES ASSUME NEW q \in Process, sync'[q] # NoRelease,
                      sync'[q].existing # NoLock
               PROVE  /\ sync'[q].existing.ticket = sync'[q].lease.ticket
                      /\ sync'[q].existing.owner = sync'[q].lease.owner
    BY DEF SyncsChecked
  <2>1. CASE q = p
    <3>1. sync'[q] = [lease |-> [ticket |-> t, owner |-> o, expires |-> e, fencing |-> f],
                      existing |-> Existing]
      BY <1>1, <2>1 DEF CheckSync, TypeOK
    <3>2. Existing # NoLock /\ Existing = lock /\ lock.ticket = t /\ lock.owner = o
      BY <1>1, <3>1 DEF CheckSync, Precheck, Existing
    <3>3. QED
      BY <3>1, <3>2
  <2>2. CASE q # p
    BY <1>1, <2>2 DEF CheckSync, TypeOK, SyncsChecked
  <2>3. QED
    BY <2>1, <2>2
<1>2. ASSUME NEW p \in Process, WriteLock(p) \/ Crash(p)
      PROVE  SyncsChecked'
  BY <1>2 DEF WriteLock, Crash, TypeOK, SyncsChecked
<1>3. ASSUME sync' = sync PROVE SyncsChecked'
  BY <1>3 DEF SyncsChecked
<1>4. QED
  BY <1>1, <1>2, <1>3
  DEF Next, vars, AcquireNew, AcquireRenew, HeartbeatLock, GuardedUnlink,
      ReadExpired, UnlinkStale, CheckRelease, ReleaseRemote, CheckRenewal, Renew,
      FinishSession, ReleaseLock, Tick

(* An unexpired lock passes to another owner or ticket only under the copy *)
(* of a distributed lease that was checked against an earlier lock file,   *)
(* and nothing else takes its token back or shortens it under one token.   *)
THEOREM LiveLockKeepsHands == Spec => NoHandoverWhileLive
<1>1. TypeOK /\ SyncsChecked /\ [Next]_vars => [HandoverStep]_vars
  <2> SUFFICES ASSUME TypeOK, SyncsChecked, [Next]_vars,
                      Existing # NoLock, lock' # NoLock
               PROVE  HandoverStep
    BY DEF HandoverStep
  <2>0. /\ lock \in LockRecord /\ now \in Nat
        /\ lock.fencing \in Nat /\ lock.expires \in Nat
    BY DEF Existing, TypeOK, LockRecord
  <2>1. ASSUME NEW p \in Process, NEW t \in Ticket, NEW d \in Duration,
               AcquireRenew(p, t, d)
        PROVE  HandoverStep
    BY <2>0, <2>1 DEF AcquireRenew, Renewed, HandoverStep, LockRecord
  <2>2. ASSUME NEW p \in Process, NEW o \in Actor \cup {NoOwner},
               NEW d \in Duration, HeartbeatLock(p, o, d)
        PROVE  HandoverStep
    <3>1. now + d \in Nat
      BY <2>0, ConstantsAssumption
    <3>2. QED
      BY <2>0, <2>2, <3>1
      DEF HeartbeatLock, Extended, HandoverStep, LockRecord
  <2>3. ASSUME lock' = lock PROVE HandoverStep
    BY <2>0, <2>3 DEF HandoverStep
  <2>5. ASSUME NEW p \in Process, NEW d \in Duration, Renew(p, d)
        PROVE  HandoverStep
    BY <2>0, <2>5 DEF Renew, RenewedFor, Renewed, HandoverStep, LockRecord
  <2>6. ASSUME NEW p \in Process, WriteLock(p)
        PROVE  HandoverStep
    <3>1. Copies(p)
      BY <2>6 DEF WriteLock, Copies, TypeOK
    <3>2. ASSUME sync[p].existing = lock
          PROVE  lock'.owner = lock.owner /\ lock'.ticket = lock.ticket
      BY <2>0, <2>6, <3>2, NullAssumption DEF SyncsChecked, WriteLock
    <3>3. QED
      BY <3>1, <3>2 DEF HandoverStep
  <2>4. QED
    BY <2>1, <2>2, <2>3, <2>5, <2>6
    DEF Next, vars, AcquireNew, FreeFor, GuardedUnlink, ReadExpired,
        UnlinkStale, CheckRelease, ReleaseRemote, CheckRenewal, CheckSync,
        FinishSession, ReleaseLock, Crash, Tick
<1>2. Init => SyncsChecked
  BY DEF Init, SyncsChecked
<1>3. QED
  BY <1>1, <1>2, SyncsStayChecked, TypeCorrect, PTL DEF Spec, NoHandoverWhileLive
=============================================================================

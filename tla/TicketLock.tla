---------------------------- MODULE TicketLock ----------------------------
(***************************************************************************)
(* The local ticket lock of exo/kernel/tickets.py: one JSON file,          *)
(* .exo/locks/ticket.lock.json, that every exo command of a checkout reads *)
(* and writes.  acquire_lock, heartbeat_lock and release_lock run under an *)
(* flock on a guard file and are atomic here.  load_lock, which nearly     *)
(* every command calls, takes no guard: it reads the file and, when the    *)
(* lock it read has expired, unlinks whatever file is there by then.  A    *)
(* --distributed command ends by copying the lease it has on the git       *)
(* remote (module GitLease) into the same file: _sync_local_lock looks at  *)
(* the file without the guard, and write_lock then overwrites it.          *)
(***************************************************************************)
EXTENDS Integers

CONSTANTS
  Process,     \* exo command processes (CLI calls, MCP server, hooks)
  Actor,       \* EXO_ACTOR values; several processes may share one
  ActorOf,     \* the actor each process runs as
  Ticket,      \* ticket ids
  Duration,    \* the lease lengths a command may ask for
  Leasing,     \* bound: the processes that run lease-renew or --distributed
  LeaseEnd,    \* when the leases on the remote may end
  LeaseToken,  \* the fencing tokens leases on the remote may have
  MaxTime,     \* bound: the clock stops here
  MaxFencing,  \* bound: fencing tokens stop here
  NoLock,      \* the lock file is absent
  NoOwner,     \* a command given no --owner
  NoRelease    \* no release, renewal or copying of a lease is under way

ASSUME ConstantsAssumption ==
  /\ ActorOf \in [Process -> Actor]
  /\ Duration \subseteq Nat \ {0}
  /\ LeaseEnd \subseteq Nat
  /\ LeaseToken \subseteq Nat \ {0}
  /\ MaxTime \in Nat
  /\ MaxFencing \in Nat \ {0}
  /\ NoOwner \notin Actor

VARIABLES
  now,     \* datetime.now(), shared by the processes of one machine
  lock,    \* the content of ticket.lock.json
  stale,   \* processes inside load_lock that read an expired lock
  release, \* the ticket a process is about to release, after its checks
  renewal, \* the lock a lease-renew is about to renew, after its checks
  sync,    \* the lease a process is about to copy into the file
  grant,   \* history: the last lock record a command returned to the actor
  lost     \* history: how the actor's live grant was removed, if it was

vars == <<now, lock, stale, release, renewal, sync, grant, lost>>

LockRecord == [ticket: Ticket, owner: Actor, expires: Nat,
               fencing: Nat \ {0}]

(* A release that has passed its checks: by an "operator" that names no    *)
(* --owner, or by a command that releases its own actor's ticket.          *)
PendingRelease == [ticket: Ticket, by: {"operator", "self"}]

(* A renewal that has found a lock, and the owner it will act for. *)
PendingRenewal == [ticket: Ticket, owner: Actor]

(* A lease about to be copied, and the unexpired lock that was on disk     *)
(* when _sync_local_lock looked.                                           *)
PendingSync == [lease: LockRecord, existing: LockRecord \cup {NoLock}]

(* How a grant can be lost while live: to an operator, who releases or     *)
(* shortens it, to a release by another actor, to a reader's unlink, or to *)
(* the copy of a distributed lease.                                        *)
Fate == {"kept", "operator", "release", "reader", "copy"}

ASSUME NullAssumption ==
  /\ NoLock \notin LockRecord
  /\ NoRelease \notin PendingRelease \cup PendingRenewal \cup PendingSync

TypeOK ==
  /\ now \in Nat
  /\ lock \in LockRecord \cup {NoLock}
  /\ stale \subseteq Process
  /\ release \in [Process -> PendingRelease \cup {NoRelease}]
  /\ renewal \in [Process -> PendingRenewal \cup {NoRelease}]
  /\ sync \in [Process -> PendingSync \cup {NoRelease}]
  /\ grant \in [Actor -> LockRecord \cup {NoLock}]
  /\ lost \in [Actor -> Fate]

Init ==
  /\ now = 0
  /\ lock = NoLock
  /\ stale = {}
  /\ release = [p \in Process |-> NoRelease]
  /\ renewal = [p \in Process |-> NoRelease]
  /\ sync = [p \in Process |-> NoRelease]
  /\ grant = [a \in Actor |-> NoLock]
  /\ lost = [a \in Actor |-> "kept"]

(* is_lock_expired: the instant of expiry itself counts as expired. *)
IsExpired(l) == now >= l.expires

(* _load_lock_from_path inside a guarded section: an expired lock is as    *)
(* good as absent, and its file is gone whatever the section does next.    *)
(* The mutant treats a lock in its last hour as expired.                   *)
ExistingMutant == IF lock # NoLock /\ now + 1 < lock.expires THEN lock ELSE NoLock
Existing == IF lock # NoLock /\ ~IsExpired(lock) THEN lock ELSE NoLock

(* The records acquire_lock and heartbeat_lock write.  A renewal sets the  *)
(* expiry from now, later or earlier than before; a heartbeat never        *)
(* shortens it and keeps the token.                                        *)
NewLockMutant(a, t, d) == [ticket |-> t, owner |-> a, expires |-> now + d, fencing |-> 0]
NewLock(a, t, d) == [ticket |-> t, owner |-> a, expires |-> now + d, fencing |-> 1]

Renewed(d) == [lock EXCEPT !.expires = now + d, !.fencing = @ + 1]

Extended(d) == [lock EXCEPT !.expires = IF now + d >= @ THEN now + d ELSE @]

(* The LOCK_HELD check; the mutant forgets a lock on another ticket. *)
FreeForMutant(t) == ~(Existing # NoLock /\ lock.ticket = t)
FreeFor(t) == Existing = NoLock

(* An actor was granted a lock that it has not released and whose expiry,  *)
(* as far as the actor was told, lies ahead.                               *)
Live(a) == grant[a] # NoLock /\ ~IsExpired(grant[a])

Idle(p) ==
  /\ p \notin stale
  /\ release[p] = NoRelease /\ renewal[p] = NoRelease /\ sync[p] = NoRelease

(* The actors that lose a live grant when the file is removed. *)
Holders == {a \in Actor : Live(a) /\ Existing # NoLock /\ lock.owner = a}

Lose(actors, cause) ==
  lost' = [a \in Actor |-> IF a \in actors THEN cause ELSE lost[a]]

-----------------------------------------------------------------------------
(* acquire_lock with no unexpired lock on disk: a new record, fencing 1. *)
AcquireNew(p, t, d) ==
  LET a == ActorOf[p]
  IN  /\ Idle(p)
      /\ FreeFor(t)
      /\ lock' = NewLock(a, t, d)
      /\ grant' = [grant EXCEPT ![a] = lock']
      /\ lost' = [lost EXCEPT ![a] = "kept"]
      /\ UNCHANGED <<now, stale, release, renewal, sync>>

(* acquire_lock by the owner of the same ticket's lock renews it.          *)
(* LOCK_HELD and LOCK_COLLISION change nothing.                            *)
AcquireRenew(p, t, d) ==
  LET a == ActorOf[p]
  IN  /\ Idle(p)
      /\ Existing # NoLock
      /\ lock.ticket = t
      /\ lock.owner = a
      /\ lock.fencing < MaxFencing
      /\ lock' = Renewed(d)
      /\ grant' = [grant EXCEPT ![a] = lock']
      /\ lost' = [lost EXCEPT ![a] = "kept"]
      /\ UNCHANGED <<now, stale, release, renewal, sync>>

(* heartbeat_lock.  Without an owner argument anybody's heartbeat extends  *)
(* anybody's lock.                                                         *)
HeartbeatLock(p, owner, d) ==
  LET a == ActorOf[p]
  IN  /\ Idle(p)
      /\ Existing # NoLock
      /\ owner \in {NoOwner, a} \cap {NoOwner, lock.owner}
      /\ lock' = Extended(d)
      /\ IF a = lock.owner
         THEN /\ grant' = [grant EXCEPT ![a] = lock']
              /\ lost' = [lost EXCEPT ![a] = "kept"]
         ELSE UNCHANGED <<grant, lost>>
      /\ UNCHANGED <<now, stale, release, renewal, sync>>

(* A guarded section that then fails (LOCK_REQUIRED) or returns False has  *)
(* already unlinked the expired file it found.                             *)
GuardedUnlink(p) ==
  /\ Idle(p)
  /\ lock # NoLock
  /\ Existing = NoLock
  /\ lock' = NoLock
  /\ UNCHANGED <<now, stale, release, renewal, sync, grant, lost>>

-----------------------------------------------------------------------------
(* load_lock, first half: read the file and find the lock expired. *)
ReadExpired(p) ==
  /\ Idle(p)
  /\ lock # NoLock
  /\ IsExpired(lock)
  /\ stale' = stale \cup {p}
  /\ UNCHANGED <<now, lock, release, renewal, sync, grant, lost>>

(* load_lock, second half: path.unlink(missing_ok=True), no second look. *)
UnlinkStale(p) ==
  /\ p \in stale
  /\ stale' = stale \ {p}
  /\ lock' = NoLock
  /\ Lose(Holders, "reader")
  /\ UNCHANGED <<now, release, renewal, sync, grant>>

-----------------------------------------------------------------------------
(* exo lease-release: load the lock outside the guard and compare ticket   *)
(* and, if --owner was given, owner; only then call release_lock.          *)
CheckRelease(p, owner) ==
  /\ Idle(p)
  /\ Existing # NoLock
  /\ owner \in {NoOwner, ActorOf[p]} \cap {NoOwner, lock.owner}
  /\ release' = [release EXCEPT ![p] =
       [ticket |-> lock.ticket,
        by |-> IF owner = NoOwner THEN "operator" ELSE "self"]]
  /\ UNCHANGED <<now, lock, stale, renewal, sync, grant, lost>>

(* session-finish, -suspend and -handoff release the session's ticket      *)
(* without any look at the owner, however long ago the session's own       *)
(* grant expired.                                                          *)
FinishSession(p) ==
  /\ Idle(p)
  /\ grant[ActorOf[p]] # NoLock
  /\ release' = [release EXCEPT ![p] =
       [ticket |-> grant[ActorOf[p]].ticket, by |-> "self"]]
  /\ UNCHANGED <<now, lock, stale, renewal, sync, grant, lost>>

(* lease-release --distributed and lease-cleanup release the local lock of *)
(* a ticket whose ref they deleted or did not find; they do not look at it.*)
ReleaseRemote(p, t) ==
  /\ p \in Leasing /\ Idle(p)
  /\ release' = [release EXCEPT ![p] = [ticket |-> t, by |-> "operator"]]
  /\ UNCHANGED <<now, lock, stale, renewal, sync, grant, lost>>

(* release_lock: guarded, compares the ticket id and nothing else.  The    *)
(* actor that releases its ticket gives up its own grant on it.            *)
ReleaseLock(p) ==
  LET a == ActorOf[p]
      t == release[p].ticket
      removes == Existing = NoLock \/ lock.ticket = t
  IN  /\ release[p] # NoRelease
      /\ release' = [release EXCEPT ![p] = NoRelease]
      /\ lock' = IF removes THEN NoLock ELSE lock
      /\ IF removes
         THEN Lose(Holders \ {a}, IF release[p].by = "operator"
                                  THEN "operator" ELSE "release")
         ELSE UNCHANGED lost
      /\ grant' = IF grant[a] # NoLock /\ grant[a].ticket = t
                  THEN [grant EXCEPT ![a] = NoLock] ELSE grant
      /\ UNCHANGED <<now, stale, renewal, sync>>

-----------------------------------------------------------------------------
(* exo lease-renew: load the lock outside the guard; the renewal will be   *)
(* in the name of whoever owns it.  (With --owner it is that actor's own   *)
(* acquire_lock of this ticket.)                                           *)
CheckRenewal(p) ==
  /\ p \in Leasing /\ Idle(p)
  /\ Existing # NoLock
  /\ renewal' = [renewal EXCEPT ![p] = [ticket |-> lock.ticket, owner |-> lock.owner]]
  /\ UNCHANGED <<now, lock, stale, release, sync, grant, lost>>

(* What acquire_lock writes in that name: a renewal, or a new lock if the  *)
(* old one is gone by now; held by another it refuses.                     *)
RenewedFor(o, t, d) ==
  IF Existing = NoLock THEN NewLock(o, t, d) ELSE Renewed(d)

(* Whoever did not ask for it learns nothing: its lock may end before what *)
(* it was told.                                                            *)
Renew(p, d) ==
  LET a == ActorOf[p]
      o == renewal[p].owner
      t == renewal[p].ticket
  IN  /\ renewal[p] # NoRelease
      /\ Existing # NoLock =>
           lock.owner = o /\ lock.ticket = t /\ lock.fencing < MaxFencing
      /\ renewal' = [renewal EXCEPT ![p] = NoRelease]
      /\ lock' = RenewedFor(o, t, d)
      /\ IF a = o
         THEN /\ grant' = [grant EXCEPT ![a] = lock']
              /\ lost' = [lost EXCEPT ![a] = "kept"]
         ELSE /\ Lose({b \in Holders : now + d < grant[b].expires}, "operator")
              /\ UNCHANGED grant
      /\ UNCHANGED <<now, stale, release, sync>>

(* _precheck_local_lock: no unexpired lock of another ticket or owner; the *)
(* mutant forgets the owner.                                               *)
PrecheckMutant(o, t) == Existing # NoLock => lock.ticket = t
Precheck(o, t) == Existing # NoLock => lock.ticket = t /\ lock.owner = o

(* _sync_local_lock, first half: the precheck, in the name of the          *)
(* process's actor or, for a lease-renew, of the owner it found.  Finding  *)
(* an expired lock the process unlinks it first.  The lease is any the     *)
(* remote may have granted.                                                *)
CheckSync(p, o, t, e, f) ==
  /\ p \in Leasing
  /\ \/ Idle(p) /\ o = ActorOf[p]
     \/ renewal[p] = [ticket |-> t, owner |-> o]
  /\ Precheck(o, t)
  /\ sync' = [sync EXCEPT ![p] =
       [lease |-> [ticket |-> t, owner |-> o, expires |-> e, fencing |-> f],
        existing |-> Existing]]
  /\ renewal' = [renewal EXCEPT ![p] = NoRelease]
  /\ stale' = IF lock # Existing THEN stale \cup {p} ELSE stale
  /\ UNCHANGED <<now, lock, release, grant, lost>>

(* The actors whose live grant is not what record l says any more. *)
CutShort(l) ==
  {b \in Holders : \/ l.owner # b \/ l.ticket # grant[b].ticket
                   \/ l.expires < grant[b].expires}

(* _sync_local_lock, second half: write_lock.  It takes the guard, and     *)
(* overwrites whatever lock is there by then.                              *)
WriteLock(p) ==
  LET a == ActorOf[p]
      l == sync[p].lease
  IN  /\ sync[p] # NoRelease /\ p \notin stale
      /\ sync' = [sync EXCEPT ![p] = NoRelease]
      /\ lock' = l
      /\ IF a = l.owner
         THEN /\ grant' = [grant EXCEPT ![a] = l]
              /\ lost' = [b \in Actor |->
                   CASE b = a -> "kept" [] b \in CutShort(l) \ {a} -> "copy"
                     [] OTHER -> lost[b]]
         ELSE /\ Lose(CutShort(l), "copy")
              /\ UNCHANGED grant
      /\ UNCHANGED <<now, stale, release, renewal>>

(* A process dies in the middle of a command, or its renewal is refused;   *)
(* the flock dies with it.                                                 *)
Crash(p) ==
  /\ ~Idle(p)
  /\ stale' = stale \ {p}
  /\ release' = [release EXCEPT ![p] = NoRelease]
  /\ renewal' = [renewal EXCEPT ![p] = NoRelease]
  /\ sync' = [sync EXCEPT ![p] = NoRelease]
  /\ UNCHANGED <<now, lock, grant, lost>>

Tick ==
  /\ now < MaxTime
  /\ now' = now + 1
  /\ UNCHANGED <<lock, stale, release, renewal, sync, grant, lost>>

Next ==
  \/ \E p \in Process, t \in Ticket, d \in Duration :
       AcquireNew(p, t, d) \/ AcquireRenew(p, t, d)
  \/ \E p \in Process, o \in Actor \cup {NoOwner}, d \in Duration :
       HeartbeatLock(p, o, d)
  \/ \E p \in Process : GuardedUnlink(p) \/ ReadExpired(p) \/ UnlinkStale(p)
  \/ \E p \in Process, o \in Actor \cup {NoOwner} : CheckRelease(p, o)
  \/ \E p \in Process, d \in Duration : Renew(p, d)
  \/ \E p \in Process, t \in Ticket : ReleaseRemote(p, t)
  \/ \E p \in Process, o \in Actor, t \in Ticket, e \in LeaseEnd, f \in LeaseToken :
       CheckSync(p, o, t, e, f)
  \/ \E p \in Process :
       \/ CheckRenewal(p) \/ WriteLock(p)
       \/ FinishSession(p) \/ ReleaseLock(p) \/ Crash(p)
  \/ Tick

Spec == Init /\ [][Next]_vars

-----------------------------------------------------------------------------
(* Every live grant that was not lost is the lock on disk, under the same  *)
(* ticket and owner, for at least as long as the actor was told.           *)
GrantOnDisk ==
  \A a \in Actor :
    Live(a) /\ lost[a] = "kept" =>
      /\ lock # NoLock
      /\ lock.owner = a
      /\ lock.ticket = grant[a].ticket
      /\ lock.expires >= grant[a].expires

(* Mutual exclusion of the lock file, and its limits: two actors believe   *)
(* in a live lock at once only if one of them lost its own, that is,       *)
(* another process removed the file by the unguarded unlink of load_lock   *)
(* or by a release_lock of somebody else's lock, cut the lock short by a   *)
(* lease-renew in its owner's name, or overwrote it with the copy of a     *)
(* distributed lease.  There is no fifth way.                              *)
ExclusiveUnlessLost ==
  \A a, b \in Actor :
    Live(a) /\ Live(b) /\ lost[a] = "kept" /\ lost[b] = "kept" => a = b

(* A process writes the copy of its distributed lease. *)
Copies(p) ==
  sync[p] # NoRelease /\ sync'[p] = NoRelease /\ lock' = sync[p].lease

(* An unexpired lock file changes hands in one step only under the copy of *)
(* a distributed lease, and then it is not the lock that copy was checked  *)
(* against: somebody locked between the look and the write.  No other step *)
(* takes its fencing token back, or brings its expiry nearer without a new *)
(* token, from which a holder that compares tokens could tell.             *)
HandoverStep ==
  Existing # NoLock /\ lock' # NoLock =>
    /\ lock'.owner # lock.owner \/ lock'.ticket # lock.ticket =>
         \E p \in Process : Copies(p) /\ sync[p].existing # lock
    /\ \/ \E p \in Process : Copies(p)
       \/ /\ lock'.fencing >= lock.fencing
          /\ lock'.expires < lock.expires => lock'.fencing > lock.fencing

NoHandoverWhileLive == [][HandoverStep]_vars

(* "The kernel lock is single-active-ticket per .exo/ instance"            *)
(* (docs/architecture.md): live grants are all for one ticket, whatever    *)
(* readers do, as long as nobody released a lock that was not theirs.      *)
SingleActiveTicket ==
  \A a, b \in Actor :
    /\ Live(a) /\ lost[a] \in {"kept", "reader"}
    /\ Live(b) /\ lost[b] \in {"kept", "reader"}
    => grant[a].ticket = grant[b].ticket
=============================================================================

----------------------------- MODULE GitLease -----------------------------
(***************************************************************************)
(* The distributed lease of exo/stdlib/distributed_leases.py.  The lease   *)
(* of a ticket is a ref on a git remote that points to a commit whose      *)
(* message is the lease record.  A clone reads it with two git commands,   *)
(* ls-remote for the sha and fetch for the record, decides, and pushes     *)
(* with --force-with-lease, a compare-and-swap on the sha it first read.   *)
(* A claim that went through is then copied into the clone's own ticket    *)
(* lock file, which the plain lock commands of the clone (module           *)
(* TicketLock) go on to extend, replace and remove without a look at the   *)
(* remote.  Commits are numbered in the order the remote accepted them.    *)
(***************************************************************************)
EXTENDS Integers, Sequences

CONSTANTS
  Agent,      \* exo processes that use --distributed
  Actor,      \* owner names
  Clone,      \* git clones, each with its own .exo directory
  Owners,     \* the owners that the commands in a clone act for
  CloneOf,    \* the clone each agent works in
  Plain,      \* bound: the lock lengths that plain lock commands in a clone use
  Ticket,     \* ticket ids
  Duration,   \* lease lengths
  Skew,       \* how far each clone's clock runs ahead
  MaxTime,    \* bound: the clock stops here
  MaxCommits, \* bound: the remote accepts no further lease commit
  NoTask,     \* the agent runs no lease command
  NoLease,    \* no lease record has been prepared yet
  NoLock,     \* the lock file is absent
  NoOwner     \* release without an owner argument

ASSUME ConstantsAssumption ==
  /\ Owners \in [Clone -> SUBSET Actor]
  /\ Plain \in [Clone -> SUBSET (Nat \ {0})]
  /\ CloneOf \in [Agent -> Clone]
  /\ Duration \subseteq Nat \ {0}
  /\ Skew \in [Clone -> Nat]
  /\ MaxTime \in Nat
  /\ MaxCommits \in Nat
  /\ NoOwner \notin Actor

VARIABLES
  now,     \* true time
  remote,  \* the commit each ticket's ref points to, 0 when it is absent
  commits, \* the lease record of every commit the remote accepted
  local,   \* the ticket lock file of each clone
  task,    \* the command each agent is in the middle of
  fate,    \* history: what became of each commit as the head of its ref
  root     \* history: the commit that created the ref a commit belongs to

vars == <<now, remote, commits, local, task, fate, root>>

Lease == [ticket: Ticket, owner: Actor, clone: Clone, expires: Nat,
          fencing: Nat \ {0}]

Kind == {"claim", "heartbeat", "release", "cleanup"}
Step == {"query", "fetch", "push", "sync", "write", "unlock"}
(* The head of a ref is at some time withdrawn, by a renewal of its owner  *)
(* or a release, or lost, to a takeover or to lease-cleanup.               *)
Fate == {"head", "withdrawn", "lost"}

(* A command in progress: claim fixes its expiry (due) before it reads     *)
(* anything; sha is what ls-remote answered, then what was pushed.         *)
Task == [kind: Kind, step: Step, ticket: Ticket, owner: Actor \cup {NoOwner},
         length: Duration \cup {0}, due: Nat, sha: Nat, lease: Lease \cup {NoLease}]

(* sha is the commit the file was copied from, 0 for a lock without a      *)
(* "distributed" entry.                                                    *)
LockFile == [ticket: Ticket, owner: Actor, expires: Nat, sha: Nat]

ASSUME NullAssumption ==
  NoTask \notin Task /\ NoLease \notin Lease /\ NoLock \notin LockFile

Sha == 1..Len(commits)

TypeOK ==
  /\ now \in Nat
  /\ commits \in Seq(Lease)
  /\ remote \in [Ticket -> 0..Len(commits)]
  /\ local \in [Clone -> LockFile \cup {NoLock}]
  /\ task \in [Agent -> Task \cup {NoTask}]
  /\ fate \in Seq(Fate) /\ Len(fate) = Len(commits)
  /\ root \in Seq(Nat) /\ Len(root) = Len(commits)

Init ==
  /\ now = 0
  /\ remote = [t \in Ticket |-> 0]
  /\ commits = <<>>
  /\ local = [c \in Clone |-> NoLock]
  /\ task = [a \in Agent |-> NoTask]
  /\ fate = <<>>
  /\ root = <<>>

(* _now(): the clock of the agent's clone. *)
Clock(c) == now + Skew[c]

(* load_lock in a clone: an expired lock is removed and reads as absent.   *)
(* Its unguarded unlink is the subject of TicketLock.                      *)
LocalLock(c) ==
  IF local[c] # NoLock /\ Clock(c) < local[c].expires THEN local[c] ELSE NoLock

(* _precheck_local_lock: no unexpired lock of another ticket or owner. *)
PrecheckPasses(c, t, owner) ==
  LocalLock(c) # NoLock => LocalLock(c).ticket = t /\ LocalLock(c).owner = owner

-----------------------------------------------------------------------------
Begin(a, kind, step, t, owner, length, due) ==
  /\ task[a] = NoTask
  /\ task' = [task EXCEPT ![a] =
       [kind |-> kind, step |-> step, ticket |-> t, owner |-> owner,
        length |-> length, due |-> due, lease |-> NoLease,
        sha |-> IF step = "fetch" THEN remote[t] ELSE 0]]
  /\ UNCHANGED <<now, remote, commits, fate, root>>

(* claim and renew, which are the same code: the expiry is fixed before    *)
(* the remote is read.                                                     *)
BeginClaim(a, t, owner, d) ==
  LET c == CloneOf[a]
  IN  /\ PrecheckPasses(c, t, owner)
      /\ Begin(a, "claim", "query", t, owner, 0, Clock(c) + d)
      /\ local' = [local EXCEPT ![c] = LocalLock(c)]

BeginHeartbeat(a, t, owner, d) ==
  LET c == CloneOf[a]
  IN  /\ PrecheckPasses(c, t, owner)
      /\ Begin(a, "heartbeat", "query", t, owner, d, 0)
      /\ local' = [local EXCEPT ![c] = LocalLock(c)]

(* release, with or without an owner to check, and cleanup_locks, which    *)
(* treats every ref by itself, start with ls-remote: a release that finds  *)
(* no ref still tidies the local lock.                                     *)
BeginRelease(a, t, owner) ==
  /\ Begin(a, "release", IF remote[t] = 0 THEN "unlock" ELSE "fetch",
           t, owner, 0, 0)
  /\ UNCHANGED local

BeginCleanup(a, t) ==
  /\ remote[t] # 0
  /\ Begin(a, "cleanup", "fetch", t, NoOwner, 0, 0)
  /\ UNCHANGED local

(* An error return, a failed git command or a crash, at any point. *)
Abort(a) ==
  /\ task[a] # NoTask
  /\ task' = [task EXCEPT ![a] = NoTask]
  /\ UNCHANGED <<now, remote, commits, local, fate, root>>

-----------------------------------------------------------------------------
(* The record of a claim that finds no ref; the mutant has no token yet. *)
FirstLeaseMutant(a, k) ==
  [ticket |-> k.ticket, owner |-> k.owner, clone |-> CloneOf[a],
   expires |-> k.due, fencing |-> 0]

FirstLease(a, k) ==
  [ticket |-> k.ticket, owner |-> k.owner, clone |-> CloneOf[a],
   expires |-> k.due, fencing |-> 1]

(* git ls-remote of a claim or heartbeat, after the precheck of the local  *)
(* lock: the sha the push will insist on.  An absent ref ends a heartbeat  *)
(* and lets a claim create it.                                             *)
Query(a) ==
  LET k == task[a]
      sha == remote[k.ticket]
  IN  /\ k # NoTask
      /\ k.step = "query"
      /\ task' = [task EXCEPT ![a] =
           CASE sha # 0 -> [k EXCEPT !.step = "fetch", !.sha = sha]
             [] sha = 0 /\ k.kind = "claim" ->
                  [k EXCEPT !.step = "push", !.lease = FirstLease(a, k)]
             [] OTHER -> NoTask]
      /\ UNCHANGED <<now, remote, commits, local, fate, root>>

(* What a command does with the record it fetched: refuse, or go on to     *)
(* push a record.  claim yields to an unexpired lease of another owner,    *)
(* and its mutant does not look at the expiry; heartbeat insists on the    *)
(* owner but not on the expiry; cleanup deletes what has expired.          *)
AcceptsMutant(a, k, found) ==
  CASE k.kind = "claim" -> TRUE
    [] k.kind = "heartbeat" -> found.owner = k.owner
    [] k.kind = "release" -> k.owner \in {NoOwner, found.owner}
    [] k.kind = "cleanup" -> TRUE

Accepts(a, k, found) ==
  LET expired == Clock(CloneOf[a]) >= found.expires
  IN  CASE k.kind = "claim" -> found.owner = k.owner \/ expired
        [] k.kind = "heartbeat" -> found.owner = k.owner
        [] k.kind = "release" -> k.owner \in {NoOwner, found.owner}
        [] k.kind = "cleanup" -> expired

ReplacementMutant(a, k, found) ==
  [found EXCEPT !.owner = k.owner, !.clone = CloneOf[a], !.expires = k.due]

Replacement(a, k, found) ==
  LET later == Clock(CloneOf[a]) + k.length
  IN  CASE k.kind = "claim" ->
             [found EXCEPT !.owner = k.owner, !.clone = CloneOf[a],
                           !.expires = k.due, !.fencing = @ + 1]
        [] k.kind = "heartbeat" ->
             [found EXCEPT !.clone = CloneOf[a],
                           !.expires = IF later >= @ THEN later ELSE @]
        [] OTHER -> NoLease

(* git fetch of the ref, a second read: the record may be newer than the   *)
(* sha.  A ref that vanished in between fails the fetch.                   *)
Fetch(a) ==
  LET k == task[a]
      seen == remote[k.ticket]
  IN  /\ k # NoTask
      /\ k.step = "fetch"
      /\ task' = [task EXCEPT ![a] =
           IF seen # 0 /\ Accepts(a, k, commits[seen])
           THEN [k EXCEPT !.step = "push",
                          !.lease = Replacement(a, k, commits[seen])]
           ELSE NoTask]
      /\ UNCHANGED <<now, remote, commits, local, fate, root>>

(* git push succeeds when the ref still is what ls-remote reported: by     *)
(* --force-with-lease for an update or a deletion, and for a creation      *)
(* because a parentless commit is never a fast-forward of an existing ref. *)
LeaseHoldsMutant(k) == k.sha # 0 \/ remote[k.ticket] = 0
LeaseHolds(k) == remote[k.ticket] = k.sha

PushUpdate(a) ==
  LET k == task[a]
      new == Len(commits) + 1
  IN  /\ k # NoTask
      /\ k.step = "push"
      /\ k.kind \in {"claim", "heartbeat"}
      /\ LeaseHolds(k)
      /\ Len(commits) < MaxCommits
      /\ commits' = Append(commits, k.lease)
      /\ remote' = [remote EXCEPT ![k.ticket] = new]
      /\ fate' = [s \in 1..new |->
           CASE s = new -> "head"
             [] s = remote[k.ticket] ->
                  IF commits[s].owner = k.lease.owner
                  THEN "withdrawn" ELSE "lost"
             [] OTHER -> fate[s]]
      /\ root' = Append(root, IF k.sha = 0 THEN new ELSE root[k.sha])
      /\ task' = [task EXCEPT ![a] = [k EXCEPT !.step = "sync", !.sha = new]]
      /\ UNCHANGED <<now, local>>

PushDelete(a) ==
  LET k == task[a]
      head == remote[k.ticket]
  IN  /\ k # NoTask
      /\ k.step = "push"
      /\ k.kind \in {"release", "cleanup"}
      /\ LeaseHolds(k)
      /\ remote' = [remote EXCEPT ![k.ticket] = 0]
      /\ fate' = [fate EXCEPT ![head] =
           IF k.kind = "cleanup" THEN "lost" ELSE "withdrawn"]
      /\ task' = [task EXCEPT ![a] = [k EXCEPT !.step = "unlock", !.sha = 0]]
      /\ UNCHANGED <<now, commits, local, root>>

-----------------------------------------------------------------------------
(* _sync_local_lock looks at the local lock once more and, if no other     *)
(* ticket or owner has it, goes on to write_lock, which overwrites         *)
(* whatever is there by then.  A refusal leaves the remote lease claimed.  *)
SyncCheck(a) ==
  LET k == task[a]
      c == CloneOf[a]
  IN  /\ k # NoTask
      /\ k.step = "sync"
      /\ local' = [local EXCEPT ![c] = LocalLock(c)]
      /\ task' = [task EXCEPT ![a] =
           IF PrecheckPasses(c, k.ticket, k.lease.owner)
           THEN [k EXCEPT !.step = "write"] ELSE NoTask]
      /\ UNCHANGED <<now, remote, commits, fate, root>>

SyncWrite(a) ==
  LET k == task[a]
  IN  /\ k # NoTask
      /\ k.step = "write"
      /\ local' = [local EXCEPT ![CloneOf[a]] =
           [ticket |-> k.ticket, owner |-> k.lease.owner,
            expires |-> k.lease.expires, sha |-> k.sha]]
      /\ task' = [task EXCEPT ![a] = NoTask]
      /\ UNCHANGED <<now, remote, commits, fate, root>>

(* tickets.release_lock in the clone: compares the ticket, not the owner. *)
UnlockLocal(a) ==
  LET k == task[a]
      c == CloneOf[a]
  IN  /\ k # NoTask
      /\ k.step = "unlock"
      /\ local' = [local EXCEPT ![c] =
           IF LocalLock(c) # NoLock /\ LocalLock(c).ticket # k.ticket
           THEN LocalLock(c) ELSE NoLock]
      /\ task' = [task EXCEPT ![a] = NoTask]
      /\ UNCHANGED <<now, remote, commits, fate, root>>

-----------------------------------------------------------------------------
(* The plain lock commands of a clone.  acquire_lock, by next, by the      *)
(* session commands or by lease-renew, writes a new or a renewed lock of   *)
(* the clone, and drops the file's "distributed" entry.                    *)
PlainAcquire(c, t, owner, d) ==
  /\ PrecheckPasses(c, t, owner)
  /\ local' = [local EXCEPT ![c] =
       [ticket |-> t, owner |-> owner, expires |-> Clock(c) + d, sha |-> 0]]
  /\ UNCHANGED <<now, remote, commits, task, fate, root>>

(* heartbeat_lock keeps that entry and extends the file beyond the lease.  *)
PlainHeartbeat(c, d) ==
  /\ LocalLock(c) # NoLock
  /\ local' = [local EXCEPT ![c].expires =
       IF Clock(c) + d >= @ THEN Clock(c) + d ELSE @]
  /\ UNCHANGED <<now, remote, commits, task, fate, root>>

(* release_lock, without --distributed. *)
PlainRelease(c) ==
  /\ local[c] # NoLock
  /\ local' = [local EXCEPT ![c] = NoLock]
  /\ UNCHANGED <<now, remote, commits, task, fate, root>>

Tick ==
  /\ now < MaxTime
  /\ now' = now + 1
  /\ UNCHANGED <<remote, commits, local, task, fate, root>>

Next ==
  \/ \E a \in Agent, t \in Ticket, d \in Duration : \E o \in Owners[CloneOf[a]] :
       BeginClaim(a, t, o, d) \/ BeginHeartbeat(a, t, o, d)
  \/ \E a \in Agent, t \in Ticket : \E o \in Owners[CloneOf[a]] \cup {NoOwner} :
       BeginRelease(a, t, o)
  \/ \E a \in Agent, t \in Ticket : BeginCleanup(a, t)
  \/ \E a \in Agent :
       \/ Abort(a) \/ Query(a) \/ Fetch(a) \/ PushUpdate(a) \/ PushDelete(a)
       \/ SyncCheck(a) \/ SyncWrite(a) \/ UnlockLocal(a)
  \/ \E c \in Clone : \E t \in Ticket, o \in Owners[c], d \in Plain[c] :
       PlainAcquire(c, t, o, d)
  \/ \E c \in Clone : \E d \in Plain[c] : PlainHeartbeat(c, d)
  \/ \E c \in Clone : Plain[c] # {} /\ PlainRelease(c)
  \/ Tick

Spec == Init /\ [][Next]_vars

-----------------------------------------------------------------------------
(* The holder of commit s can no longer count on it, by its own clock. *)
Lapsed(s) == Clock(commits[s].clone) >= commits[s].expires

(* A lease is taken over, or swept by lease-cleanup, only after it has     *)
(* expired, although claim and cleanup read the sha, the record and the    *)
(* clock at different moments and push still later.                        *)
TakenOnlyWhenLapsed ==
  \A s \in Sha : fate[s] = "lost" => Lapsed(s)

(* The lock file of a clone is the copy of a lease that its clock has not  *)
(* seen end and that its side still stands by.  A lock that a plain        *)
(* command wrote is no copy, and what a plain heartbeat adds to the file   *)
(* the lease does not cover.                                               *)
Backed(c) ==
  /\ LocalLock(c) # NoLock
  /\ local[c].sha # 0
  /\ Clock(c) < commits[local[c].sha].expires
  /\ fate[local[c].sha] # "withdrawn"

(* Two clones never have backed lock files of different owners for one     *)
(* ticket: where both have an unexpired file, one of the leases was        *)
(* renewed by another process of its owner or released, or a plain command *)
(* made or prolonged the file.                                             *)
ExclusiveAcrossClones ==
  \A c, d \in Clone :
    Backed(c) /\ Backed(d) /\ local[c].ticket = local[d].ticket =>
      local[c].owner = local[d].owner

(* As long as a ref exists, fencing tokens order its leases: a later one   *)
(* never has a smaller token, and a later one of another owner has a       *)
(* greater token.  No clock is involved, so skewed clocks change nothing.  *)
FencingOrdersOwners ==
  \A r, s \in Sha :
    r < s /\ root[r] = root[s] =>
      /\ commits[r].fencing <= commits[s].fencing
      /\ commits[r].owner # commits[s].owner
           => commits[r].fencing < commits[s].fencing

(* The parts of the inductive invariant: refs and heads agree, a head is   *)
(* the last commit under its root, ...                                     *)
HeadsAgree ==
  /\ \A t \in Ticket : remote[t] # 0 =>
       commits[remote[t]].ticket = t /\ fate[remote[t]] = "head"
  /\ \A s \in Sha : fate[s] = "head" => remote[commits[s].ticket] = s

RootsAgree ==
  \A s \in Sha :
    /\ root[s] \in 1..s
    /\ fate[s] = "head" => \A r \in Sha : root[r] = root[s] => r <= s

(* ... every record about to be pushed is fit to succeed the commit it     *)
(* would replace, if that still is the head of the ref, ...                *)
MaySucceed(lease, found, clone) ==
  /\ lease.owner # found.owner =>
       lease.fencing = found.fencing + 1 /\ Clock(clone) >= found.expires
  /\ \/ lease.fencing = found.fencing + 1
     \/ lease.fencing = found.fencing /\ lease.expires >= found.expires

TaskReady(a) ==
  LET k == task[a]
      found == commits[k.sha]
      current == remote[k.ticket] = k.sha
  IN  /\ k.sha \in 0..Len(commits)
      /\ k.kind \in {"claim", "heartbeat"} => k.owner \in Actor
      /\ k.step = "fetch" => k.sha # 0
      /\ k.step = "push" /\ k.kind \in {"claim", "heartbeat"} =>
           /\ k.lease # NoLease
           /\ k.lease.ticket = k.ticket
           /\ k.sha = 0 => k.lease.fencing = 1
           /\ k.sha # 0 /\ current => MaySucceed(k.lease, found, CloneOf[a])
      /\ k.step = "push" /\ k.kind = "cleanup" =>
           k.sha # 0 /\ (current => Clock(CloneOf[a]) >= found.expires)
      /\ k.step \in {"sync", "write"} =>
           k.sha # 0 /\ found = k.lease /\ found.ticket = k.ticket

TasksReady == \A a \in Agent : task[a] # NoTask => TaskReady(a)

(* ... and a lock file that names a commit is of the same ticket and owner *)
(* and ends no sooner.                                                     *)
CopyOf(file, s) ==
  /\ s \in Sha
  /\ commits[s].ticket = file.ticket
  /\ commits[s].owner = file.owner
  /\ commits[s].expires <= file.expires

LocksAgree ==
  \A c \in Clone :
    local[c] # NoLock /\ local[c].sha # 0 => CopyOf(local[c], local[c].sha)

LeaseInv == HeadsAgree /\ RootsAgree /\ TasksReady /\ LocksAgree

(* The remote is a LeaseRegister: the commands take effect at their push,  *)
(* on what they read before it.                                            *)
Register ==
  INSTANCE LeaseRegister WITH lease <-
    [t \in Ticket |->
       IF remote[t] = 0 THEN NoLease
       ELSE [owner |-> commits[remote[t]].owner,
             expires |-> commits[remote[t]].expires,
             fencing |-> commits[remote[t]].fencing]]

ASSUME RegisterAssumption == NoLease \notin Register!Record

ImplementsRegister == Register!Spec
=============================================================================

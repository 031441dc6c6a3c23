-------------------------- MODULE GitLeaseProofs --------------------------
(* Theorems about the distributed lease, for any number of agents, clones, *)
(* actors and tickets, any lease lengths and any bounds.                   *)
EXTENDS GitLease, TLAPS

(* Records the commands prepare are lease records. *)
LEMMA PreparedIsLease ==
  ASSUME TypeOK, NEW a \in Agent, task[a] # NoTask, TaskReady(a), NEW found \in Lease
  PROVE  /\ task[a].kind = "claim" => FirstLease(a, task[a]) \in Lease
         /\ Replacement(a, task[a], found) \in Lease \cup {NoLease}
         /\ task[a].kind \in {"claim", "heartbeat"} =>
              Replacement(a, task[a], found) \in Lease
<1>1. /\ task[a] \in Task /\ now \in Nat /\ CloneOf[a] \in Clone
      /\ Clock(CloneOf[a]) \in Nat
  BY ConstantsAssumption DEF TypeOK, Clock
<1>2. task[a].due \in Nat /\ task[a].length \in Nat /\ task[a].ticket \in Ticket
  <2>1. task[a].length \in Duration \cup {0} /\ task[a].due \in Nat
        /\ task[a].ticket \in Ticket
    BY <1>1 DEF Task
  <2>2. \A d \in Duration : d \in Nat
    BY ConstantsAssumption
  <2>3. QED
    BY <2>1, <2>2
<1>3. task[a].kind = "claim" =>
        task[a].owner \in Actor /\ FirstLease(a, task[a]) \in Lease
  BY <1>1, <1>2 DEF FirstLease, Lease, TaskReady
<1>4. CASE task[a].kind = "claim"
  <2> DEFINE f1 == [found EXCEPT !.owner = task[a].owner]
             f2 == [f1 EXCEPT !.clone = CloneOf[a]]
             f3 == [f2 EXCEPT !.expires = task[a].due]
             f4 == [f3 EXCEPT !.fencing = found.fencing + 1]
  <2>1. f1 \in Lease /\ f1.fencing = found.fencing
    BY <1>3, <1>4 DEF Lease
  <2>2. f2 \in Lease /\ f2.fencing = found.fencing
    BY <1>1, <2>1 DEF Lease
  <2>3. f3 \in Lease /\ f3.fencing = found.fencing
    BY <1>2, <2>2 DEF Lease
  <2>4. f4 \in Lease
    <3>1. found.fencing + 1 \in Nat \ {0}
      BY DEF Lease
    <3>2. QED
      BY <2>3, <3>1 DEF Lease
  <2>5. Replacement(a, task[a], found) = f4
    BY <1>4 DEF Replacement, Lease
  <2>6. QED
    BY <1>3, <2>4, <2>5
<1>5. CASE task[a].kind = "heartbeat"
  <2> DEFINE later == Clock(CloneOf[a]) + task[a].length
             e == IF later >= found.expires THEN later ELSE found.expires
             f1 == [found EXCEPT !.clone = CloneOf[a]]
             f2 == [f1 EXCEPT !.expires = e]
  <2>1. e \in Nat
    BY <1>1, <1>2 DEF Lease
  <2>2. f1 \in Lease
    BY <1>1 DEF Lease
  <2>3. f2 \in Lease
    BY <2>1, <2>2 DEF Lease
  <2>4. Replacement(a, task[a], found) = f2
    BY <1>5 DEF Replacement, Lease
  <2>5. QED
    BY <1>3, <2>3, <2>4
<1>6. CASE task[a].kind \notin {"claim", "heartbeat"}
  BY <1>3, <1>6 DEF Replacement
<1>7. QED
  BY <1>4, <1>5, <1>6

(* Facts about a command in progress. *)
LEMMA TaskFacts ==
  ASSUME TypeOK, NEW a \in Agent, task[a] # NoTask
  PROVE  /\ task[a] \in Task
         /\ task[a].ticket \in Ticket /\ task[a].kind \in Kind
         /\ task[a].sha \in Nat /\ task[a].due \in Nat
         /\ remote[task[a].ticket] \in 0..Len(commits)
         /\ Len(commits) \in Nat
         /\ CloneOf[a] \in Clone
         /\ NoTask \notin Task /\ NoLease \notin Lease
<1>1. task[a] \in Task
  BY DEF TypeOK
<1>2. task[a].ticket \in Ticket /\ task[a].kind \in Kind
      /\ task[a].sha \in Nat /\ task[a].due \in Nat
  BY <1>1 DEF Task
<1>3. QED
  BY <1>1, <1>2, ConstantsAssumption, NullAssumption DEF TypeOK

(* What each command leaves in task is a well-formed task. *)
LEMMA TaskTyped ==
  ASSUME TypeOK, NEW a \in Agent, task[a] # NoTask,
         NEW step \in Step, NEW sha \in Nat, NEW lease \in Lease \cup {NoLease}
  PROVE  /\ [task[a] EXCEPT !.step = step] \in Task
         /\ [task[a] EXCEPT !.step = step, !.sha = sha] \in Task
         /\ [task[a] EXCEPT !.step = step, !.lease = lease] \in Task
<1>1. task[a] \in Task
  BY TaskFacts
<1> DEFINE k == [task[a] EXCEPT !.step = step]
<1>2. k \in Task
  BY <1>1 DEF Task
<1>3. [k EXCEPT !.sha = sha] \in Task /\ [k EXCEPT !.lease = lease] \in Task
  BY <1>2 DEF Task
<1>4. [task[a] EXCEPT !.step = step, !.sha = sha] = [k EXCEPT !.sha = sha]
  BY <1>1 DEF Task
<1>5. [task[a] EXCEPT !.step = step, !.lease = lease]
        = [k EXCEPT !.lease = lease]
  BY <1>1 DEF Task
<1>6. QED
  BY <1>2, <1>3, <1>4, <1>5

(* A command that begins has the type of a task.                           *)
LEMMA BeginTyped ==
  ASSUME TypeOK, NEW a \in Agent, NEW kind \in Kind, NEW step \in Step,
         NEW t \in Ticket, NEW owner \in Actor \cup {NoOwner},
         NEW length \in Duration \cup {0}, NEW due \in Nat,
         Begin(a, kind, step, t, owner, length, due)
  PROVE  task' \in [Agent -> Task \cup {NoTask}]
<1> DEFINE k == [kind |-> kind, step |-> step, ticket |-> t, owner |-> owner,
                 length |-> length, due |-> due, lease |-> NoLease,
                 sha |-> IF step = "fetch" THEN remote[t] ELSE 0]
<1>1. remote[t] \in Nat
  BY DEF TypeOK
<1>2. k \in Task
  BY <1>1 DEF Task
<1>3. task' = [task EXCEPT ![a] = k]
  BY DEF Begin
<1>4. QED
  BY <1>2, <1>3 DEF TypeOK

(* The lock a clone reads has its type.                                    *)
LEMMA LocalLockTyped ==
  ASSUME TypeOK, NEW c \in Clone
  PROVE  LocalLock(c) \in LockFile \cup {NoLock}
BY DEF TypeOK, LocalLock

(* What a plain heartbeat writes: the same lock, ending no sooner. *)
LEMMA Heartbeaten ==
  ASSUME TypeOK, NEW c \in Clone, NEW d \in Plain[c], PlainHeartbeat(c, d)
  PROVE  /\ local[c] # NoLock /\ local[c] \in LockFile
         /\ local' \in [Clone -> LockFile \cup {NoLock}]
         /\ \A e \in Clone \ {c} : local'[e] = local[e]
         /\ local'[c].ticket = local[c].ticket /\ local'[c].owner = local[c].owner
         /\ local'[c].sha = local[c].sha /\ local'[c].expires >= local[c].expires
         /\ local'[c].expires \in Nat
<1> DEFINE e == IF Clock(c) + d >= local[c].expires THEN Clock(c) + d ELSE local[c].expires
           new == [local[c] EXCEPT !.expires = e]
<1>1. local[c] # NoLock /\ local[c] \in LockFile
  BY DEF PlainHeartbeat, LocalLock, TypeOK
<1>2. Clock(c) + d \in Nat /\ local[c].expires \in Nat
  BY <1>1, ConstantsAssumption DEF TypeOK, Clock, LockFile
<1>3. local' = [local EXCEPT ![c] = new]
  BY DEF PlainHeartbeat
<1>4. new \in LockFile /\ new.expires >= local[c].expires /\ new.expires \in Nat
      /\ new.ticket = local[c].ticket /\ new.owner = local[c].owner
      /\ new.sha = local[c].sha
  BY <1>1, <1>2 DEF LockFile
<1>5. QED
  BY <1>1, <1>3, <1>4 DEF TypeOK

(* Type correctness is preserved, given that a command that reaches its    *)
(* push has prepared a record.                                             *)
LEMMA TypeStep == TypeOK /\ TasksReady /\ [Next]_vars => TypeOK'
<1> SUFFICES ASSUME TypeOK, TasksReady, [Next]_vars
             PROVE  TypeOK'
  OBVIOUS
<1>1. ASSUME NEW a \in Agent, NEW t \in Ticket, NEW d \in Duration,
             NEW o \in Owners[CloneOf[a]],
             BeginClaim(a, t, o, d) \/ BeginHeartbeat(a, t, o, d)
      PROVE  TypeOK'
  <2>1. /\ o \in Actor /\ CloneOf[a] \in Clone
        /\ Clock(CloneOf[a]) + d \in Nat
    BY ConstantsAssumption DEF TypeOK, Clock
  <2>2. task' \in [Agent -> Task \cup {NoTask}]
    BY <1>1, <2>1, BeginTyped
    DEF BeginClaim, BeginHeartbeat, Kind, Step
  <2>3. local' \in [Clone -> LockFile \cup {NoLock}]
    BY <1>1, <2>1, LocalLockTyped DEF BeginClaim, BeginHeartbeat, TypeOK
  <2>4. QED
    BY <1>1, <2>2, <2>3 DEF BeginClaim, BeginHeartbeat, Begin, TypeOK
<1>2. ASSUME NEW a \in Agent, NEW t \in Ticket,
             NEW o \in Owners[CloneOf[a]] \cup {NoOwner},
             BeginRelease(a, t, o) \/ BeginCleanup(a, t)
      PROVE  TypeOK'
  <2>0. o \in Actor \cup {NoOwner}
    BY ConstantsAssumption
  <2>1. task' \in [Agent -> Task \cup {NoTask}]
    BY <1>2, <2>0, BeginTyped DEF BeginRelease, BeginCleanup, Kind, Step
  <2>2. QED
    BY <1>2, <2>1 DEF BeginRelease, BeginCleanup, Begin, TypeOK
<1>3. ASSUME NEW a \in Agent, Abort(a)
      PROVE  TypeOK'
  BY <1>3 DEF Abort, TypeOK
<1>4. ASSUME NEW a \in Agent, Query(a)
      PROVE  TypeOK'
  <2>1. task[a] # NoTask /\ remote[task[a].ticket] \in Nat
    BY <1>4, TaskFacts DEF Query
  <2>2. PICK found : found = FirstLease(a, task[a])
    OBVIOUS
  <2>3. task[a].kind = "claim" => found \in Lease
    <3>1. /\ now \in Nat /\ CloneOf[a] \in Clone /\ TaskReady(a)
          /\ task[a].ticket \in Ticket /\ task[a].due \in Nat
      BY <2>1, TaskFacts DEF TypeOK, TasksReady
    <3>2. QED
      BY <2>2, <3>1 DEF FirstLease, Lease, TaskReady
  <2>4. task' \in [Agent -> Task \cup {NoTask}]
    <3>1. [task[a] EXCEPT !.step = "fetch", !.sha = remote[task[a].ticket]]
            \in Task
      BY <2>1, TaskTyped DEF Step
    <3>2. task[a].kind = "claim" =>
            [task[a] EXCEPT !.step = "push", !.lease = found] \in Task
      BY <2>1, <2>3, TaskTyped DEF Step
    <3>3. QED
      BY <1>4, <2>2, <3>1, <3>2 DEF Query, TypeOK
  <2>5. QED
    BY <1>4, <2>4 DEF Query, TypeOK
<1>5. ASSUME NEW a \in Agent, Fetch(a)
      PROVE  TypeOK'
  <2> DEFINE seen == remote[task[a].ticket]
  <2>1. task[a] # NoTask /\ seen \in 0..Len(commits)
    BY <1>5, TaskFacts DEF Fetch
  <2>2. CASE seen # 0
    <3>1. commits[seen] \in Lease
      BY <2>1, <2>2 DEF TypeOK
    <3>2. [task[a] EXCEPT !.step = "push",
                          !.lease = Replacement(a, task[a], commits[seen])]
            \in Task
      BY <2>1, <3>1, PreparedIsLease, TaskTyped DEF Step, TasksReady
    <3>3. QED
      BY <1>5, <3>2 DEF Fetch, TypeOK
  <2>3. CASE seen = 0
    BY <1>5, <2>3 DEF Fetch, TypeOK
  <2>4. QED
    BY <2>2, <2>3
<1>6. ASSUME NEW a \in Agent, PushUpdate(a)
      PROVE  TypeOK'
  <2> DEFINE k == task[a]
             new == Len(commits) + 1
  <2>1. /\ k # NoTask /\ k.lease \in Lease /\ k.ticket \in Ticket
        /\ k.sha \in 0..Len(commits) /\ new \in Nat
    <3>1. k # NoTask /\ k.step = "push" /\ k.kind \in {"claim", "heartbeat"}
      BY <1>6 DEF PushUpdate
    <3>2. k \in Task /\ TaskReady(a)
      BY <3>1, TaskFacts DEF TasksReady
    <3>3. k.lease \in Lease
      BY <3>1, <3>2 DEF TaskReady, Task
    <3>4. QED
      BY <3>1, <3>2, <3>3, TaskFacts DEF TaskReady
  <2>2. commits' \in Seq(Lease) /\ Len(commits') = new
    BY <1>6, <2>1 DEF PushUpdate, TypeOK
  <2>3. remote' \in [Ticket -> 0..Len(commits')]
    BY <1>6, <2>1, <2>2 DEF PushUpdate, TypeOK
  <2>4. fate' \in Seq(Fate) /\ Len(fate') = Len(commits')
    <3>1. \A s \in 1..new : fate'[s] \in Fate
      BY <1>6, <2>1 DEF PushUpdate, TypeOK, Fate
    <3>2. fate' = [s \in 1..new |-> fate'[s]]
      BY <1>6 DEF PushUpdate
    <3>3. QED
      BY <2>1, <2>2, <3>1, <3>2
  <2>5. root' \in Seq(Nat) /\ Len(root') = Len(commits')
    <3>1. (IF k.sha = 0 THEN new ELSE root[k.sha]) \in Nat
      BY <2>1 DEF TypeOK
    <3>2. QED
      BY <1>6, <2>1, <2>2, <3>1 DEF PushUpdate, TypeOK
  <2>6. task' \in [Agent -> Task \cup {NoTask}]
    <3>1. [k EXCEPT !.step = "sync", !.sha = new] \in Task
      BY <2>1, TaskTyped DEF Step
    <3>2. QED
      BY <1>6, <3>1 DEF PushUpdate, TypeOK
  <2>7. QED
    BY <1>6, <2>2, <2>3, <2>4, <2>5, <2>6 DEF PushUpdate, TypeOK
<1>7. ASSUME NEW a \in Agent, PushDelete(a)
      PROVE  TypeOK'
  <2>1. task[a] # NoTask
    BY <1>7 DEF PushDelete
  <2>2. fate' \in Seq(Fate) /\ Len(fate') = Len(fate)
    <3>1. \A s \in DOMAIN fate : fate'[s] \in Fate
      BY <1>7 DEF PushDelete, TypeOK, Fate
    <3>2. DOMAIN fate = 1..Len(fate) /\ Len(fate) \in Nat
      BY DEF TypeOK
    <3>3. fate' = [s \in 1..Len(fate) |-> fate'[s]]
      BY <1>7, <3>2 DEF PushDelete
    <3>4. QED
      BY <3>1, <3>2, <3>3
  <2>3. [task[a] EXCEPT !.step = "unlock", !.sha = 0] \in Task
    BY <2>1, TaskTyped DEF Step
  <2>4. task' \in [Agent -> Task \cup {NoTask}]
    BY <1>7, <2>3 DEF PushDelete, TypeOK
  <2>5. remote' \in [Ticket -> 0..Len(commits)]
    BY <1>7, <2>1, TaskFacts DEF PushDelete, TypeOK
  <2>6. QED
    BY <1>7, <2>2, <2>4, <2>5 DEF PushDelete, TypeOK
<1>8. ASSUME NEW a \in Agent, SyncCheck(a)
      PROVE  TypeOK'
  <2>1. task[a] # NoTask
    BY <1>8 DEF SyncCheck
  <2>2. [task[a] EXCEPT !.step = "write"] \in Task
    BY <2>1, TaskTyped DEF Step
  <2>3. task' \in [Agent -> Task \cup {NoTask}]
    BY <1>8, <2>2 DEF SyncCheck, TypeOK
  <2>4. local' \in [Clone -> LockFile \cup {NoLock}]
    BY <1>8, <2>1, TaskFacts, LocalLockTyped DEF SyncCheck, TypeOK
  <2>5. QED
    BY <1>8, <2>3, <2>4 DEF SyncCheck, TypeOK
<1>9. ASSUME NEW a \in Agent, SyncWrite(a)
      PROVE  TypeOK'
  <2> DEFINE k == task[a]
             file == [ticket |-> k.ticket, owner |-> k.lease.owner,
                      expires |-> k.lease.expires, sha |-> k.sha]
  <2>1. k # NoTask /\ k.step = "write"
    BY <1>9 DEF SyncWrite
  <2>2. k.sha # 0 /\ k.sha \in 0..Len(commits) /\ commits[k.sha] = k.lease
    BY <2>1 DEF TasksReady, TaskReady
  <2>3. k.lease \in Lease
    BY <2>2 DEF TypeOK
  <2>4. k.sha \in Nat \ {0}
    BY <2>2 DEF TypeOK
  <2>5. file \in LockFile
    BY <2>1, <2>3, <2>4, TaskFacts DEF LockFile, Lease
  <2>6. local' \in [Clone -> LockFile \cup {NoLock}]
    BY <1>9, <2>5 DEF SyncWrite, TypeOK
  <2>7. QED
    BY <1>9, <2>6 DEF SyncWrite, TypeOK
<1>10. ASSUME NEW a \in Agent, UnlockLocal(a)
       PROVE  TypeOK'
  <2>1. task[a] # NoTask
    BY <1>10 DEF UnlockLocal
  <2>2. local' \in [Clone -> LockFile \cup {NoLock}]
    BY <1>10, <2>1, TaskFacts, LocalLockTyped DEF UnlockLocal, TypeOK
  <2>3. QED
    BY <1>10, <2>2 DEF UnlockLocal, TypeOK
<1>14. ASSUME NEW c \in Clone, NEW t \in Ticket, NEW o \in Owners[c], NEW d \in Plain[c],
              PlainAcquire(c, t, o, d)
       PROVE  TypeOK'
  <2>1. Clock(c) + d \in Nat /\ o \in Actor
    BY ConstantsAssumption DEF TypeOK, Clock
  <2>2. [ticket |-> t, owner |-> o, expires |-> Clock(c) + d, sha |-> 0] \in LockFile
    BY <2>1 DEF LockFile
  <2>3. QED
    BY <1>14, <2>2 DEF PlainAcquire, TypeOK
<1>11. CASE Tick
  BY <1>11 DEF Tick, TypeOK
<1>12. CASE UNCHANGED vars
  BY <1>12 DEF vars, TypeOK, Sha
<1>15. ASSUME NEW c \in Clone, NEW d \in Plain[c],
              PlainHeartbeat(c, d)
       PROVE  TypeOK'
  BY <1>15, Heartbeaten DEF PlainHeartbeat, TypeOK
<1>16. ASSUME NEW c \in Clone, PlainRelease(c)
       PROVE  TypeOK'
  BY <1>16 DEF PlainRelease, TypeOK
<1>13. QED
  BY <1>1, <1>2, <1>3, <1>4, <1>5, <1>6, <1>7, <1>8, <1>9, <1>10, <1>11,
     <1>12, <1>14, <1>15, <1>16, ConstantsAssumption DEF Next

-----------------------------------------------------------------------------
(* A command that was ready stays ready as long as it does nothing and the *)
(* remote does not change: an expiry it saw lie in the past stays past.    *)
LEMMA StaysReady ==
  ASSUME TypeOK, NEW b \in Agent, task[b] # NoTask, TaskReady(b),
         task'[b] = task[b], commits' = commits, remote' = remote,
         now' \in Nat, now' >= now
  PROVE  TaskReady(b)'
<1> DEFINE k == task[b]
<1>1. /\ k \in Task /\ k.sha \in 0..Len(commits)
      /\ CloneOf[b] \in Clone /\ Skew[CloneOf[b]] \in Nat /\ now \in Nat
  BY TaskFacts, ConstantsAssumption DEF TaskReady, TypeOK
<1>2. ASSUME k.sha # 0
      PROVE  commits[k.sha].expires \in Nat
  <2>1. k.sha \in 1..Len(commits)
    BY <1>1, <1>2
  <2>2. commits[k.sha] \in Lease
    BY <2>1 DEF TypeOK
  <2>3. QED
    BY <2>2 DEF Lease
<1>3. ASSUME k.sha # 0, NEW lease,
             MaySucceed(lease, commits[k.sha], CloneOf[b])
      PROVE  MaySucceed(lease, commits[k.sha], CloneOf[b])'
  BY <1>1, <1>2, <1>3 DEF MaySucceed, Clock
<1>4. ASSUME k.sha # 0, Clock(CloneOf[b]) >= commits[k.sha].expires
      PROVE  Clock(CloneOf[b])' >= commits[k.sha].expires
  BY <1>1, <1>2, <1>4 DEF Clock
<1>5. QED
  BY <1>3, <1>4 DEF TaskReady

(* The refs, the commits and their history are left alone. *)
RemoteUnchanged ==
  commits' = commits /\ remote' = remote /\ fate' = fate /\ root' = root

(* What is left to show of an action that leaves the remote alone. *)
LEMMA LocalStep ==
  ASSUME TypeOK, LeaseInv, RemoteUnchanged, now' \in Nat, now' >= now,
         \A b \in Agent : task'[b] # NoTask /\ task'[b] # task[b] => TaskReady(b)',
         \A c \in Clone :
           \/ local'[c] \in {local[c], NoLock}
           \/ local'[c].sha = 0
           \/ CopyOf(local'[c], local'[c].sha)
  PROVE  LeaseInv'
<1>1. HeadsAgree' /\ RootsAgree'
  BY DEF LeaseInv, HeadsAgree, RootsAgree, Sha, RemoteUnchanged
<1>2. TasksReady'
  BY StaysReady DEF LeaseInv, TasksReady, RemoteUnchanged
<1>3. LocksAgree'
  <2> SUFFICES ASSUME NEW c \in Clone, local'[c] # NoLock, local'[c].sha # 0
               PROVE  CopyOf(local[c], local[c].sha)'
    BY DEF LocksAgree
  <2>1. CASE local'[c] = local[c]
    BY <2>1 DEF LeaseInv, LocksAgree, CopyOf, Sha, RemoteUnchanged
  <2>2. CASE CopyOf(local'[c], local'[c].sha)
    BY <2>2 DEF CopyOf, Sha, RemoteUnchanged
  <2>3. QED
    BY <2>1, <2>2
<1>4. QED
  BY <1>1, <1>2, <1>3 DEF LeaseInv

(* A command is ready right after it began. *)
LEMMA BeginReady ==
  ASSUME TypeOK, NEW a \in Agent, NEW kind, NEW step \in {"query", "fetch", "unlock"},
         NEW t \in Ticket, NEW owner, NEW length, NEW due,
         Begin(a, kind, step, t, owner, length, due),
         step = "fetch" => remote[t] # 0,
         kind \in {"claim", "heartbeat"} => owner \in Actor
  PROVE  /\ TaskReady(a)'
         /\ \A b \in Agent \ {a} : task'[b] = task[b]
<1> DEFINE k == [kind |-> kind, step |-> step, ticket |-> t, owner |-> owner,
                 length |-> length, due |-> due, lease |-> NoLease,
                 sha |-> IF step = "fetch" THEN remote[t] ELSE 0]
<1>1. task'[a] = k /\ commits' = commits /\ remote' = remote
  BY DEF Begin, TypeOK
<1>2. /\ k.step = step /\ k.kind = kind /\ k.owner = owner
      /\ k.sha = IF step = "fetch" THEN remote[t] ELSE 0
  OBVIOUS
<1>3. k.sha \in 0..Len(commits)
  BY <1>2 DEF TypeOK
<1>4. TaskReady(a)'
  BY <1>1, <1>2, <1>3 DEF TaskReady
<1>5. QED
  BY <1>4 DEF Begin, TypeOK

(* The lock a clone reads is its file's, or none.                          *)
LEMMA LocalLockIs ==
  \A c : LocalLock(c) \in {local[c], NoLock}
BY DEF LocalLock

(* The record a fetch prepares may succeed the one it found. *)
LEMMA ReplacementSucceeds ==
  ASSUME TypeOK, NEW a \in Agent, task[a] # NoTask, NEW found \in Lease,
         task[a].kind \in {"claim", "heartbeat"}, Accepts(a, task[a], found)
  PROVE  /\ MaySucceed(Replacement(a, task[a], found), found, CloneOf[a])
         /\ Replacement(a, task[a], found).ticket = found.ticket
<1> DEFINE k == task[a]
           c == CloneOf[a]
<1>1. /\ found.fencing \in Nat /\ found.expires \in Nat
      /\ Clock(c) \in Nat /\ k.length \in Nat
  <2>1. now \in Nat /\ Skew[c] \in Nat /\ k.length \in Duration \cup {0}
    BY ConstantsAssumption DEF TypeOK, Task
  <2>2. \A d \in Duration : d \in Nat
    BY ConstantsAssumption
  <2>3. QED
    BY <2>1, <2>2 DEF Clock, Lease
<1>2. CASE k.kind = "claim"
  <2> DEFINE r == Replacement(a, k, found)
  <2>1. r = [found EXCEPT !.owner = k.owner, !.clone = c,
                          !.expires = k.due, !.fencing = found.fencing + 1]
    BY <1>2 DEF Replacement, Lease
  <2>2. r.owner = k.owner /\ r.fencing = found.fencing + 1
        /\ r.ticket = found.ticket
    BY <2>1 DEF Lease
  <2>3. found.owner = k.owner \/ Clock(c) >= found.expires
    BY <1>2 DEF Accepts
  <2>4. QED
    BY <2>2, <2>3 DEF MaySucceed
<1>3. CASE k.kind = "heartbeat"
  <2> DEFINE r == Replacement(a, k, found)
             later == Clock(c) + k.length
             e == IF later >= found.expires THEN later ELSE found.expires
  <2>1. r = [found EXCEPT !.clone = c, !.expires = e]
    BY <1>3 DEF Replacement, Lease
  <2>2. r.owner = found.owner /\ r.fencing = found.fencing
        /\ r.ticket = found.ticket /\ r.expires = e
    BY <2>1 DEF Lease
  <2>3. e >= found.expires
    BY <1>1
  <2>4. QED
    BY <2>2, <2>3 DEF MaySucceed
<1>4. QED
  BY <1>2, <1>3

(* Every commit holds a lease.                                             *)
LEMMA CommitIsLease ==
  ASSUME TypeOK
  PROVE  \A s \in Sha : commits[s] \in Lease
BY DEF TypeOK, Sha

(* A push that creates or updates a ref. *)
LEMMA PushUpdateStep ==
  ASSUME TypeOK, LeaseInv, NEW a \in Agent, PushUpdate(a)
  PROVE  LeaseInv'
<1> DEFINE k == task[a]
           new == Len(commits) + 1
<1>1. /\ k # NoTask /\ k.step = "push" /\ k.kind \in {"claim", "heartbeat"}
      /\ remote[k.ticket] = k.sha
      /\ TaskReady(a) /\ k.ticket \in Ticket
      /\ Len(commits) \in Nat /\ k.sha \in 0..Len(commits)
  <2>1. k # NoTask /\ k.step = "push" /\ k.kind \in {"claim", "heartbeat"}
        /\ remote[k.ticket] = k.sha
    BY DEF PushUpdate, LeaseHolds
  <2>2. QED
    BY <2>1, TaskFacts DEF LeaseInv, TasksReady, TaskReady
<1>2. k.lease \in Lease /\ k.lease.ticket = k.ticket
  BY <1>1, TaskFacts DEF TaskReady, Task
<1>3. /\ Len(commits') = new
      /\ commits'[new] = k.lease
      /\ \A s \in Sha : commits'[s] = commits[s]
  BY <1>1, <1>2 DEF PushUpdate, TypeOK, Sha
<1>4. /\ Len(root') = new
      /\ root'[new] = IF k.sha = 0 THEN new ELSE root[k.sha]
      /\ \A s \in Sha : root'[s] = root[s]
  <2>1. (IF k.sha = 0 THEN new ELSE root[k.sha]) \in Nat
    BY <1>1 DEF TypeOK
  <2>2. QED
    BY <1>1, <2>1 DEF PushUpdate, TypeOK, Sha
<1>5. /\ Sha' = Sha \cup {new} /\ new \notin Sha
      /\ \A s \in Sha : s \in Nat /\ s < new
  BY <1>1, <1>3 DEF Sha
<1>6. /\ remote' \in [Ticket -> Nat] /\ remote'[k.ticket] = new
      /\ \A t \in Ticket \ {k.ticket} : remote'[t] = remote[t]
  BY <1>1 DEF PushUpdate, TypeOK
<1>7. /\ fate'[new] = "head"
      /\ \A s \in Sha : fate'[s] = "head" =>
           fate[s] = "head" /\ s # remote[k.ticket]
      /\ \A s \in Sha : s # remote[k.ticket] => fate'[s] = fate[s]
  <2>1. fate' = [s \in Sha' |->
           CASE s = new -> "head"
             [] s = remote[k.ticket] ->
                  IF commits[s].owner = k.lease.owner
                  THEN "withdrawn" ELSE "lost"
             [] OTHER -> fate[s]]
    BY <1>3 DEF PushUpdate, Sha
  <2>2. fate'[new] = "head"
    BY <1>1, <1>5, <2>1
  <2>3. ASSUME NEW s \in Sha, s # remote[k.ticket]
        PROVE  fate'[s] = fate[s]
    BY <1>5, <2>1, <2>3
  <2>4. ASSUME NEW s \in Sha, s = remote[k.ticket]
        PROVE  fate'[s] \in {"withdrawn", "lost"}
    BY <1>5, <2>1, <2>4
  <2>5. QED
    BY <2>2, <2>3, <2>4
<1>8. HeadsAgree'
  <2>1. ASSUME NEW t \in Ticket, remote'[t] # 0
        PROVE  commits'[remote'[t]].ticket = t /\ fate'[remote'[t]] = "head"
    <3>1. CASE t = k.ticket
      BY <1>2, <1>3, <1>6, <1>7, <3>1
    <3>2. CASE t # k.ticket
      <4>1. remote'[t] = remote[t] /\ remote[t] \in Sha
        BY <1>6, <2>1, <3>2 DEF TypeOK, Sha
      <4>2. commits[remote[t]].ticket = t /\ fate[remote[t]] = "head"
        BY <2>1, <4>1 DEF LeaseInv, HeadsAgree
      <4>3. remote[t] # remote[k.ticket]
        BY <1>1, <2>1, <3>2, <4>1, <4>2 DEF LeaseInv, HeadsAgree
      <4>4. QED
        BY <1>3, <1>7, <4>1, <4>2, <4>3
    <3>3. QED
      BY <3>1, <3>2
  <2>2. ASSUME NEW s \in Sha', fate'[s] = "head"
        PROVE  remote'[commits'[s].ticket] = s
    <3>1. CASE s = new
      BY <1>2, <1>3, <1>6, <3>1
    <3>2. CASE s \in Sha
      <4>1. fate[s] = "head" /\ s # remote[k.ticket] /\ commits'[s] = commits[s]
        BY <1>3, <1>7, <2>2, <3>2
      <4>2. remote[commits[s].ticket] = s
        BY <3>2, <4>1 DEF LeaseInv, HeadsAgree
      <4>3. commits[s].ticket \in Ticket
        BY <3>2, CommitIsLease DEF Lease
      <4>4. QED
        BY <1>6, <4>1, <4>2, <4>3
    <3>3. QED
      BY <1>5, <3>1, <3>2
  <2>3. QED
    BY <2>1, <2>2 DEF HeadsAgree
<1>9. RootsAgree'
  <2>1. ASSUME NEW s \in Sha'
        PROVE  root'[s] \in 1..s
    <3>1. CASE s = new /\ k.sha = 0
      BY <1>1, <1>4, <3>1
    <3>2. CASE s = new /\ k.sha # 0
      <4>1. k.sha \in Sha
        BY <1>1, <3>2 DEF Sha
      <4>2. root[k.sha] \in 1..k.sha
        BY <4>1 DEF LeaseInv, RootsAgree
      <4>3. QED
        BY <1>1, <1>4, <3>2, <4>2
    <3>3. CASE s \in Sha
      BY <1>4, <3>3 DEF LeaseInv, RootsAgree
    <3>4. QED
      BY <1>5, <3>1, <3>2, <3>3
  <2>2. ASSUME NEW s \in Sha', fate'[s] = "head",
               NEW r \in Sha', root'[r] = root'[s]
        PROVE  r <= s
    <3>1. CASE s = new
      BY <1>1, <1>5, <3>1
    <3>2. CASE s \in Sha /\ r \in Sha
      BY <1>4, <1>7, <2>2, <3>2 DEF LeaseInv, RootsAgree
    <3>3. CASE s \in Sha /\ r = new
      <4>1. fate[s] = "head" /\ s # k.sha /\ root[s] = root'[new] /\ root[s] \in 1..s
        BY <1>1, <1>4, <1>7, <2>2, <3>3 DEF LeaseInv, RootsAgree
      <4>2. k.sha # 0
        BY <1>4, <1>5, <3>3, <4>1
      <4>3. k.sha \in Sha
        BY <1>1, <4>2 DEF Sha
      <4>4. fate[k.sha] = "head" /\ root[k.sha] = root[s]
        BY <1>1, <1>4, <4>1, <4>2 DEF LeaseInv, HeadsAgree
      <4>5. k.sha <= s /\ s <= k.sha
        BY <3>3, <4>1, <4>3, <4>4 DEF LeaseInv, RootsAgree
      <4>6. QED
        BY <1>1, <1>5, <3>3, <4>1, <4>5
    <3>4. QED
      BY <1>5, <3>1, <3>2, <3>3
  <2>3. QED
    BY <2>1, <2>2 DEF RootsAgree
<1>10. TasksReady'
  <2> SUFFICES ASSUME NEW b \in Agent, task'[b] # NoTask
               PROVE  TaskReady(b)'
    BY DEF TasksReady
  <2>1. CASE b = a
    <3>1. task'[a] = [k EXCEPT !.step = "sync", !.sha = new]
      BY <1>1 DEF PushUpdate, TypeOK
    <3>2. /\ task'[a].step = "sync" /\ task'[a].sha = new
          /\ task'[a].lease = k.lease /\ task'[a].ticket = k.ticket
          /\ task'[a].kind = k.kind /\ task'[a].owner = k.owner
      BY <1>1, <3>1, TaskFacts DEF Task
    <3>3. QED
      BY <1>1, <1>2, <1>3, <2>1, <3>2 DEF TaskReady
  <2>2. CASE b # a
    <3> DEFINE kb == task[b]
    <3>1. task'[b] = kb /\ kb # NoTask /\ TaskReady(b)
      BY <2>2 DEF PushUpdate, TypeOK, LeaseInv, TasksReady
    <3>2. kb.sha \in 0..Len(commits) /\ kb.ticket \in Ticket
      BY <3>1, TaskFacts DEF TaskReady
    <3>3. kb.sha # 0 => commits'[kb.sha] = commits[kb.sha]
      BY <1>1, <1>3, <3>2 DEF Sha
    <3>4. remote'[kb.ticket] = kb.sha => remote[kb.ticket] = kb.sha
      BY <1>1, <1>6, <3>2
    <3>5. kb.sha \in 0..Len(commits')
      BY <1>1, <1>3, <3>2
    <3>6. now' = now
      BY DEF PushUpdate
    <3>7. QED
      BY <3>1, <3>3, <3>4, <3>5, <3>6 DEF TaskReady, MaySucceed, Clock
  <2>3. QED
    BY <2>1, <2>2
<1>11. LocksAgree'
  <2> SUFFICES ASSUME NEW c \in Clone, local[c] # NoLock, local[c].sha # 0
               PROVE  CopyOf(local[c], local[c].sha)'
    BY DEF LocksAgree, PushUpdate
  <2>1. CopyOf(local[c], local[c].sha)
    BY DEF LeaseInv, LocksAgree
  <2>2. local' = local
    BY DEF PushUpdate
  <2>3. QED
    BY <1>3, <1>5, <2>1, <2>2 DEF CopyOf
<1>12. QED
  BY <1>8, <1>9, <1>10, <1>11 DEF LeaseInv

(* A push that deletes a ref. *)
LEMMA PushDeleteStep ==
  ASSUME TypeOK, LeaseInv, NEW a \in Agent, PushDelete(a)
  PROVE  LeaseInv'
<1> DEFINE k == task[a]
<1>1. /\ k # NoTask /\ k.ticket \in Ticket /\ k.kind \in {"release", "cleanup"}
      /\ commits' = commits /\ root' = root /\ local' = local /\ now' = now
  BY TaskFacts DEF PushDelete
<1>2. /\ remote' \in [Ticket -> 0..Len(commits)] /\ remote'[k.ticket] = 0
      /\ \A t \in Ticket \ {k.ticket} : remote'[t] = remote[t]
  BY <1>1 DEF PushDelete, TypeOK
<1>3. /\ \A s \in Sha : fate'[s] = "head" =>
           fate[s] = "head" /\ s # remote[k.ticket]
      /\ \A s \in Sha : s # remote[k.ticket] => fate'[s] = fate[s]
  <2>1. DOMAIN fate = Sha
    BY DEF TypeOK, Sha
  <2>2. ASSUME NEW s \in Sha, s # remote[k.ticket]
        PROVE  fate'[s] = fate[s]
    BY <2>1, <2>2 DEF PushDelete
  <2>3. ASSUME NEW s \in Sha, s = remote[k.ticket]
        PROVE  fate'[s] \in {"withdrawn", "lost"}
    BY <2>1, <2>3 DEF PushDelete
  <2>4. QED
    BY <2>2, <2>3
<1>4. Sha' = Sha
  BY <1>1 DEF Sha
<1>5. HeadsAgree'
  <2>1. ASSUME NEW t \in Ticket, remote'[t] # 0
        PROVE  commits'[remote'[t]].ticket = t /\ fate'[remote'[t]] = "head"
    <3>1. t # k.ticket /\ remote'[t] = remote[t] /\ remote[t] \in Sha
      BY <1>2, <2>1 DEF TypeOK, Sha
    <3>2. commits[remote[t]].ticket = t /\ fate[remote[t]] = "head"
      BY <2>1, <3>1 DEF LeaseInv, HeadsAgree
    <3>3. remote[t] # remote[k.ticket]
      BY <1>1, <2>1, <3>1, <3>2 DEF LeaseInv, HeadsAgree
    <3>4. QED
      BY <1>1, <1>3, <3>1, <3>2, <3>3
  <2>2. ASSUME NEW s \in Sha', fate'[s] = "head"
        PROVE  remote'[commits'[s].ticket] = s
    <3>1. s \in Sha /\ fate[s] = "head" /\ s # remote[k.ticket]
      BY <1>3, <1>4, <2>2
    <3>2. remote[commits[s].ticket] = s /\ commits[s].ticket \in Ticket
      BY <3>1, CommitIsLease DEF LeaseInv, HeadsAgree, Lease
    <3>3. QED
      BY <1>1, <1>2, <3>1, <3>2
  <2>3. QED
    BY <2>1, <2>2 DEF HeadsAgree
<1>6. RootsAgree'
  BY <1>1, <1>3, <1>4 DEF LeaseInv, RootsAgree
<1>7. TasksReady'
  <2> SUFFICES ASSUME NEW b \in Agent, task'[b] # NoTask
               PROVE  TaskReady(b)'
    BY DEF TasksReady
  <2>1. CASE b = a
    <3>1. task'[a] = [k EXCEPT !.step = "unlock", !.sha = 0]
      BY <1>1 DEF PushDelete, TypeOK
    <3>2. /\ task'[a].step = "unlock" /\ task'[a].sha = 0
          /\ task'[a].kind = k.kind
      BY <1>1, <3>1, TaskFacts DEF Task
    <3>3. Len(commits') \in Nat
      BY <1>1 DEF TypeOK
    <3>4. QED
      BY <1>1, <2>1, <3>2, <3>3 DEF TaskReady
  <2>2. CASE b # a
    <3> DEFINE kb == task[b]
    <3>1. task'[b] = kb /\ kb # NoTask /\ TaskReady(b)
      BY <2>2 DEF PushDelete, TypeOK, LeaseInv, TasksReady
    <3>2. kb.sha \in 0..Len(commits) /\ kb.ticket \in Ticket
      BY <3>1, TaskFacts DEF TaskReady
    <3>3. kb.sha # 0 /\ remote'[kb.ticket] = kb.sha => remote[kb.ticket] = kb.sha
      BY <1>1, <1>2, <3>2
    <3>4. QED
      BY <1>1, <3>1, <3>2, <3>3 DEF TaskReady, MaySucceed, Clock
  <2>3. QED
    BY <2>1, <2>2
<1>8. LocksAgree'
  BY <1>1, <1>4 DEF LeaseInv, LocksAgree, CopyOf
<1>9. QED
  BY <1>5, <1>6, <1>7, <1>8 DEF LeaseInv

(* Every step of the system preserves the invariant. *)
LEMMA LeaseStep == TypeOK /\ LeaseInv /\ [Next]_vars => LeaseInv'
<1> SUFFICES ASSUME TypeOK, LeaseInv, [Next]_vars
             PROVE  LeaseInv'
  OBVIOUS
<1>t. now \in Nat
  BY DEF TypeOK
<1>1. ASSUME NEW a \in Agent, NEW t \in Ticket, NEW d \in Duration,
             NEW o \in Owners[CloneOf[a]],
             BeginClaim(a, t, o, d) \/ BeginHeartbeat(a, t, o, d)
      PROVE  LeaseInv'
  <2>0. o \in Actor
    BY ConstantsAssumption
  <2>1. TaskReady(a)' /\ \A b \in Agent \ {a} : task'[b] = task[b]
    BY <1>1, <2>0, BeginReady DEF BeginClaim, BeginHeartbeat
  <2>2. RemoteUnchanged /\ now' = now
    BY <1>1 DEF BeginClaim, BeginHeartbeat, Begin, RemoteUnchanged
  <2>3. \A c \in Clone : local'[c] \in {local[c], NoLock}
    BY <1>1, LocalLockIs DEF BeginClaim, BeginHeartbeat, TypeOK
  <2>4. QED
    BY <1>t, <2>1, <2>2, <2>3, LocalStep
<1>2. ASSUME NEW a \in Agent, NEW t \in Ticket,
             NEW o \in Owners[CloneOf[a]] \cup {NoOwner},
             BeginRelease(a, t, o) \/ BeginCleanup(a, t)
      PROVE  LeaseInv'
  <2>1. TaskReady(a)' /\ \A b \in Agent \ {a} : task'[b] = task[b]
    BY <1>2, BeginReady DEF BeginRelease, BeginCleanup
  <2>2. RemoteUnchanged /\ now' = now /\ local' = local
    BY <1>2 DEF BeginRelease, BeginCleanup, Begin, RemoteUnchanged
  <2>3. QED
    BY <1>t, <2>1, <2>2, LocalStep
<1>3. ASSUME NEW a \in Agent, Abort(a)
      PROVE  LeaseInv'
  <2>1. /\ RemoteUnchanged /\ now' = now /\ local' = local
        /\ \A b \in Agent : task'[b] \in {task[b], NoTask}
    BY <1>3 DEF Abort, RemoteUnchanged, TypeOK
  <2>2. QED
    BY <1>t, <2>1, LocalStep
<1>4. ASSUME NEW a \in Agent, Query(a)
      PROVE  LeaseInv'
  <2> DEFINE k == task[a]
             sha == remote[k.ticket]
  <2>1. /\ k # NoTask /\ k \in Task /\ k.step = "query" /\ k.ticket \in Ticket
        /\ sha \in 0..Len(commits) /\ TaskReady(a)
    BY <1>4, TaskFacts DEF Query, LeaseInv, TasksReady
  <2>2. /\ RemoteUnchanged /\ now' = now /\ local' = local
        /\ \A b \in Agent \ {a} : task'[b] = task[b]
    BY <1>4 DEF Query, RemoteUnchanged, TypeOK
  <2>3. ASSUME task'[a] # NoTask
        PROVE  TaskReady(a)'
    <3>1. CASE sha # 0
      <4>1. task'[a] = [k EXCEPT !.step = "fetch", !.sha = sha]
        BY <1>4, <3>1 DEF Query, TypeOK
      <4>2. /\ task'[a].step = "fetch" /\ task'[a].sha = sha
            /\ task'[a].kind = k.kind /\ task'[a].owner = k.owner
        BY <2>1, <4>1 DEF Task
      <4>3. QED
        BY <2>1, <2>2, <3>1, <4>2 DEF TaskReady, RemoteUnchanged
    <3>2. CASE sha = 0
      <4>1. k.kind = "claim"
        BY <1>4, <2>3, <3>2 DEF Query, TypeOK
      <4>2. PICK l : l = FirstLease(a, k)
        OBVIOUS
      <4>3. l \in Lease /\ l.ticket = k.ticket /\ l.fencing = 1
        BY <2>1, <4>1, <4>2, TaskFacts DEF FirstLease, Lease, TaskReady
      <4>4. task'[a] = [k EXCEPT !.step = "push", !.lease = l]
        BY <1>4, <3>2, <4>1, <4>2 DEF Query, TypeOK
      <4>5. /\ task'[a].step = "push" /\ task'[a].kind = "claim"
            /\ task'[a].lease = l /\ task'[a].ticket = k.ticket
            /\ task'[a].sha = k.sha /\ task'[a].owner = k.owner
        BY <2>1, <4>1, <4>4 DEF Task
      <4>6. commits' = commits /\ remote' = remote
        BY <2>2 DEF RemoteUnchanged
      <4>7. k.sha # 0 => remote'[k.ticket] # k.sha
        BY <3>2, <4>6
      <4>8. k.sha \in 0..Len(commits') /\ l # NoLease /\ k.owner \in Actor
        BY <2>1, <4>1, <4>3, <4>6, NullAssumption DEF TaskReady
      <4>9. QED
        BY <4>3, <4>5, <4>7, <4>8 DEF TaskReady
    <3>3. QED
      BY <3>1, <3>2
  <2>4. QED
    BY <1>t, <2>2, <2>3, LocalStep
<1>5. ASSUME NEW a \in Agent, Fetch(a)
      PROVE  LeaseInv'
  <2> DEFINE k == task[a]
             seen == remote[k.ticket]
  <2>1. /\ k # NoTask /\ k \in Task /\ k.step = "fetch" /\ k.ticket \in Ticket
        /\ seen \in 0..Len(commits) /\ TaskReady(a)
        /\ k.sha # 0 /\ k.sha \in 0..Len(commits)
    BY <1>5, TaskFacts DEF Fetch, LeaseInv, TasksReady, TaskReady
  <2>2. /\ RemoteUnchanged /\ now' = now /\ local' = local
        /\ \A b \in Agent \ {a} : task'[b] = task[b]
    BY <1>5 DEF Fetch, RemoteUnchanged, TypeOK
  <2>3. ASSUME task'[a] # NoTask
        PROVE  TaskReady(a)'
    <3> DEFINE found == commits[seen]
    <3>1. seen # 0 /\ Accepts(a, k, found)
      BY <1>5, <2>3 DEF Fetch, TypeOK
    <3>2. found \in Lease /\ found.ticket = k.ticket
      BY <2>1, <3>1, CommitIsLease DEF LeaseInv, HeadsAgree, Sha
    <3>3. PICK l : l = Replacement(a, k, found)
      OBVIOUS
    <3>4. task'[a] = [k EXCEPT !.step = "push", !.lease = l]
      BY <1>5, <3>1, <3>3 DEF Fetch, TypeOK
    <3>5. /\ task'[a].step = "push" /\ task'[a].kind = k.kind
          /\ task'[a].lease = l /\ task'[a].ticket = k.ticket
          /\ task'[a].sha = k.sha /\ task'[a].owner = k.owner
      BY <2>1, <3>4 DEF Task
    <3>6. commits' = commits /\ remote' = remote /\ now' = now
      BY <2>2 DEF RemoteUnchanged
    <3>7. ASSUME k.kind \in {"claim", "heartbeat"}
          PROVE  /\ l # NoLease /\ l.ticket = k.ticket
                 /\ seen = k.sha => MaySucceed(l, commits[k.sha], CloneOf[a])
      <4>1. MaySucceed(l, found, CloneOf[a]) /\ l.ticket = found.ticket
        BY <2>1, <3>1, <3>2, <3>3, <3>7, ReplacementSucceeds
      <4>2. l \in Lease
        BY <2>1, <3>2, <3>3, <3>7, PreparedIsLease
      <4>3. QED
        BY <3>2, <4>1, <4>2, NullAssumption
    <3>8. ASSUME k.kind = "cleanup", seen = k.sha
          PROVE  Clock(CloneOf[a]) >= commits[k.sha].expires
      BY <3>1, <3>8 DEF Accepts
    <3>9. QED
      BY <2>1, <3>5, <3>6, <3>7, <3>8 DEF TaskReady, MaySucceed, Clock
  <2>4. QED
    BY <1>t, <2>2, <2>3, LocalStep
<1>6. ASSUME NEW a \in Agent, PushUpdate(a) \/ PushDelete(a)
      PROVE  LeaseInv'
  BY <1>6, PushUpdateStep, PushDeleteStep
<1>7. ASSUME NEW a \in Agent, SyncCheck(a)
      PROVE  LeaseInv'
  <2> DEFINE k == task[a]
  <2>1. /\ k # NoTask /\ k \in Task /\ k.step = "sync" /\ TaskReady(a)
    BY <1>7, TaskFacts DEF SyncCheck, LeaseInv, TasksReady
  <2>2. /\ RemoteUnchanged /\ now' = now
        /\ \A b \in Agent \ {a} : task'[b] = task[b]
    BY <1>7 DEF SyncCheck, RemoteUnchanged, TypeOK
  <2>3. \A c \in Clone : local'[c] \in {local[c], NoLock}
    BY <1>7, LocalLockIs DEF SyncCheck, TypeOK
  <2>4. ASSUME task'[a] # NoTask
        PROVE  TaskReady(a)'
    <3>1. task'[a] = [k EXCEPT !.step = "write"]
      BY <1>7, <2>4 DEF SyncCheck, TypeOK
    <3>2. /\ task'[a].step = "write" /\ task'[a].sha = k.sha
          /\ task'[a].lease = k.lease /\ task'[a].ticket = k.ticket
          /\ task'[a].kind = k.kind /\ task'[a].owner = k.owner
      BY <2>1, <3>1 DEF Task
    <3>3. QED
      BY <2>1, <2>2, <3>2 DEF TaskReady, RemoteUnchanged
  <2>5. QED
    BY <1>t, <2>2, <2>3, <2>4, LocalStep
<1>8. ASSUME NEW a \in Agent, SyncWrite(a)
      PROVE  LeaseInv'
  <2> DEFINE k == task[a]
             file == [ticket |-> k.ticket, owner |-> k.lease.owner,
                      expires |-> k.lease.expires, sha |-> k.sha]
  <2>1. /\ k # NoTask /\ k.sha # 0 /\ k.sha \in 0..Len(commits)
        /\ commits[k.sha] = k.lease /\ commits[k.sha].ticket = k.ticket
    BY <1>8, TaskFacts DEF SyncWrite, LeaseInv, TasksReady, TaskReady
  <2>2. /\ RemoteUnchanged /\ now' = now
        /\ \A b \in Agent : task'[b] \in {task[b], NoTask}
    BY <1>8 DEF SyncWrite, RemoteUnchanged, TypeOK
  <2>3. HeadsAgree' /\ RootsAgree'
    BY <2>2 DEF LeaseInv, HeadsAgree, RootsAgree, Sha, RemoteUnchanged
  <2>4. TasksReady'
    BY <1>t, <2>2, StaysReady DEF LeaseInv, TasksReady, RemoteUnchanged
  <2>5. ASSUME NEW c \in Clone, local'[c] # NoLock, local'[c].sha # 0
        PROVE  CopyOf(local[c], local[c].sha)'
    <3>1. commits' = commits
      BY <2>2 DEF RemoteUnchanged
    <3>2. CASE local'[c] = file
      <4>1. commits[k.sha] \in Lease /\ k.sha \in Sha
        BY <2>1, CommitIsLease DEF Sha
      <4>2. QED
        BY <2>1, <3>1, <3>2, <4>1 DEF CopyOf, Sha, Lease
    <3>3. CASE local'[c] = local[c]
      BY <2>5, <3>1, <3>3 DEF LeaseInv, LocksAgree, CopyOf, Sha
    <3>4. QED
      BY <1>8, <3>2, <3>3 DEF SyncWrite, TypeOK
  <2>6. QED
    BY <2>3, <2>4, <2>5 DEF LeaseInv, LocksAgree
<1>9. ASSUME NEW a \in Agent, UnlockLocal(a)
      PROVE  LeaseInv'
  <2>1. /\ RemoteUnchanged /\ now' = now
        /\ \A b \in Agent : task'[b] \in {task[b], NoTask}
    BY <1>9 DEF UnlockLocal, RemoteUnchanged, TypeOK
  <2>2. \A c \in Clone : local'[c] \in {local[c], NoLock}
    BY <1>9, LocalLockIs DEF UnlockLocal, TypeOK
  <2>3. QED
    BY <1>t, <2>1, <2>2, LocalStep
<1>10. CASE Tick
  <2>1. /\ RemoteUnchanged /\ now' \in Nat /\ now' >= now
        /\ task' = task /\ local' = local
    BY <1>t, <1>10 DEF Tick, RemoteUnchanged
  <2>2. QED
    BY <2>1, LocalStep
<1>11. CASE UNCHANGED vars
  <2>1. /\ RemoteUnchanged /\ now' = now /\ task' = task /\ local' = local
    BY <1>11 DEF vars, RemoteUnchanged
  <2>2. QED
    BY <1>t, <2>1, LocalStep
<1>13. ASSUME NEW c \in Clone, NEW t \in Ticket, NEW o \in Owners[c], NEW d \in Plain[c],
              PlainAcquire(c, t, o, d)
       PROVE  LeaseInv'
  <2>1. RemoteUnchanged /\ now' = now /\ task' = task
    BY <1>13 DEF PlainAcquire, RemoteUnchanged
  <2>2. \A e \in Clone : local'[e] = local[e] \/ local'[e].sha = 0
    BY <1>13 DEF PlainAcquire, TypeOK
  <2>3. QED
    BY <1>t, <2>1, <2>2, LocalStep
<1>14. ASSUME NEW c \in Clone, NEW d \in Plain[c], PlainHeartbeat(c, d)
       PROVE  LeaseInv'
  <2>1. RemoteUnchanged /\ now' = now /\ task' = task
    BY <1>14 DEF PlainHeartbeat, RemoteUnchanged
  <2>2. ASSUME local'[c].sha # 0
        PROVE  CopyOf(local'[c], local'[c].sha)
    <3>1. CopyOf(local[c], local[c].sha) /\ local[c] \in LockFile
      BY <1>14, <2>2, Heartbeaten DEF LeaseInv, LocksAgree
    <3>2. commits[local[c].sha].expires \in Nat /\ local[c].expires \in Nat
      BY <3>1, CommitIsLease DEF CopyOf, Lease, LockFile
    <3>3. local'[c].expires \in Nat
      BY <1>14, Heartbeaten
    <3>4. QED
      BY <1>14, <3>1, <3>2, <3>3, Heartbeaten DEF CopyOf
  <2>3. \A e \in Clone : \/ local'[e] \in {local[e], NoLock}
                         \/ local'[e].sha = 0
                         \/ CopyOf(local'[e], local'[e].sha)
    BY <1>14, <2>2, Heartbeaten
  <2>4. QED
    BY <1>t, <2>1, <2>3, LocalStep
<1>15. ASSUME NEW c \in Clone, PlainRelease(c)
       PROVE  LeaseInv'
  <2>1. RemoteUnchanged /\ now' = now /\ task' = task
        /\ \A e \in Clone : local'[e] \in {local[e], NoLock}
    BY <1>15 DEF PlainRelease, RemoteUnchanged, TypeOK
  <2>2. QED
    BY <1>t, <2>1, LocalStep
<1>12. QED
  BY <1>1, <1>2, <1>3, <1>4, <1>5, <1>6, <1>7, <1>8, <1>9, <1>10, <1>11,
     <1>13, <1>14, <1>15, ConstantsAssumption DEF Next

(* The invariant holds at the start.                                       *)
LEMMA LeaseInit == Init => TypeOK /\ LeaseInv
<1> SUFFICES ASSUME Init
             PROVE  TypeOK /\ LeaseInv
  OBVIOUS
<1>1. Len(commits) = 0 /\ Sha = {}
  BY DEF Init, Sha
<1>2. TypeOK
  BY <1>1 DEF Init, TypeOK
<1>3. LeaseInv
  BY <1>1 DEF Init, LeaseInv, HeadsAgree, RootsAgree, TasksReady, LocksAgree
<1>4. QED
  BY <1>2, <1>3

(* The inductive invariant holds in every reachable state. *)
THEOREM LeaseInvariant == Spec => [](TypeOK /\ LeaseInv)
<1>1. Init => TypeOK /\ LeaseInv
  BY LeaseInit
<1>2. TypeOK /\ LeaseInv /\ [Next]_vars => (TypeOK /\ LeaseInv)'
  BY TypeStep, LeaseStep DEF LeaseInv
<1>3. QED
  BY <1>1, <1>2, PTL DEF Spec

(* Type correctness of the distributed lease. *)
THEOREM TypeCorrect == Spec => []TypeOK
BY LeaseInvariant, PTL

-----------------------------------------------------------------------------
(* As long as a ref exists its fencing tokens never decrease, and increase *)
(* from owner to owner, whatever the clocks of the clones say.             *)
LEMMA FencingStep ==
  ASSUME TypeOK, LeaseInv, FencingOrdersOwners, [Next]_vars
  PROVE  FencingOrdersOwners'
<1>1. CASE commits' = commits /\ root' = root
  BY <1>1 DEF FencingOrdersOwners, Sha
<1>2. ASSUME NEW a \in Agent, PushUpdate(a)
      PROVE  FencingOrdersOwners'
  <2> DEFINE k == task[a]
             new == Len(commits) + 1
  <2>1. /\ k # NoTask /\ TaskReady(a) /\ remote[k.ticket] = k.sha
        /\ k.ticket \in Ticket /\ Len(commits) \in Nat
        /\ k.sha \in 0..Len(commits) /\ k.step = "push"
        /\ k.kind \in {"claim", "heartbeat"}
    <3>1. k # NoTask /\ k.step = "push" /\ k.kind \in {"claim", "heartbeat"}
          /\ remote[k.ticket] = k.sha
      BY <1>2 DEF PushUpdate, LeaseHolds
    <3>2. QED
      BY <3>1, TaskFacts DEF LeaseInv, TasksReady, TaskReady
  <2>2. k.lease \in Lease
    BY <2>1, TaskFacts DEF TaskReady, Task
  <2>3. /\ Sha' = Sha \cup {new} /\ commits'[new] = k.lease
        /\ \A s \in Sha : commits'[s] = commits[s] /\ s \in Nat /\ s < new
    BY <1>2, <2>1, <2>2 DEF PushUpdate, TypeOK, Sha
  <2>4. /\ root'[new] = IF k.sha = 0 THEN new ELSE root[k.sha]
        /\ \A s \in Sha : root'[s] = root[s]
    <3>1. (IF k.sha = 0 THEN new ELSE root[k.sha]) \in Nat
      BY <2>1 DEF TypeOK
    <3>2. QED
      BY <1>2, <2>1, <3>1 DEF PushUpdate, TypeOK, Sha
  <2> SUFFICES ASSUME NEW r \in Sha', NEW s \in Sha', r < s, root'[r] = root'[s]
               PROVE  /\ commits'[r].fencing <= commits'[s].fencing
                      /\ commits'[r].owner # commits'[s].owner
                           => commits'[r].fencing < commits'[s].fencing
    BY DEF FencingOrdersOwners
  <2>5. CASE s \in Sha /\ r \in Sha
    BY <2>3, <2>4, <2>5 DEF FencingOrdersOwners
  <2>6. CASE s = new
    <3>1. r \in Sha /\ root[r] = root'[new]
      BY <2>3, <2>4, <2>6
    <3>2. root[r] \in 1..r
      BY <3>1 DEF LeaseInv, RootsAgree
    <3>3. k.sha # 0 /\ k.sha \in Sha
      BY <2>1, <2>3, <2>4, <3>1, <3>2 DEF Sha
    <3>4. fate[k.sha] = "head" /\ root[r] = root[k.sha]
      BY <2>1, <2>4, <3>1, <3>3 DEF LeaseInv, HeadsAgree
    <3>5. r <= k.sha
      BY <3>1, <3>3, <3>4 DEF LeaseInv, RootsAgree
    <3>6. commits[r] \in Lease /\ commits[k.sha] \in Lease
      BY <3>1, <3>3, CommitIsLease
    <3>7. /\ commits[r].fencing \in Nat /\ commits[k.sha].fencing \in Nat
          /\ k.lease.fencing \in Nat
      BY <2>2, <3>6 DEF Lease
    <3>8. /\ commits[r].fencing <= commits[k.sha].fencing
          /\ commits[r].owner # commits[k.sha].owner
               => commits[r].fencing < commits[k.sha].fencing
      BY <2>3, <3>1, <3>3, <3>4, <3>5, <3>7 DEF FencingOrdersOwners
    <3>9. /\ k.lease.owner # commits[k.sha].owner =>
               k.lease.fencing = commits[k.sha].fencing + 1
          /\ \/ k.lease.fencing = commits[k.sha].fencing + 1
             \/ k.lease.fencing = commits[k.sha].fencing
      BY <2>1, <3>3 DEF TaskReady, MaySucceed
    <3>10. QED
      BY <2>3, <2>6, <3>1, <3>7, <3>8, <3>9
  <2>7. CASE s \in Sha /\ r = new
    BY <2>1, <2>3, <2>7
  <2>8. QED
    BY <2>3, <2>5, <2>6, <2>7
<1>3. QED
  BY <1>1, <1>2
  DEF Next, vars, BeginClaim, BeginHeartbeat, BeginRelease, BeginCleanup, Begin,
      Abort, Query, Fetch, PushDelete, SyncCheck, SyncWrite, UnlockLocal, Tick,
      PlainAcquire, PlainHeartbeat, PlainRelease

(* FencingOrdersOwners holds for any clock skew. *)
THEOREM FencingOrder == Spec => []FencingOrdersOwners
<1>1. Init => FencingOrdersOwners
  BY DEF Init, FencingOrdersOwners, Sha
<1>2. TypeOK /\ LeaseInv /\ FencingOrdersOwners /\ [Next]_vars
        => FencingOrdersOwners'
  BY FencingStep
<1>3. QED
  BY <1>1, <1>2, LeaseInvariant, PTL DEF Spec

-----------------------------------------------------------------------------
(* The clones' clocks agree.  Without this a lease may be taken over while *)
(* its holder's clock says it is still good.                               *)
NoSkew == \A c, d \in Clone : Skew[c] = Skew[d]

(* Without skew, every step keeps TakenOnlyWhenLapsed.                     *)
LEMMA TakenStep ==
  ASSUME NoSkew, TypeOK, LeaseInv, TakenOnlyWhenLapsed, [Next]_vars
  PROVE  TakenOnlyWhenLapsed'
<1>1. ASSUME NEW s \in Sha, Lapsed(s), commits'[s] = commits[s],
             now' \in Nat, now' >= now
      PROVE  Lapsed(s)'
  <2>1. commits[s] \in Lease
    BY CommitIsLease
  <2>2. /\ commits[s].clone \in Clone /\ commits[s].expires \in Nat
        /\ Skew[commits[s].clone] \in Nat /\ now \in Nat
    BY <2>1, ConstantsAssumption DEF Lease, TypeOK
  <2>3. QED
    BY <1>1, <2>2 DEF Lapsed, Clock
<1>2. now' \in Nat /\ now' >= now
  <2>1. now \in Nat
    BY DEF TypeOK
  <2>2. now' = now \/ now' = now + 1
    BY DEF Next, vars, BeginClaim, BeginHeartbeat, BeginRelease, BeginCleanup,
           Begin, Abort, Query, Fetch, PushUpdate, PushDelete, SyncCheck,
           SyncWrite, UnlockLocal, Tick,
      PlainAcquire, PlainHeartbeat, PlainRelease
  <2>3. QED
    BY <2>1, <2>2
<1>3. CASE commits' = commits /\ fate' = fate
  BY <1>1, <1>2, <1>3 DEF TakenOnlyWhenLapsed, Sha
<1>4. ASSUME NEW a \in Agent, PushUpdate(a)
      PROVE  TakenOnlyWhenLapsed'
  <2> DEFINE k == task[a]
             new == Len(commits) + 1
  <2>1. /\ k # NoTask /\ TaskReady(a) /\ remote[k.ticket] = k.sha
        /\ k.ticket \in Ticket /\ Len(commits) \in Nat
        /\ k.sha \in 0..Len(commits) /\ k.step = "push"
        /\ k.kind \in {"claim", "heartbeat"} /\ CloneOf[a] \in Clone
    <3>1. k # NoTask /\ k.step = "push" /\ k.kind \in {"claim", "heartbeat"}
          /\ remote[k.ticket] = k.sha
      BY <1>4 DEF PushUpdate, LeaseHolds
    <3>2. QED
      BY <3>1, TaskFacts DEF LeaseInv, TasksReady, TaskReady
  <2>2. k.lease \in Lease
    BY <2>1, TaskFacts DEF TaskReady, Task
  <2>3. /\ Sha' = Sha \cup {new}
        /\ \A s \in Sha : commits'[s] = commits[s] /\ s \in Nat /\ s < new
    BY <1>4, <2>1, <2>2 DEF PushUpdate, TypeOK, Sha
  <2> SUFFICES ASSUME NEW s \in Sha', fate'[s] = "lost"
               PROVE  Lapsed(s)'
    BY DEF TakenOnlyWhenLapsed
  <2>4. fate' = [q \in 1..new |->
           CASE q = new -> "head"
             [] q = remote[k.ticket] ->
                  IF commits[q].owner = k.lease.owner
                  THEN "withdrawn" ELSE "lost"
             [] OTHER -> fate[q]]
    BY <1>4 DEF PushUpdate
  <2>5. s \in 1..new /\ s # new /\ s \in Sha
    <3>1. s \in 1..new
      BY <2>1, <2>3 DEF Sha
    <3>2. fate'[new] = "head"
      BY <2>1, <2>4
    <3>3. QED
      BY <2>3, <3>1, <3>2
  <2>6. CASE s = remote[k.ticket]
    <3>1. commits[s].owner # k.lease.owner
      BY <2>4, <2>5, <2>6
    <3>2. Clock(CloneOf[a]) >= commits[s].expires
      BY <2>1, <2>5, <2>6, <3>1 DEF TaskReady, MaySucceed, Sha
    <3>3. commits[s].clone \in Clone
      BY <2>5, CommitIsLease DEF Lease
    <3>4. Lapsed(s)
      BY <2>1, <3>2, <3>3 DEF Lapsed, Clock, NoSkew
    <3>5. QED
      BY <1>1, <1>2, <2>3, <2>5, <3>4
  <2>7. CASE s # remote[k.ticket]
    <3>1. fate[s] = "lost"
      BY <2>4, <2>5, <2>7
    <3>2. QED
      BY <1>1, <1>2, <2>3, <2>5, <3>1 DEF TakenOnlyWhenLapsed
  <2>8. QED
    BY <2>6, <2>7
<1>5. ASSUME NEW a \in Agent, PushDelete(a)
      PROVE  TakenOnlyWhenLapsed'
  <2> DEFINE k == task[a]
             head == remote[k.ticket]
  <2>1. /\ k # NoTask /\ TaskReady(a) /\ head = k.sha /\ k.step = "push"
        /\ commits' = commits /\ Sha' = Sha /\ CloneOf[a] \in Clone
    BY <1>5, TaskFacts DEF PushDelete, LeaseHolds, LeaseInv, TasksReady, Sha
  <2> SUFFICES ASSUME NEW s \in Sha, fate'[s] = "lost"
               PROVE  Lapsed(s)'
    BY <2>1 DEF TakenOnlyWhenLapsed
  <2>2. s \in DOMAIN fate
    BY DEF TypeOK, Sha
  <2>3. CASE s = head
    <3>1. k.kind = "cleanup"
      BY <1>5, <2>2, <2>3 DEF PushDelete
    <3>2. Clock(CloneOf[a]) >= commits[s].expires
      BY <2>1, <2>3, <3>1 DEF TaskReady
    <3>3. commits[s].clone \in Clone
      BY CommitIsLease DEF Lease
    <3>4. Lapsed(s)
      BY <2>1, <3>2, <3>3 DEF Lapsed, Clock, NoSkew
    <3>5. QED
      BY <1>1, <1>2, <2>1, <3>4
  <2>4. CASE s # head
    <3>1. fate[s] = "lost"
      BY <1>5, <2>2, <2>4 DEF PushDelete, TypeOK
    <3>2. QED
      BY <1>1, <1>2, <2>1, <3>1 DEF TakenOnlyWhenLapsed
  <2>5. QED
    BY <2>3, <2>4
<1>6. QED
  BY <1>3, <1>4, <1>5
  DEF Next, vars, BeginClaim, BeginHeartbeat, BeginRelease, BeginCleanup, Begin,
      Abort, Query, Fetch, SyncCheck, SyncWrite, UnlockLocal, Tick,
      PlainAcquire, PlainHeartbeat, PlainRelease

(* With clocks that agree, no lease is taken over or swept before its      *)
(* holder sees it expire.                                                  *)
THEOREM NoEarlyTakeover ==
  ASSUME NoSkew
  PROVE  Spec => []TakenOnlyWhenLapsed
<1>1. Init => TakenOnlyWhenLapsed
  BY DEF Init, TakenOnlyWhenLapsed, Sha
<1>2. TypeOK /\ LeaseInv /\ TakenOnlyWhenLapsed /\ [Next]_vars
        => TakenOnlyWhenLapsed'
  BY TakenStep
<1>3. QED
  BY <1>1, <1>2, LeaseInvariant, PTL DEF Spec

(* Without skew, a lease taken only when lapsed has one holder.            *)
LEMMA ExclusiveFollows ==
  ASSUME NoSkew, TypeOK, LeaseInv, TakenOnlyWhenLapsed
  PROVE  ExclusiveAcrossClones
<1>1. ASSUME NEW c \in Clone, Backed(c)
      PROVE  /\ local[c].sha \in Sha
             /\ commits[local[c].sha].owner = local[c].owner
             /\ remote[local[c].ticket] = local[c].sha
  <2>1. local[c] # NoLock /\ local[c].sha # 0
    BY <1>1 DEF Backed, LocalLock
  <2>2. CopyOf(local[c], local[c].sha)
    BY <2>1 DEF LeaseInv, LocksAgree
  <2>3. fate[local[c].sha] \in Fate /\ local[c].sha \in Sha
    BY <2>2 DEF TypeOK, Sha, CopyOf
  <2>4. fate[local[c].sha] # "lost"
    <3>1. commits[local[c].sha].clone \in Clone /\ commits[local[c].sha].expires \in Nat
      BY <2>3, CommitIsLease DEF Lease
    <3>2. Clock(c) \in Nat /\ Clock(c) = Clock(commits[local[c].sha].clone)
      BY <3>1, ConstantsAssumption DEF TypeOK, Clock, NoSkew
    <3>3. ~Lapsed(local[c].sha)
      BY <1>1, <3>1, <3>2 DEF Lapsed, Backed
    <3>4. QED
      BY <2>3, <3>3 DEF TakenOnlyWhenLapsed
  <2>5. fate[local[c].sha] = "head"
    BY <1>1, <2>3, <2>4 DEF Fate, Backed
  <2>6. QED
    BY <2>2, <2>3, <2>5 DEF LeaseInv, HeadsAgree, CopyOf
<1>2. QED
  BY <1>1 DEF ExclusiveAcrossClones

(* With clocks that agree, two clones never both hold a lock file for one  *)
(* ticket that is the copy of an unexpired lease which nobody of their own *)
(* side renewed or released, unless the owner is the same, whatever plain  *)
(* lock commands run in the clones.                                        *)
THEOREM MutualExclusion ==
  ASSUME NoSkew
  PROVE  Spec => []ExclusiveAcrossClones
<1>1. TypeOK /\ LeaseInv /\ TakenOnlyWhenLapsed => ExclusiveAcrossClones
  BY ExclusiveFollows
<1>2. QED
  BY <1>1, LeaseInvariant, NoEarlyTakeover, PTL

-----------------------------------------------------------------------------
(* Refinement: the state the remote stands for is a LeaseRegister. *)
BarLease ==
  [t \in Ticket |->
     IF remote[t] = 0 THEN NoLease
     ELSE [owner |-> commits[remote[t]].owner,
           expires |-> commits[remote[t]].expires,
           fencing |-> commits[remote[t]].fencing]]

(* The leases of the remote have the register's type.                      *)
LEMMA BarTyped ==
  ASSUME TypeOK
  PROVE  BarLease \in [Ticket -> Register!Record \cup {NoLease}]
<1> SUFFICES ASSUME NEW t \in Ticket, remote[t] # 0
             PROVE  [owner |-> commits[remote[t]].owner,
                     expires |-> commits[remote[t]].expires,
                     fencing |-> commits[remote[t]].fencing] \in Register!Record
  BY DEF BarLease
<1>1. remote[t] \in Sha
  BY DEF TypeOK, Sha
<1>2. commits[remote[t]] \in Lease
  BY <1>1, CommitIsLease
<1>3. QED
  BY <1>2 DEF Lease, Register!Record

(* Without skew, every step is one of the register's or a stutter.         *)
LEMMA RegisterStep ==
  ASSUME \A c \in Clone : Skew[c] = 0, TypeOK, TypeOK', LeaseInv, [Next]_vars
  PROVE  [Register!Next]_(Register!vars)
<1>1. CASE now' = now /\ remote' = remote /\ commits' = commits
  BY <1>1 DEF Register!vars
<1>2. CASE Tick
  <2>1. now' = now + 1 /\ remote' = remote /\ commits' = commits
    BY <1>2 DEF Tick
  <2>2. Register!Tick
    BY <2>1 DEF Register!Tick
  <2>3. QED
    BY <2>2 DEF Register!Next
<1>3. ASSUME NEW a \in Agent, PushDelete(a)
      PROVE  Register!Next
  <2>1. PICK t \in Ticket : t = task[a].ticket
    BY <1>3, TaskFacts DEF PushDelete
  <2>2. /\ now' = now /\ commits' = commits
        /\ remote' = [remote EXCEPT ![t] = 0]
    BY <1>3, <2>1 DEF PushDelete
  <2>3. BarLease' = [BarLease EXCEPT ![t] = NoLease]
    BY <2>1, <2>2 DEF BarLease, TypeOK
  <2>4. Register!Withdraw(t)
    BY <2>2, <2>3 DEF Register!Withdraw, BarLease
  <2>5. QED
    BY <2>1, <2>4 DEF Register!Next
<1>4. ASSUME NEW a \in Agent, PushUpdate(a)
      PROVE  Register!Next
  <2> DEFINE k == task[a]
             new == Len(commits) + 1
  <2>0. PICK t \in Ticket : t = k.ticket
    BY <1>4, TaskFacts DEF PushUpdate
  <2>1. /\ t = k.ticket
        /\ k # NoTask /\ TaskReady(a) /\ remote[t] = k.sha
        /\ t \in Ticket /\ Len(commits) \in Nat
        /\ k.sha \in 0..Len(commits) /\ k.step = "push"
        /\ k.kind \in {"claim", "heartbeat"} /\ CloneOf[a] \in Clone
    <3>1. k # NoTask /\ k.step = "push" /\ k.kind \in {"claim", "heartbeat"}
          /\ remote[t] = k.sha
      BY <1>4, <2>0 DEF PushUpdate, LeaseHolds
    <3>2. QED
      BY <2>0, <3>1, TaskFacts DEF LeaseInv, TasksReady, TaskReady
  <2>2. k.lease \in Lease
    BY <2>1, TaskFacts DEF TaskReady, Task
  <2>3. /\ commits'[new] = k.lease /\ new # 0
        /\ \A s \in Sha : commits'[s] = commits[s]
    BY <1>4, <2>1, <2>2 DEF PushUpdate, TypeOK, Sha
  <2>4. /\ remote'[t] = new /\ now' = now
        /\ \A u \in Ticket \ {t} : remote'[u] = remote[u]
    BY <1>4, <2>1 DEF PushUpdate, TypeOK
  <2>5. BarLease'[t] = [owner |-> k.lease.owner, expires |-> k.lease.expires,
                        fencing |-> k.lease.fencing]
    BY <2>1, <2>3, <2>4 DEF BarLease
  <2>6. ASSUME NEW u \in Ticket \ {t}
        PROVE  BarLease'[u] = BarLease[u]
    <3>1. CASE remote[u] = 0
      BY <2>4, <3>1 DEF BarLease
    <3>2. CASE remote[u] # 0
      <4>1. remote[u] \in Sha
        BY <3>2 DEF TypeOK, Sha
      <4>2. QED
        BY <2>3, <2>4, <3>2, <4>1 DEF BarLease
    <3>3. QED
      BY <3>1, <3>2
  <2>7. BarLease' \in [Ticket -> Register!Record \cup {NoLease}]
    <3>1. \A u \in Ticket \ {t} : BarLease'[u] \in Register!Record \cup {NoLease}
      BY <2>6, BarTyped
    <3>2. BarLease'[t] \in Register!Record
      BY <2>2, <2>5 DEF Lease, Register!Record
    <3>3. BarLease' = [u \in Ticket |-> BarLease'[u]]
      BY DEF BarLease
    <3>4. QED
      BY <3>1, <3>2, <3>3
  <2>8. BarLease'[t] # NoLease
    <3>1. BarLease'[t] \in Register!Record
      BY <2>2, <2>5 DEF Lease, Register!Record
    <3>2. QED
      BY <3>1, RegisterAssumption
  <2>9. Register!Writes(t)
    BY <2>4, <2>6, <2>7, <2>8 DEF Register!Writes, BarLease
  <2>10. CASE k.sha = 0
    <3>1. BarLease[t] = NoLease
      BY <2>1, <2>10 DEF BarLease
    <3>2. BarLease'[t].fencing = 1
      BY <2>1, <2>5, <2>10 DEF TaskReady
    <3>3. Register!Grant(t)
      BY <2>9, <3>1, <3>2 DEF Register!Grant, BarLease
    <3>4. QED
      BY <2>1, <3>3 DEF Register!Next
  <2>11. CASE k.sha # 0
    <3> DEFINE found == commits[k.sha]
    <3>1. MaySucceed(k.lease, found, CloneOf[a])
      BY <2>1, <2>11 DEF TaskReady
    <3>2. BarLease[t] = [owner |-> found.owner, expires |-> found.expires,
                         fencing |-> found.fencing]
      BY <2>1, <2>11 DEF BarLease
    <3>3. BarLease[t] # NoLease
      <4>1. BarLease[t] \in Register!Record
        BY <2>1, <2>11, <3>2, CommitIsLease DEF Sha, Lease, Register!Record
      <4>2. QED
        BY <4>1, RegisterAssumption
    <3>4. /\ BarLease[t].owner = found.owner
          /\ BarLease[t].expires = found.expires
          /\ BarLease[t].fencing = found.fencing
          /\ BarLease'[t].owner = k.lease.owner
          /\ BarLease'[t].expires = k.lease.expires
          /\ BarLease'[t].fencing = k.lease.fencing
      BY <2>5, <3>2
    <3>5. CASE k.lease.owner = found.owner
      <4>1. Register!Renew(t)
        BY <2>9, <3>1, <3>3, <3>4, <3>5
        DEF MaySucceed, Register!Renew, BarLease
      <4>2. QED
        BY <2>1, <4>1 DEF Register!Next
    <3>6. CASE k.lease.owner # found.owner
      <4>1. now >= found.expires
        BY <2>1, <3>1, <3>6 DEF MaySucceed, Clock, TypeOK
      <4>2. Register!TakeOver(t)
        BY <2>9, <3>1, <3>3, <3>4, <3>6, <4>1
        DEF MaySucceed, Register!TakeOver, BarLease
      <4>3. QED
        BY <2>1, <4>2 DEF Register!Next
    <3>7. QED
      BY <3>5, <3>6
  <2>12. QED
    BY <2>10, <2>11
<1>5. QED
  BY <1>1, <1>2, <1>3, <1>4
  DEF Next, vars, BeginClaim, BeginHeartbeat, BeginRelease, BeginCleanup, Begin,
      Abort, Query, Fetch, SyncCheck, SyncWrite, UnlockLocal,
      PlainAcquire, PlainHeartbeat, PlainRelease

(* The remote implements LeaseRegister when the clones' clocks show the    *)
(* true time.                                                              *)
THEOREM Refinement ==
  ASSUME \A c \in Clone : Skew[c] = 0
  PROVE  Spec => ImplementsRegister
<1>1. Init => Register!Init
  BY DEF Init, Register!Init
<1>2. TypeOK /\ TypeOK' /\ LeaseInv /\ [Next]_vars
        => [Register!Next]_(Register!vars)
  BY RegisterStep
<1>3. QED
  BY <1>1, <1>2, LeaseInvariant, PTL DEF Spec, ImplementsRegister, Register!Spec
=============================================================================

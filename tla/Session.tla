------------------------------ MODULE Session ------------------------------
(***************************************************************************)
(* Agent sessions, exo/orchestrator/session.py.  Each actor has at most    *)
(* one active and one suspended session, each a JSON file named after the  *)
(* actor; a ticket may have a handoff record; every checkout has one       *)
(* ticket lock (module TicketLock; here its record without the expiry, and *)
(* the commands that change it elsewhere are LockChanges).  A command      *)
(* (start, finish, handoff, suspend, resume) reads and writes these files  *)
(* one after another, and may be killed between any two writes;            *)
(* cleanup_sessions removes the files of other actors.  An actor runs one  *)
(* command at a time.                                                      *)
(***************************************************************************)
EXTENDS Naturals, FiniteSets

CONSTANTS
  Actor,        \* EXO_ACTOR values, each with file names of its own
  Extends,      \* pairs of names of which the first is the second, ":" and more
  Ticket,       \* ticket ids
  Outcome,      \* the set_status values finish may be called with
  Clash,        \* pairs of tickets that enforce_scope_partition refuses
  MaxSessions,  \* bound: session ids 1 .. MaxSessions
  MaxCrashes,   \* bound: killed commands
  MaxCleanups,  \* bound: cleanup_sessions calls
  None          \* no file, no lock, no command

Id == 1 .. MaxSessions

(* A session payload: conc is its "concurrent" flag, pid tells whether it  *)
(* records a process id, from is the handoff it was started with (0: none).*)
SessionRecord == [id: Id, ticket: Ticket, conc: BOOLEAN, pid: BOOLEAN,
                  from: Id \cup {0}]
Status == {"todo", "active", "paused", "review", "done"}

ASSUME ConstantsAssumption ==
  /\ Extends \subseteq Actor \X Actor
  /\ MaxSessions \in Nat \ {0} /\ MaxCrashes \in Nat /\ MaxCleanups \in Nat
  /\ Outcome \subseteq {"keep", "review", "done"}
  /\ Clash \subseteq Ticket \X Ticket
  /\ \A t, u \in Ticket : <<t, u>> \in Clash => <<u, t>> \in Clash

VARIABLES
  status,    \* the status field of each ticket file
  lock,      \* the unexpired lock on disk
  active,    \* <actor>.active.json
  suspended, \* <actor>.suspended.json
  handoff,   \* the handoff record of a ticket: the session that wrote it
  cmd,       \* the command an actor is running
  cleanup,   \* the cleanup_sessions call under way
  old,       \* sessions that started 48 hours ago or longer
  past,      \* history: how a session's files came to be removed
  covered,   \* history: actors that took or checked the lock as it is now
  torn,      \* history: sessions whose command was killed before an unlink
  met,       \* history: pairs of actors whose concurrent starts overlapped
  calls      \* sessions started, commands killed, cleanups run

vars == <<status, lock, active, suspended, handoff, cmd, cleanup, old, past,
          covered, torn, met, calls>>

files == <<active, suspended>>
history == <<past, covered, torn, met>>

LockRecord == [ticket: Ticket, owner: Actor]
Fate == {"finished", "suspended over", "evicted", "cleaned", "swept"}

(* The rest of a command: the step it is at, the session it has read or    *)
(* will write, and the choices its arguments leave to its later steps.     *)
Command == [at: {"gate", "consume", "write", "release", "memento", "unlink",
                 "record", "unlock", "pause", "park", "reopen", "revive",
                 "discard"},
            session: [id: Id \cup {0}, ticket: Ticket, conc: BOOLEAN,
                      pid: BOOLEAN, from: Id \cup {0}],
            op: {"start", "finish", "handoff", "suspend", "resume"},
            flag: BOOLEAN]

(* An entry of scan_sessions. *)
Entry == [kind: {"active", "suspended"}, actor: Actor, id: Id,
          ticket: Ticket, stale: BOOLEAN]

(* What a cleanup_sessions call has left to do. *)
Cleanup == [targets: SUBSET Entry, release: BOOLEAN]

ASSUME NoneAssumption ==
  None \notin SessionRecord \cup LockRecord \cup Command \cup Cleanup

TypeOK ==
  /\ status \in [Ticket -> Status]
  /\ lock \in LockRecord \cup {None}
  /\ active \in [Actor -> SessionRecord \cup {None}]
  /\ suspended \in [Actor -> SessionRecord \cup {None}]
  /\ handoff \in [Ticket -> Id \cup {0}]
  /\ cmd \in [Actor -> Command \cup {None}]
  /\ cleanup \in Cleanup \cup {None}
  /\ old \subseteq Id
  /\ past \in [Id -> SUBSET Fate]
  /\ covered \subseteq Actor
  /\ torn \subseteq Id
  /\ met \subseteq SUBSET Actor
  /\ calls \in [started: 0 .. MaxSessions, killed: 0 .. MaxCrashes,
                cleaned: 0 .. MaxCleanups]

Init ==
  /\ status = [t \in Ticket |-> "todo"]
  /\ lock = None
  /\ active = [a \in Actor |-> None]
  /\ suspended = [a \in Actor |-> None]
  /\ handoff = [t \in Ticket |-> 0]
  /\ cmd = [a \in Actor |-> None]
  /\ cleanup = None
  /\ old = {}
  /\ past = [i \in Id |-> {}]
  /\ covered = {}
  /\ torn = {}
  /\ met = {}
  /\ calls = [started |-> 0, killed |-> 0, cleaned |-> 0]

-----------------------------------------------------------------------------
At(a, step) == cmd[a] # None /\ cmd[a].at = step

Goto(a, step) == cmd' = [cmd EXCEPT ![a].at = step]
Return(a) == cmd' = [cmd EXCEPT ![a] = None]
Begin(a, step, s, op, flag) ==
  cmd' = [cmd EXCEPT ![a] = [at |-> step, session |-> s, op |-> op, flag |-> flag]]

StartingConcurrent(a) ==
  cmd[a] # None /\ cmd[a].op = "start" /\ cmd[a].session.conc

Mark(i, fate) == past' = [past EXCEPT ![i] = @ \cup {fate}]

(* The actors that work under a lock of owner o: o itself, and those whose *)
(* names extend its name, as the session-start hook names its agents.      *)
Under(a, o) == a = o \/ <<a, o>> \in Extends

(* release_lock(ticket): the lock goes whoever its owner is. *)
ReleaseLock(t) ==
  IF lock # None /\ lock.ticket = t
  THEN lock' = None /\ covered' = {}
  ELSE UNCHANGED <<lock, covered>>

(* acquire_lock for the actor's own use; held by another it raises.        *)
AcquireLock(a, t) ==
  /\ lock \in {None, [ticket |-> t, owner |-> a]}
  /\ lock' = [ticket |-> t, owner |-> a]
  /\ covered' = covered \cup {a}

(* ensure_lock and the owner check of start.  The mutant checks only the   *)
(* ticket.                                                                 *)
EnsureLockMutant(a, t) == lock # None /\ lock.ticket = t
EnsureLock(a, t) == lock # None /\ lock.ticket = t /\ Under(a, lock.owner)

(* The tickets enforce_scope_partition finds active sessions on; it skips  *)
(* the starter's own ticket.  The mutant overlooks the concurrent ones.    *)
SiblingTicketsMutant(a, t) ==
  {active[b].ticket : b \in {c \in Actor \ {a} : active[c] # None /\ ~active[c].conc}} \ {t}
SiblingTickets(a, t) ==
  {active[b].ticket : b \in {c \in Actor \ {a} : active[c] # None}} \ {t}

(* The status resume gives the ticket; the mutant writes the session's. *)
ResumedStatusMutant == "suspended"
ResumedStatus == "active"

(* What is left of a session when it is resumed: neither its concurrent    *)
(* flag, its process id nor its handoff.                                   *)
Resumed(s) == [s EXCEPT !.conc = FALSE, !.pid = FALSE, !.from = 0]
-----------------------------------------------------------------------------
(* start, first part: a session of the actor older than 48 hours is        *)
(* evicted (a younger one is returned as it is, or refuses the command:    *)
(* nothing changes), the ticket is the one named or the lock's, and its    *)
(* handoff record is read.  flag: acquire_lock is asked for and the lock   *)
(* file was seen absent.                                                   *)
StartLoad(a, t, conc, acquire) ==
  /\ cmd[a] = None /\ calls.started < MaxSessions
  /\ active[a] # None => active[a].id \in old
  /\ IF active[a] = None THEN UNCHANGED past ELSE Mark(active[a].id, "evicted")
  /\ active' = [active EXCEPT ![a] = None]
  /\ Begin(a, "gate",
           [id |-> 0, ticket |-> t, conc |-> conc, pid |-> TRUE,
            from |-> handoff[t]],
           "start", acquire /\ ~conc /\ lock = None)
  /\ met' = {m \in met : a \notin m}
              \cup {{a, b} : b \in {c \in Actor \ {a} : conc /\ StartingConcurrent(c)}}
  /\ UNCHANGED <<status, lock, suspended, handoff, cleanup, old, covered, torn, calls>>

(* Second part.  A concurrent session needs no lock, only a scope that no  *)
(* active sibling's overlaps; any other needs the lock on its ticket.      *)
StartConcurrent(a) ==
  LET t == cmd[a].session.ticket
  IN  /\ At(a, "gate") /\ cmd[a].session.conc
      /\ \A u \in SiblingTickets(a, t) : <<t, u>> \notin Clash
      /\ Goto(a, "consume")
      /\ covered' = covered \ {a}
      /\ UNCHANGED <<status, lock, files, handoff, cleanup, old, past, torn, met, calls>>

StartLocked(a) ==
  LET t == cmd[a].session.ticket
  IN  /\ At(a, "gate") /\ ~cmd[a].session.conc
      /\ \/ cmd[a].flag /\ AcquireLock(a, t)
         \/ /\ ~cmd[a].flag /\ EnsureLock(a, t)
            /\ covered' = covered \cup {a}
            /\ UNCHANGED lock
      /\ cmd' = [cmd EXCEPT ![a].at = "consume", ![a].flag = FALSE]
      /\ UNCHANGED <<status, files, handoff, cleanup, old, past, torn, met, calls>>

StartRefused(a) ==
  LET s == cmd[a].session
  IN  /\ At(a, "gate")
      /\ IF s.conc THEN \E u \in SiblingTickets(a, s.ticket) : <<s.ticket, u>> \in Clash
         ELSE IF cmd[a].flag THEN lock \notin {None, [ticket |-> s.ticket, owner |-> a]}
         ELSE ~EnsureLock(a, s.ticket)
      /\ Return(a)
      /\ UNCHANGED <<status, lock, files, handoff, cleanup, old, history, calls>>

(* Third part: the record that was read is deleted, whatever is there now. *)
StartConsume(a) ==
  /\ At(a, "consume")
  /\ handoff' = IF cmd[a].session.from = 0 THEN handoff
                ELSE [handoff EXCEPT ![cmd[a].session.ticket] = 0]
  /\ Goto(a, "write")
  /\ UNCHANGED <<status, lock, files, cleanup, old, history, calls>>

(* Last part: the active file, with a new session id. *)
StartWrite(a) ==
  /\ At(a, "write") /\ calls.started < MaxSessions
  /\ calls' = [calls EXCEPT !.started = @ + 1]
  /\ active' = [active EXCEPT ![a] = [cmd[a].session EXCEPT !.id = calls.started + 1]]
  /\ Return(a)
  /\ UNCHANGED <<status, lock, suspended, handoff, cleanup, old, history>>

-----------------------------------------------------------------------------
(* finish, once its checks passed: the ticket's status is saved, and the   *)
(* rest is to come.  release_lock defaults to set_status # "keep".  Under  *)
(* handoff it keeps the status and the lock; flag is then handoff's own    *)
(* release_lock.                                                           *)
FinishStatus(a, set, release) ==
  /\ cmd[a] = None /\ active[a] # None
  /\ status' = IF set = "keep" THEN status
               ELSE [status EXCEPT ![active[a].ticket] = set]
  /\ Begin(a, IF release THEN "release" ELSE "memento", active[a], "finish", FALSE)
  /\ UNCHANGED <<lock, files, handoff, cleanup, old, history, calls>>

HandoffBegin(a, release) ==
  /\ cmd[a] = None /\ active[a] # None
  /\ Begin(a, "memento", active[a], "handoff", release)
  /\ UNCHANGED <<status, lock, files, handoff, cleanup, old, history, calls>>

(* The release step of finish and suspend. *)
CommandRelease(a) ==
  LET t == cmd[a].session.ticket
  IN  /\ At(a, "release")
      /\ ReleaseLock(t)
      /\ Goto(a, IF cmd[a].op = "finish" THEN "memento" ELSE "park")
      /\ UNCHANGED <<status, files, handoff, cleanup, old, past, torn, met, calls>>

(* The memento, the index line and the log; from here on the session       *)
(* counts as finished.                                                     *)
FinishMemento(a) ==
  /\ At(a, "memento")
  /\ Mark(cmd[a].session.id, "finished")
  /\ Goto(a, "unlink")
  /\ UNCHANGED <<status, lock, files, handoff, cleanup, old, covered, torn, met, calls>>

(* The last step of finish and suspend, and of the finish inside handoff. *)
ActiveUnlink(a) ==
  /\ At(a, "unlink")
  /\ active' = [active EXCEPT ![a] = None]
  /\ IF cmd[a].op = "handoff" THEN Goto(a, "record") ELSE Return(a)
  /\ UNCHANGED <<status, lock, suspended, handoff, cleanup, old, history, calls>>

HandoffRecord(a) ==
  /\ At(a, "record")
  /\ handoff' = [handoff EXCEPT ![cmd[a].session.ticket] = cmd[a].session.id]
  /\ IF cmd[a].flag THEN Goto(a, "unlock") ELSE Return(a)
  /\ UNCHANGED <<status, lock, files, cleanup, old, history, calls>>

HandoffUnlock(a) ==
  LET t == cmd[a].session.ticket
  IN  /\ At(a, "unlock")
      /\ ReleaseLock(t)
      /\ Return(a)
      /\ UNCHANGED <<status, files, handoff, cleanup, old, past, torn, met, calls>>

-----------------------------------------------------------------------------
(* suspend: the ticket is paused, the lock released if asked, the session  *)
(* written to the suspended file and the active file removed.              *)
SuspendPause(a, release) ==
  /\ cmd[a] = None /\ active[a] # None
  /\ status' = [status EXCEPT ![active[a].ticket] = "paused"]
  /\ Begin(a, IF release THEN "release" ELSE "park", active[a], "suspend", FALSE)
  /\ UNCHANGED <<lock, files, handoff, cleanup, old, history, calls>>

(* Whatever session the actor had suspended before is overwritten.  The    *)
(* mutant keeps the earlier file.                                          *)
ParkedMutant(a) == IF suspended[a] = None THEN cmd[a].session ELSE suspended[a]
Parked(a) == cmd[a].session

SuspendPark(a) ==
  /\ At(a, "park")
  /\ suspended' = [suspended EXCEPT ![a] = Parked(a)]
  /\ IF suspended[a] # None /\ suspended[a].id # cmd[a].session.id
     THEN Mark(suspended[a].id, "suspended over") ELSE UNCHANGED past
  /\ Goto(a, "unlink")
  /\ UNCHANGED <<status, lock, active, handoff, cleanup, old, covered, torn, met, calls>>

(* resume: the lock, the ticket's status, the active file, and last the    *)
(* suspended file.                                                         *)
ResumeLock(a, acquire) ==
  /\ cmd[a] = None /\ active[a] = None /\ suspended[a] # None
  /\ IF acquire THEN AcquireLock(a, suspended[a].ticket)
     ELSE UNCHANGED lock /\ covered' = covered \ {a}
  /\ Begin(a, "reopen", suspended[a], "resume", FALSE)
  /\ UNCHANGED <<status, files, handoff, cleanup, old, past, torn, met, calls>>

ResumeReopen(a) ==
  /\ At(a, "reopen")
  /\ status' = [status EXCEPT ![cmd[a].session.ticket] = ResumedStatus]
  /\ Goto(a, "revive")
  /\ UNCHANGED <<lock, files, handoff, cleanup, old, history, calls>>

ResumeRevive(a) ==
  /\ At(a, "revive")
  /\ active' = [active EXCEPT ![a] = Resumed(cmd[a].session)]
  /\ Goto(a, "discard")
  /\ UNCHANGED <<status, lock, suspended, handoff, cleanup, old, history, calls>>

(* The mutant leaves the file behind. *)
DiscardedMutant(a) == suspended
Discarded(a) == [suspended EXCEPT ![a] = None]

ResumeDiscard(a) ==
  /\ At(a, "discard")
  /\ suspended' = Discarded(a)
  /\ Return(a)
  /\ UNCHANGED <<status, lock, active, handoff, cleanup, old, history, calls>>
-----------------------------------------------------------------------------
(* scan_sessions: the sessions on disk, with their age as of now. *)
ScanOf(kind, file) ==
  {[kind |-> kind, actor |-> a, id |-> file[a].id, ticket |-> file[a].ticket,
    stale |-> file[a].id \in old] : a \in {b \in Actor : file[b] # None}}

Scan == ScanOf("active", active) \cup ScanOf("suspended", suspended)

(* The sessions whose recorded process may be gone: a command line records *)
(* its own process, which ends with the command.                           *)
Orphans == {e \in Scan : e.kind = "active" /\ active[e.actor].pid /\ ~e.stale}

(* cleanup_sessions picks its targets from one scan: all of them when      *)
(* forced, else the stale ones and those whose process is dead.            *)
CleanupScan(force, dead, release) ==
  /\ cleanup = None /\ calls.cleaned < MaxCleanups
  /\ calls' = [calls EXCEPT !.cleaned = @ + 1]
  /\ cleanup' = [targets |-> IF force THEN Scan ELSE {e \in Scan : e.stale} \cup dead,
                 release |-> release]
  /\ UNCHANGED <<status, lock, files, handoff, cmd, old, history>>

FileOf(e) == IF e.kind = "active" THEN active[e.actor] ELSE suspended[e.actor]

(* One target: its file, if it still exists, is removed whatever session   *)
(* it holds by now; a stale target's ticket goes back to "todo".           *)
CleanupEntry(e) ==
  /\ cleanup # None /\ e \in cleanup.targets
  /\ cleanup' = [cleanup EXCEPT !.targets = @ \ {e}]
  /\ IF FileOf(e) = None
     THEN UNCHANGED <<files, status, past>>
     ELSE /\ status' = IF status[e.ticket] \in {"active", "paused"} /\ e.stale
                       THEN [status EXCEPT ![e.ticket] = "todo"] ELSE status
          /\ active' = IF e.kind = "active" THEN [active EXCEPT ![e.actor] = None] ELSE active
          /\ suspended' = IF e.kind = "suspended"
                          THEN [suspended EXCEPT ![e.actor] = None] ELSE suspended
          /\ Mark(FileOf(e).id, IF FileOf(e).id = e.id THEN "cleaned" ELSE "swept")
  /\ UNCHANGED <<lock, handoff, cmd, old, covered, torn, met, calls>>

(* With release_lock the lock goes too, whoever holds it. *)
CleanupEnd ==
  /\ cleanup # None /\ cleanup.targets = {}
  /\ cleanup' = None
  /\ IF cleanup.release /\ lock # None THEN ReleaseLock(lock.ticket)
     ELSE UNCHANGED <<lock, covered>>
  /\ UNCHANGED <<status, files, handoff, cmd, old, past, torn, met, calls>>

-----------------------------------------------------------------------------
(* A command is killed between two of its writes. *)
Crash(a) ==
  /\ cmd[a] # None /\ calls.killed < MaxCrashes
  /\ calls' = [calls EXCEPT !.killed = @ + 1]
  /\ torn' = IF At(a, "discard") \/ At(a, "unlink") THEN torn \cup {cmd[a].session.id} ELSE torn
  /\ Return(a)
  /\ UNCHANGED <<status, lock, files, handoff, cleanup, old, past, covered, met>>

CleanupCrash ==
  /\ cleanup # None /\ calls.killed < MaxCrashes
  /\ calls' = [calls EXCEPT !.killed = @ + 1]
  /\ cleanup' = None
  /\ UNCHANGED <<status, lock, files, handoff, cmd, old, history>>

(* Time passes: a session turns 48 hours old. *)
Age(i) ==
  /\ i \in 1 .. calls.started /\ i \notin old
  /\ old' = old \cup {i}
  /\ UNCHANGED <<status, lock, files, handoff, cmd, cleanup, history, calls>>

(* The lock expires, or a command other than those above gives it away     *)
(* (next, lease-claim, lease-renew, lease-release; whom they ask is module *)
(* TicketLock's matter).                                                   *)
LockChanges(l) ==
  /\ lock # l
  /\ lock' = l
  /\ covered' = {}
  /\ UNCHANGED <<status, files, handoff, cmd, cleanup, old, past, torn, met, calls>>

StartStep(a) ==
  \/ \E t \in Ticket, conc, acquire \in BOOLEAN : StartLoad(a, t, conc, acquire)
  \/ StartConcurrent(a) \/ StartLocked(a) \/ StartRefused(a)
  \/ StartConsume(a) \/ StartWrite(a)

FinishStep(a) ==
  \/ \E set \in Outcome, release \in BOOLEAN : FinishStatus(a, set, release)
  \/ \E release \in BOOLEAN : HandoffBegin(a, release)
  \/ FinishMemento(a) \/ ActiveUnlink(a) \/ HandoffRecord(a) \/ HandoffUnlock(a)

SuspendStep(a) ==
  \/ \E release \in BOOLEAN : SuspendPause(a, release)
  \/ CommandRelease(a) \/ SuspendPark(a)

ResumeStep(a) ==
  \/ \E acquire \in BOOLEAN : ResumeLock(a, acquire)
  \/ ResumeReopen(a) \/ ResumeRevive(a) \/ ResumeDiscard(a)

CleanupStep ==
  \/ \E force, release \in BOOLEAN, dead \in SUBSET Orphans : CleanupScan(force, dead, release)
  \/ cleanup # None /\ \E e \in cleanup.targets : CleanupEntry(e)
  \/ CleanupEnd \/ CleanupCrash

Next ==
  \/ \E a \in Actor :
       StartStep(a) \/ FinishStep(a) \/ SuspendStep(a) \/ ResumeStep(a) \/ Crash(a)
  \/ CleanupStep
  \/ \E i \in Id : Age(i)
  \/ \E l \in LockRecord \cup {None} : LockChanges(l)

Spec == Init /\ [][Next]_vars

-----------------------------------------------------------------------------
OnDisk(i) ==
  \E a \in Actor : \/ active[a] # None /\ active[a].id = i
                   \/ suspended[a] # None /\ suspended[a].id = i

(* No session vanishes: one that was started is on disk, active or         *)
(* suspended, until it has a memento, was evicted or cleaned up, or the    *)
(* actor suspended another session over it (start, suspend and resume      *)
(* write the new file before they unlink the old one).                     *)
Accounted == \A i \in 1 .. calls.started : OnDisk(i) \/ past[i] # {}

(* A finished session does not come to life again: once its memento is     *)
(* written, finish has only the unlink left and no other file holds it.    *)
(* The two files of an actor are never written together, so a command      *)
(* killed right before an unlink is the one exception.                     *)
FinishedStaysFinished ==
  \A i \in Id \ torn :
    "finished" \in past[i] =>
      \A a \in Actor :
        /\ suspended[a] # None => suspended[a].id # i
        /\ active[a] # None /\ active[a].id = i => At(a, "unlink")

(* A lock excludes: two actors have lock-governed sessions on one ticket   *)
(* only if one of them has lost its lock since its start or resume (it     *)
(* expired, was given away or released in another's name), or resumed      *)
(* without one, or if the lock on that ticket has an owner whose name both *)
(* bear or extend.                                                         *)
Works(a, t) == active[a] # None /\ active[a].ticket = t /\ ~active[a].conc

OneHolderPerTicket ==
  \A a, b \in Actor, t \in Ticket :
    a # b /\ Works(a, t) /\ Works(b, t) /\ {a, b} \subseteq covered =>
      lock # None /\ lock.ticket = t /\ Under(a, lock.owner) /\ Under(b, lock.owner)

(* Concurrent sessions keep to disjoint scopes, unless their starts ran at *)
(* the same time, so that neither scan could see the other's session.      *)
Concurrent(a) == active[a] # None /\ active[a].conc

ScopesApart ==
  \A a, b \in Actor :
    a # b /\ Concurrent(a) /\ Concurrent(b) /\ {a, b} \notin met =>
      <<active[a].ticket, active[b].ticket>> \notin Clash
        \/ active[a].ticket = active[b].ticket

=============================================================================

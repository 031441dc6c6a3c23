--------------------------- MODULE SessionProofs ---------------------------
(* Theorems about agent sessions, for any number of actors, tickets and    *)
(* sessions, any ages, and commands killed at any point.                   *)
EXTENDS Session, TLAPS

-----------------------------------------------------------------------------
(* The inductive invariant.                                                *)

(* A command that has read a session, and what it is called by step.       *)
Reads(a) == cmd[a] # None /\ cmd[a].op # "start"

StepsOf(op) ==
  IF op = "start" THEN {"gate", "consume", "write"}
  ELSE IF op = "finish" THEN {"release", "memento", "unlink"}
  ELSE IF op = "handoff" THEN {"memento", "unlink", "record", "unlock"}
  ELSE IF op = "suspend" THEN {"release", "park", "unlink"}
  ELSE {"reopen", "revive", "discard"}

CmdOK(a) ==
  cmd[a] # None =>
    /\ cmd[a].at \in StepsOf(cmd[a].op)
    /\ cmd[a].op # "start" => cmd[a].session.id \in Id

(* The sessions an actor's files and its command hold.  No two actors hold *)
(* the same one, and none holds one that was not started.                  *)
HeldBy(a, i) ==
  \/ active[a] # None /\ active[a].id = i
  \/ suspended[a] # None /\ suspended[a].id = i
  \/ Reads(a) /\ cmd[a].session.id = i

IdsOK ==
  /\ \A a \in Actor, i \in Id : HeldBy(a, i) => i <= calls.started
  /\ \A a, b \in Actor, i \in Id : HeldBy(a, i) /\ HeldBy(b, i) => a = b
  /\ \A i \in Id : i > calls.started => past[i] = {}

(* What a command finds in the actor's files at its steps.                 *)
Empty(file, a) == file[a] = None
Holds(file, a, i) == file[a] # None /\ file[a].id = i

FilesOK(a) ==
  LET i == cmd[a].session.id
      at == cmd[a].at
      op == cmd[a].op
  IN  cmd[a] # None =>
        /\ op = "start" \/ at \in {"reopen", "revive"} => Empty(active, a)
        /\ at \in {"release", "memento", "park", "unlink"} =>
             Empty(active, a) \/ Holds(active, a, i)
        /\ op = "resume" => Empty(suspended, a) \/ Holds(suspended, a, i)
        /\ at = "discard" => Holds(active, a, i) \/ past[i] # {}
        /\ at = "unlink" /\ op # "suspend" => "finished" \in past[i]
        /\ at = "unlink" /\ op = "suspend" =>
             Holds(suspended, a, i) \/ past[i] # {}

(* A session that is in both files of its actor is just being moved, or    *)
(* was when its command was killed; only the command that finishes it      *)
(* still has a finished session.                                           *)
Moving(a) == At(a, "discard") \/ (At(a, "unlink") /\ cmd[a].op = "suspend")

FinishOK(a) ==
  /\ \A i \in Id \ torn :
       Holds(active, a, i) /\ Holds(suspended, a, i) => Moving(a)
  /\ Reads(a) /\ cmd[a].session.id \notin torn =>
       LET i == cmd[a].session.id
       IN  /\ /\ cmd[a].op \in {"finish", "handoff"}
              /\ cmd[a].at \in {"release", "memento", "unlink"}
              => ~Holds(suspended, a, i)
           /\ cmd[a].op \in {"suspend", "resume"} => "finished" \notin past[i]

(* The lock of a covered actor, and what it covers.                        *)
LockOK ==
  \A a \in covered :
    /\ lock # None /\ Under(a, lock.owner)
    /\ active[a] # None /\ ~active[a].conc => active[a].ticket = lock.ticket
    /\ cmd[a] # None /\ ~cmd[a].session.conc /\ cmd[a].at \in {"consume", "write"} =>
         cmd[a].session.ticket = lock.ticket
    /\ cmd[a] # None /\ cmd[a].at \in {"reopen", "revive"} =>
         cmd[a].session.ticket = lock.ticket

(* Starts that run at the same time have met, and a start behind the gate  *)
(* keeps apart from those it has not met.                                  *)
Apart(t, u) == <<t, u>> \notin Clash \/ t = u

ScopesOK ==
  \A a, b \in Actor : a # b =>
    /\ StartingConcurrent(a) /\ StartingConcurrent(b) => {a, b} \in met
    /\ /\ StartingConcurrent(a) /\ cmd[a].at \in {"consume", "write"}
       /\ Concurrent(b) /\ {a, b} \notin met
       => Apart(cmd[a].session.ticket, active[b].ticket)

(* What FinishedStaysFinished says of one actor.                           *)
FinishedFor(a) ==
  \A i \in Id \ torn :
    "finished" \in past[i] =>
      ~Holds(suspended, a, i) /\ (Holds(active, a, i) => At(a, "unlink"))

OwnOK(a) == FilesOK(a) /\ FinishOK(a) /\ FinishedFor(a)

Shape == \A b \in Actor : CmdOK(b)

SessionInv ==
  /\ TypeOK
  /\ Shape
  /\ IdsOK
  /\ \A a \in Actor : OwnOK(a)
  /\ Accounted
  /\ LockOK
  /\ ScopesOK
  /\ ScopesApart

-----------------------------------------------------------------------------
(* What the parts of a step do.                                            *)
At0 == {"gate", "consume", "write", "release", "memento", "unlink", "record",
        "unlock", "pause", "park", "reopen", "revive", "discard"}
Op == {"start", "finish", "handoff", "suspend", "resume"}
Work == [id: Id \cup {0}, ticket: Ticket, conc: BOOLEAN, pid: BOOLEAN,
         from: Id \cup {0}]

CmdType == [Actor -> Command \cup {None}]
FileType == [Actor -> SessionRecord \cup {None}]
PastType == [Id -> SUBSET Fate]

Others(a) == \A b \in Actor \ {a} : cmd'[b] = cmd[b]
SameCmd(a) ==
  /\ cmd'[a].session = cmd[a].session /\ cmd'[a].op = cmd[a].op

(* The types of a command's fields.                                        *)
LEMMA CommandFacts ==
  ASSUME cmd \in CmdType, NEW a \in Actor, cmd[a] # None
  PROVE  /\ cmd[a] \in Command /\ cmd[a].session \in Work
         /\ cmd[a].at \in At0 /\ cmd[a].op \in Op /\ cmd[a].flag \in BOOLEAN
         /\ cmd[a].session.ticket \in Ticket /\ cmd[a].session.conc \in BOOLEAN
         /\ cmd[a].session.id \in Id \cup {0}
         /\ cmd[a].session.from \in Id \cup {0}
BY DEF CmdType, Command, Work, At0, Op

(* The types of a session record's fields.                                 *)
LEMMA RecordFacts ==
  ASSUME NEW s \in SessionRecord
  PROVE  /\ s # None /\ s.id \in Id /\ s.ticket \in Ticket /\ s.conc \in BOOLEAN
         /\ s \in Work
BY NoneAssumption DEF SessionRecord, Work

(* A command that moves on changes its step and nothing else of itself.    *)
LEMMA GotoDoes ==
  ASSUME cmd \in CmdType, NEW a \in Actor, cmd[a] # None,
         NEW step \in At0, Goto(a, step)
  PROVE  /\ cmd' \in CmdType /\ Others(a) /\ cmd'[a] # None
         /\ cmd'[a].at = step /\ SameCmd(a) /\ cmd'[a].flag = cmd[a].flag
<1> DEFINE c == [cmd[a] EXCEPT !.at = step]
<1>1. cmd[a] \in Command
  BY DEF CmdType
<1>2. c \in Command /\ c.at = step /\ c.session = cmd[a].session /\ c.op = cmd[a].op
      /\ c.flag = cmd[a].flag
  BY <1>1 DEF Command, At0
<1>3. cmd' = [cmd EXCEPT ![a] = c]
  BY DEF Goto, CmdType
<1> HIDE DEF c
<1>4. cmd' \in CmdType /\ Others(a) /\ cmd'[a] = c
  BY <1>2, <1>3 DEF CmdType, Others
<1> QED
  BY <1>2, <1>4, NoneAssumption DEF SameCmd

(* A command that begins has the session, operation and flag it is given.  *)
LEMMA BeginDoes ==
  ASSUME cmd \in CmdType, NEW a \in Actor, NEW step \in At0, NEW s \in Work,
         NEW op \in Op, NEW flag \in BOOLEAN, Begin(a, step, s, op, flag)
  PROVE  /\ cmd' \in CmdType /\ Others(a) /\ cmd'[a] # None
         /\ cmd'[a].at = step /\ cmd'[a].session = s /\ cmd'[a].op = op
         /\ cmd'[a].flag = flag
<1> DEFINE c == [at |-> step, session |-> s, op |-> op, flag |-> flag]
<1>1. c \in Command /\ c.at = step /\ c.session = s /\ c.op = op /\ c.flag = flag
  BY DEF Command, At0, Op, Work
<1>2. cmd' = [cmd EXCEPT ![a] = c]
  BY DEF Begin
<1> HIDE DEF c
<1>3. cmd' \in CmdType /\ Others(a) /\ cmd'[a] = c
  BY <1>1, <1>2 DEF CmdType, Others
<1> QED
  BY <1>1, <1>3, NoneAssumption

(* A command that returns is gone.                                         *)
LEMMA ReturnDoes ==
  ASSUME cmd \in CmdType, NEW a \in Actor, Return(a)
  PROVE  cmd' \in CmdType /\ Others(a) /\ cmd'[a] = None
BY DEF Return, CmdType, Others

(* Marking a session adds one mark to it.                                  *)
LEMMA MarkDoes ==
  ASSUME past \in PastType, NEW i \in Id, NEW fate \in Fate, Mark(i, fate)
  PROVE  /\ past' \in PastType /\ past'[i] = past[i] \cup {fate}
         /\ \A j \in Id \ {i} : past'[j] = past[j]
BY DEF Mark, PastType

(* A release frees the lock and its holder, or changes nothing.            *)
LEMMA ReleaseDoes ==
  ASSUME lock \in LockRecord \cup {None}, covered \subseteq Actor, NEW t,
         ReleaseLock(t)
  PROVE  /\ lock' \in LockRecord \cup {None} /\ covered' \subseteq covered
         /\ lock' = lock \/ (lock' = None /\ covered' = {})
         /\ lock' = lock => covered' = covered
BY DEF ReleaseLock

(* An acquired lock is the actor's own, on its ticket.                     *)
LEMMA AcquireDoes ==
  ASSUME NEW a \in Actor, NEW t \in Ticket, covered \subseteq Actor,
         AcquireLock(a, t)
  PROVE  /\ lock' \in LockRecord /\ lock'.owner = a /\ lock'.ticket = t
         /\ lock' # None /\ covered' = covered \cup {a} /\ covered' \subseteq Actor
         /\ lock # None => lock' = lock
BY NoneAssumption DEF AcquireLock, LockRecord

-----------------------------------------------------------------------------
(* Types.                                                                  *)
TypeFacts ==
  /\ cmd \in CmdType /\ active \in FileType /\ suspended \in FileType
  /\ past \in PastType
  /\ lock \in LockRecord \cup {None} /\ covered \subseteq Actor

(* The type invariant, variable by variable.                               *)
LEMMA TypeOKFacts ==
  TypeOK => TypeFacts
BY DEF TypeOK, TypeFacts, CmdType, FileType, PastType

(* A start writes its agent's file under the next session id.              *)
LEMMA StartWriteDoes ==
  ASSUME TypeOK, NEW a \in Actor, StartWrite(a)
  PROVE  /\ active' \in FileType
         /\ \A b \in Actor \ {a} : active'[b] = active[b]
         /\ active'[a] # None /\ active'[a].id = calls.started + 1
         /\ active'[a].ticket = cmd[a].session.ticket
         /\ active'[a].conc = cmd[a].session.conc
         /\ calls.started + 1 \in Id
         /\ calls' \in [started: 0 .. MaxSessions, killed: 0 .. MaxCrashes,
                        cleaned: 0 .. MaxCleanups]
         /\ calls'.started = calls.started + 1
<1> DEFINE n == calls.started + 1
           s == [cmd[a].session EXCEPT !.id = n]
<1>1. cmd[a].session \in Work
  BY TypeOKFacts, CommandFacts DEF TypeFacts, StartWrite, At
<1>2. calls.started \in 0 .. MaxSessions /\ calls.started < MaxSessions
  BY DEF TypeOK, StartWrite
<1>3. n \in Id
  BY <1>2, ConstantsAssumption DEF Id
<1> HIDE DEF n
<1>4. /\ s \in SessionRecord /\ s.id = n
      /\ s.ticket = cmd[a].session.ticket /\ s.conc = cmd[a].session.conc
  BY <1>1, <1>3 DEF SessionRecord, Work
<1>5. active' = [active EXCEPT ![a] = s]
  BY DEF StartWrite, n
<1>6. calls' \in [started: 0 .. MaxSessions, killed: 0 .. MaxCrashes,
                  cleaned: 0 .. MaxCleanups]
      /\ calls'.started = calls.started + 1
  BY <1>2, ConstantsAssumption DEF TypeOK, StartWrite
<1> HIDE DEF s
<1>7. active' \in FileType /\ active'[a] = s
      /\ \A b \in Actor \ {a} : active'[b] = active[b]
  BY <1>4, <1>5, TypeOKFacts DEF TypeFacts, FileType
<1> QED
  BY <1>3, <1>4, <1>6, <1>7, NoneAssumption DEF n

(* A resume writes the session it read as the active one.                  *)
LEMMA ResumeReviveDoes ==
  ASSUME TypeOK, NEW a \in Actor, CmdOK(a), ResumeRevive(a)
  PROVE  /\ active' \in FileType
         /\ \A b \in Actor \ {a} : active'[b] = active[b]
         /\ active'[a] # None /\ active'[a].id = cmd[a].session.id
         /\ active'[a].ticket = cmd[a].session.ticket
         /\ ~active'[a].conc
<1> DEFINE s == Resumed(cmd[a].session)
<1>1. cmd[a].session \in Work /\ cmd[a].session.id \in Id
  BY TypeOKFacts, CommandFacts DEF TypeFacts, ResumeRevive, At, CmdOK, StepsOf
<1>2. /\ s \in SessionRecord /\ s.id = cmd[a].session.id
      /\ s.ticket = cmd[a].session.ticket /\ ~s.conc
  BY <1>1 DEF SessionRecord, Work, Resumed
<1>3. active' = [active EXCEPT ![a] = s]
  BY DEF ResumeRevive
<1> HIDE DEF s
<1>4. active' \in FileType /\ active'[a] = s
      /\ \A b \in Actor \ {a} : active'[b] = active[b]
  BY <1>2, <1>3, TypeOKFacts DEF TypeFacts, FileType
<1> QED
  BY <1>2, <1>4, NoneAssumption

(* A suspend parks the session it read; what it replaces is marked.        *)
LEMMA SuspendParkDoes ==
  ASSUME TypeOK, NEW a \in Actor, CmdOK(a), SuspendPark(a)
  PROVE  /\ suspended' \in FileType
         /\ \A b \in Actor \ {a} : suspended'[b] = suspended[b]
         /\ suspended'[a] # None /\ suspended'[a].id = cmd[a].session.id
         /\ past' \in PastType
         /\ \A i \in Id : /\ past[i] \subseteq past'[i]
                          /\ "finished" \in past'[i] => "finished" \in past[i]
         /\ \A i \in Id : Holds(suspended, a, i) /\ i # cmd[a].session.id => past'[i] # {}
         /\ \A i \in Id : past'[i] # past[i] => Holds(suspended, a, i)
<1>1. cmd[a] # None /\ cmd[a].session \in Work /\ cmd[a].session.id \in Id
  BY TypeOKFacts, CommandFacts DEF TypeFacts, SuspendPark, At, CmdOK, StepsOf
<1>2. cmd[a].session \in SessionRecord
  BY <1>1 DEF SessionRecord, Work
<1>3. /\ suspended' \in FileType /\ suspended'[a] = cmd[a].session
      /\ \A b \in Actor \ {a} : suspended'[b] = suspended[b]
  BY <1>2, TypeOKFacts DEF TypeFacts, FileType, SuspendPark, Parked
<1>4. CASE suspended[a] # None /\ suspended[a].id # cmd[a].session.id
  <2>1. PICK i \in Id : i = suspended[a].id
    BY <1>4, TypeOKFacts, RecordFacts DEF TypeFacts, FileType
  <2>2. Mark(i, "suspended over") /\ "suspended over" \in Fate
    BY <1>4, <2>1 DEF SuspendPark, Fate
  <2>3. /\ past' \in PastType /\ past'[i] = past[i] \cup {"suspended over"}
        /\ \A j \in Id \ {i} : past'[j] = past[j]
    BY <2>2, TypeOKFacts, MarkDoes DEF TypeFacts
  <2>4. \A j \in Id : /\ past[j] \subseteq past'[j]
                      /\ "finished" \in past'[j] => "finished" \in past[j]
    <3>1. past'[i] = past[i] \cup {"suspended over"} /\ "finished" # "suspended over"
      BY <2>3
    <3>2. \A j \in Id : j = i \/ past'[j] = past[j]
      BY <2>3
    <3> QED
      BY <3>1, <3>2
  <2>5. \A j \in Id : Holds(suspended, a, j) => j = i
    BY <2>1 DEF Holds
  <2>6. Holds(suspended, a, i) /\ past'[i] # {}
    BY <1>4, <2>1, <2>3 DEF Holds
  <2>7. suspended'[a] # None /\ suspended'[a].id = cmd[a].session.id
    BY <1>2, <1>3, NoneAssumption
  <2> QED
    BY <1>3, <2>3, <2>4, <2>5, <2>6, <2>7
<1>5. CASE ~(suspended[a] # None /\ suspended[a].id # cmd[a].session.id)
  <2>1. past' = past
    BY <1>5 DEF SuspendPark
  <2> QED
    BY <1>2, <1>3, <1>5, <2>1, TypeOKFacts, NoneAssumption DEF TypeFacts, Holds
<1> QED
  BY <1>4, <1>5

(* A start begins at the gate, any stale file of its agent gone.           *)
LEMMA StartLoadDoes ==
  ASSUME TypeOK, NEW a \in Actor, NEW t \in Ticket, NEW conc \in BOOLEAN,
         NEW acquire \in BOOLEAN, StartLoad(a, t, conc, acquire)
  PROVE  /\ cmd' \in CmdType /\ Others(a) /\ cmd'[a] # None
         /\ cmd'[a].at = "gate" /\ cmd'[a].op = "start"
         /\ cmd'[a].session.ticket = t /\ cmd'[a].session.conc = conc
         /\ active' \in FileType /\ active'[a] = None
         /\ \A b \in Actor \ {a} : active'[b] = active[b]
         /\ past' \in PastType
         /\ \A i \in Id : /\ past[i] \subseteq past'[i]
                          /\ "finished" \in past'[i] => "finished" \in past[i]
         /\ \A i \in Id : Holds(active, a, i) => past'[i] # {}
         /\ \A i \in Id : past'[i] # past[i] => Holds(active, a, i)
         /\ met' \subseteq SUBSET Actor
<1> DEFINE s == [id |-> 0, ticket |-> t, conc |-> conc, pid |-> TRUE,
                 from |-> handoff[t]]
<1>1. s \in Work /\ s.ticket = t /\ s.conc = conc
  BY DEF Work, TypeOK
<1>2. Begin(a, "gate", s, "start", acquire /\ ~conc /\ lock = None)
  BY DEF StartLoad
<1> HIDE DEF s
<1>3. "gate" \in At0 /\ "start" \in Op /\ (acquire /\ ~conc /\ lock = None) \in BOOLEAN
  BY DEF At0, Op
<1>4. /\ cmd' \in CmdType /\ Others(a) /\ cmd'[a] # None
      /\ cmd'[a].at = "gate" /\ cmd'[a].op = "start" /\ cmd'[a].session = s
  BY <1>1, <1>2, <1>3, BeginDoes, TypeOKFacts DEF TypeFacts
<1>5. /\ active' \in FileType /\ active'[a] = None
      /\ \A b \in Actor \ {a} : active'[b] = active[b]
  BY TypeOKFacts DEF TypeFacts, FileType, StartLoad
<1>6. met' \subseteq SUBSET Actor
  BY DEF StartLoad, TypeOK
<1>7. CASE active[a] = None
  BY <1>1, <1>4, <1>5, <1>6, <1>7, TypeOKFacts DEF StartLoad, TypeFacts, Holds
<1>8. CASE active[a] # None
  <2>1. PICK i \in Id : i = active[a].id
    BY <1>8, TypeOKFacts, RecordFacts DEF TypeFacts, FileType
  <2>2. Mark(i, "evicted") /\ "evicted" \in Fate
    BY <1>8, <2>1 DEF StartLoad, Fate
  <2>3. /\ past' \in PastType /\ past'[i] = past[i] \cup {"evicted"}
        /\ \A j \in Id \ {i} : past'[j] = past[j]
    BY <2>2, TypeOKFacts, MarkDoes DEF TypeFacts
  <2> QED
    BY <1>1, <1>4, <1>5, <1>6, <1>8, <2>1, <2>3 DEF Holds
<1> QED
  BY <1>7, <1>8

(* A sweep may remove files and marks the sessions they held.              *)
LEMMA CleanupEntryDoes ==
  ASSUME TypeOK, NEW e, CleanupEntry(e)
  PROVE  /\ cleanup' \in Cleanup /\ e \in Entry
         /\ status' \in [Ticket -> Status]
         /\ active' \in FileType /\ suspended' \in FileType /\ past' \in PastType
         /\ \A a \in Actor : active'[a] = active[a] \/ active'[a] = None
         /\ \A a \in Actor : suspended'[a] = suspended[a] \/ suspended'[a] = None
         /\ \A i \in Id : /\ past[i] \subseteq past'[i]
                          /\ "finished" \in past'[i] => "finished" \in past[i]
         /\ \A i \in Id, a \in Actor :
              \/ active[a] # active'[a] /\ Holds(active, a, i)
              \/ suspended[a] # suspended'[a] /\ Holds(suspended, a, i)
              => past'[i] # {}
         /\ \A i \in Id : past'[i] # past[i] =>
              \E a \in Actor : Holds(active, a, i) \/ Holds(suspended, a, i)
<1>1. /\ cleanup \in Cleanup /\ e \in cleanup.targets
      /\ cleanup' = [cleanup EXCEPT !.targets = @ \ {e}]
  BY DEF CleanupEntry, TypeOK
<1>2. /\ cleanup' \in Cleanup /\ e \in Entry
  BY <1>1 DEF Cleanup
<1>3. /\ e.actor \in Actor /\ e.ticket \in Ticket /\ e.kind \in {"active", "suspended"}
  BY <1>2 DEF Entry
<1>4. /\ active \in FileType /\ suspended \in FileType /\ past \in PastType
      /\ status \in [Ticket -> Status]
  BY TypeOKFacts DEF TypeFacts, TypeOK
<1>5. CASE FileOf(e) = None
  <2>1. active' = active /\ suspended' = suspended /\ past' = past /\ status' = status
    BY <1>5 DEF CleanupEntry, files
  <2> QED
    BY <1>2, <1>4, <2>1
<1>6. CASE FileOf(e) # None
  <2>1. PICK i \in Id : i = FileOf(e).id
    BY <1>3, <1>4, <1>6, RecordFacts DEF FileOf, FileType
  <2>2. PICK fate \in {"cleaned", "swept"} : Mark(i, fate)
    BY <1>6, <2>1 DEF CleanupEntry
  <2>3. /\ past' \in PastType /\ past'[i] = past[i] \cup {fate}
        /\ \A j \in Id \ {i} : past'[j] = past[j]
    BY <1>4, <2>2, MarkDoes DEF Fate
  <2>4. /\ active' = IF e.kind = "active" THEN [active EXCEPT ![e.actor] = None] ELSE active
        /\ suspended' = IF e.kind = "suspended"
                        THEN [suspended EXCEPT ![e.actor] = None] ELSE suspended
    BY <1>6 DEF CleanupEntry
  <2>5. status' \in [Ticket -> Status]
    BY <1>3, <1>4, <1>6 DEF CleanupEntry, Status
  <2>6. CASE e.kind = "active"
    <3>1. /\ active' \in FileType /\ active'[e.actor] = None
          /\ \A b \in Actor \ {e.actor} : active'[b] = active[b]
          /\ suspended' = suspended /\ Holds(active, e.actor, i)
      BY <1>3, <1>4, <1>6, <2>1, <2>4, <2>6 DEF FileType, FileOf, Holds
    <3> QED
      BY <1>2, <1>3, <1>4, <2>1, <2>2, <2>3, <2>5, <3>1 DEF Holds
  <2>7. CASE e.kind = "suspended"
    <3>1. /\ suspended' \in FileType /\ suspended'[e.actor] = None
          /\ \A b \in Actor \ {e.actor} : suspended'[b] = suspended[b]
          /\ active' = active /\ Holds(suspended, e.actor, i)
      BY <1>3, <1>4, <1>6, <2>1, <2>4, <2>7 DEF FileType, FileOf, Holds
    <3> QED
      BY <1>2, <1>3, <1>4, <2>1, <2>2, <2>3, <2>5, <3>1 DEF Holds
  <2> QED
    BY <1>3, <2>6, <2>7
<1> QED
  BY <1>5, <1>6

-----------------------------------------------------------------------------
(* What each step of a command does to the command and to the files.       *)
FilesSame == UNCHANGED <<active, suspended, past, torn, met, calls>>

(* A command goes on with another step.                                    *)
Goes(a, step) ==
  /\ cmd' \in CmdType /\ Others(a)
  /\ cmd[a] # None /\ cmd'[a] # None /\ cmd'[a].at = step /\ SameCmd(a)

(* A command ends.                                                         *)
Ends(a) == cmd' \in CmdType /\ Others(a) /\ cmd'[a] = None

(* A command begins, with a session it has read from file.                 *)
Begins(a, steps, op, file) ==
  /\ cmd' \in CmdType /\ Others(a)
  /\ cmd[a] = None /\ file[a] # None /\ file[a].id \in Id
  /\ cmd'[a] # None /\ cmd'[a].at \in steps /\ cmd'[a].op = op
  /\ cmd'[a].session = file[a]

(* A command that moves on is one that goes to that step.                  *)
LEMMA GotoGoes ==
  ASSUME TypeOK, NEW a \in Actor, cmd[a] # None, NEW step \in At0, Goto(a, step)
  PROVE  Goes(a, step)
BY TypeOKFacts, GotoDoes DEF TypeFacts, Goes

(* A command that returns is one that ends.                                *)
LEMMA ReturnEnds ==
  ASSUME TypeOK, NEW a \in Actor, Return(a)
  PROVE  Ends(a)
BY TypeOKFacts, ReturnDoes DEF TypeFacts, Ends

(* A command that begins on a file read is one that works on it.           *)
LEMMA BeginBegins ==
  ASSUME TypeOK, NEW a \in Actor, cmd[a] = None,
         NEW file \in FileType, file[a] # None,
         NEW step \in At0, NEW op \in Op, NEW flag \in BOOLEAN,
         Begin(a, step, file[a], op, flag)
  PROVE  Begins(a, {step}, op, file)
<1>1. file[a] \in SessionRecord
  BY DEF FileType
<1>2. file[a] \in Work /\ file[a].id \in Id
  BY <1>1, RecordFacts
<1> QED
  BY <1>2, TypeOKFacts, BeginDoes DEF TypeFacts, Begins

(* A concurrent start passes the gate only where no sibling clashes.       *)
LEMMA StartConcurrentDoes ==
  ASSUME TypeOK, NEW a \in Actor, StartConcurrent(a)
  PROVE  /\ Goes(a, "consume") /\ cmd[a].at = "gate" /\ FilesSame
         /\ cmd[a].session.conc /\ lock' = lock /\ covered' = covered \ {a}
         /\ \A u \in SiblingTickets(a, cmd[a].session.ticket) :
              <<cmd[a].session.ticket, u>> \notin Clash
BY GotoGoes DEF StartConcurrent, At, FilesSame, files, At0

(* A start outside concurrency passes the gate with the lock.              *)
LEMMA StartLockedDoes ==
  ASSUME TypeOK, NEW a \in Actor, StartLocked(a)
  PROVE  /\ Goes(a, "consume") /\ cmd[a].at = "gate" /\ FilesSame
         /\ ~cmd[a].session.conc
         /\ lock' \in LockRecord /\ lock' # None /\ Under(a, lock'.owner)
         /\ lock'.ticket = cmd[a].session.ticket
         /\ covered' = covered \cup {a}
         /\ lock # None => lock' = lock
<1> DEFINE c == [cmd[a] EXCEPT !.at = "consume", !.flag = FALSE]
<1>1. cmd[a] # None /\ cmd[a] \in Command /\ cmd[a].session.ticket \in Ticket
  BY TypeOKFacts, CommandFacts DEF TypeFacts, StartLocked, At
<1>2. c \in Command /\ c.at = "consume" /\ c.session = cmd[a].session /\ c.op = cmd[a].op
  BY <1>1 DEF Command
<1>3. cmd' = [cmd EXCEPT ![a] = c]
  BY TypeOKFacts DEF StartLocked, TypeFacts, CmdType
<1> HIDE DEF c
<1>4. Goes(a, "consume")
  BY <1>1, <1>2, <1>3, TypeOKFacts, NoneAssumption
     DEF TypeFacts, CmdType, Goes, Others, SameCmd
<1>5. cmd[a].at = "gate" /\ ~cmd[a].session.conc /\ FilesSame
  BY DEF StartLocked, At, FilesSame, files
<1>6. CASE AcquireLock(a, cmd[a].session.ticket)
  BY <1>1, <1>4, <1>5, <1>6, AcquireDoes, TypeOKFacts DEF TypeFacts, Under
<1>7. CASE /\ EnsureLock(a, cmd[a].session.ticket)
           /\ covered' = covered \cup {a} /\ UNCHANGED lock
  <2>1. lock' # None /\ lock'.ticket = cmd[a].session.ticket /\ Under(a, lock'.owner)
    BY <1>7 DEF EnsureLock
  <2> QED
    BY <1>1, <1>4, <1>5, <1>7, <2>1, TypeOKFacts DEF TypeFacts
<1> QED
  BY <1>6, <1>7 DEF StartLocked

(* A refused start ends and leaves files and lock alone.                   *)
LEMMA StartRefusedDoes ==
  ASSUME TypeOK, NEW a \in Actor, StartRefused(a)
  PROVE  Ends(a) /\ FilesSame /\ UNCHANGED <<lock, covered>>
BY ReturnEnds DEF StartRefused, FilesSame, files, history

(* A start that reads its handoff leaves files and lock alone.             *)
LEMMA StartConsumeDoes ==
  ASSUME TypeOK, NEW a \in Actor, StartConsume(a)
  PROVE  /\ Goes(a, "write") /\ cmd[a].at = "consume" /\ FilesSame
         /\ UNCHANGED <<lock, covered>>
BY GotoGoes DEF StartConsume, At, FilesSame, files, history, At0

(* A finish begins with the active session it read.                        *)
LEMMA FinishStatusDoes ==
  ASSUME TypeOK, NEW a \in Actor, NEW set, NEW release, FinishStatus(a, set, release)
  PROVE  /\ Begins(a, {"release", "memento"}, "finish", active) /\ FilesSame
         /\ UNCHANGED <<lock, covered>>
<1>1. PICK step \in {"release", "memento"} : Begin(a, step, active[a], "finish", FALSE)
  BY DEF FinishStatus
<1>2. step \in At0 /\ "finish" \in Op
  BY DEF At0, Op
<1>3. Begins(a, {step}, "finish", active)
  BY <1>1, <1>2, BeginBegins, TypeOKFacts DEF TypeFacts, FinishStatus
<1> QED
  BY <1>3 DEF Begins, FinishStatus, FilesSame, files, history

(* A handoff begins with the active session it read.                       *)
LEMMA HandoffBeginDoes ==
  ASSUME TypeOK, NEW a \in Actor, NEW release \in BOOLEAN, HandoffBegin(a, release)
  PROVE  /\ Begins(a, {"memento"}, "handoff", active) /\ FilesSame
         /\ UNCHANGED <<lock, covered>>
<1>1. "memento" \in At0 /\ "handoff" \in Op
  BY DEF At0, Op
<1>2. Begins(a, {"memento"}, "handoff", active)
  BY <1>1, BeginBegins, TypeOKFacts DEF TypeFacts, HandoffBegin
<1> QED
  BY <1>2 DEF HandoffBegin, FilesSame, files, history

(* A suspend begins with the active session it read.                       *)
LEMMA SuspendPauseDoes ==
  ASSUME TypeOK, NEW a \in Actor, NEW release, SuspendPause(a, release)
  PROVE  /\ Begins(a, {"release", "park"}, "suspend", active) /\ FilesSame
         /\ UNCHANGED <<lock, covered>>
<1>1. PICK step \in {"release", "park"} : Begin(a, step, active[a], "suspend", FALSE)
  BY DEF SuspendPause
<1>2. step \in At0 /\ "suspend" \in Op
  BY DEF At0, Op
<1>3. Begins(a, {step}, "suspend", active)
  BY <1>1, <1>2, BeginBegins, TypeOKFacts DEF TypeFacts, SuspendPause
<1> QED
  BY <1>3 DEF Begins, SuspendPause, FilesSame, files, history

(* A resume begins with the suspended session it read, no session active.  *)
LEMMA ResumeLockDoes ==
  ASSUME TypeOK, NEW a \in Actor, NEW acquire, ResumeLock(a, acquire)
  PROVE  /\ Begins(a, {"reopen"}, "resume", suspended) /\ FilesSame
         /\ active[a] = None
         /\ \/ lock' = lock /\ covered' = covered \ {a}
            \/ /\ lock' \in LockRecord /\ lock' # None /\ Under(a, lock'.owner)
               /\ lock'.ticket = suspended[a].ticket
               /\ covered' = covered \cup {a}
               /\ lock # None => lock' = lock
<1>1. "reopen" \in At0 /\ "resume" \in Op
  BY DEF At0, Op
<1>2. Begins(a, {"reopen"}, "resume", suspended)
  BY <1>1, BeginBegins, TypeOKFacts DEF TypeFacts, ResumeLock
<1>3. FilesSame /\ active[a] = None
  BY DEF ResumeLock, FilesSame, files
<1>4. suspended[a].ticket \in Ticket
  BY TypeOKFacts, RecordFacts DEF TypeFacts, FileType, ResumeLock
<1>5. CASE acquire
  BY <1>2, <1>3, <1>4, <1>5, AcquireDoes, TypeOKFacts
     DEF TypeFacts, ResumeLock, Under
<1>6. CASE ~acquire
  BY <1>2, <1>3, <1>6 DEF ResumeLock
<1> QED
  BY <1>5, <1>6

(* The release of a finish or a suspend touches only the lock.             *)
LEMMA CommandReleaseDoes ==
  ASSUME TypeOK, NEW a \in Actor, CommandRelease(a)
  PROVE  /\ Goes(a, IF cmd[a].op = "finish" THEN "memento" ELSE "park")
         /\ cmd[a].at = "release" /\ FilesSame
         /\ lock' \in LockRecord \cup {None} /\ covered' \subseteq covered
         /\ lock' = lock \/ (lock' = None /\ covered' = {})
BY GotoGoes, ReleaseDoes, TypeOKFacts
   DEF TypeFacts, CommandRelease, At, FilesSame, files, At0

(* The memento marks the session finished.                                 *)
LEMMA FinishMementoDoes ==
  ASSUME TypeOK, NEW a \in Actor, CmdOK(a), FinishMemento(a)
  PROVE  /\ Goes(a, "unlink") /\ cmd[a].at = "memento"
         /\ cmd[a].op \in {"finish", "handoff"}
         /\ cmd[a].session.id \in Id
         /\ past' \in PastType
         /\ past'[cmd[a].session.id] = past[cmd[a].session.id] \cup {"finished"}
         /\ \A j \in Id \ {cmd[a].session.id} : past'[j] = past[j]
         /\ UNCHANGED <<active, suspended, torn, met, calls, lock, covered>>
<1>1. cmd[a] # None /\ cmd[a].at = "memento" /\ cmd[a].at \in StepsOf(cmd[a].op)
      /\ (cmd[a].op # "start" => cmd[a].session.id \in Id)
  BY DEF FinishMemento, At, CmdOK
<1>2. cmd[a].op \in {"finish", "handoff"}
  BY <1>1 DEF StepsOf
<1>3. cmd[a].session.id \in Id /\ "finished" \in Fate
  BY <1>1, <1>2 DEF Fate
<1>4. Goes(a, "unlink")
  BY <1>1, GotoGoes DEF FinishMemento, At0
<1>5. PICK i \in Id : i = cmd[a].session.id
  BY <1>3
<1>6. Mark(i, "finished")
  BY <1>5 DEF FinishMemento
<1> QED
  BY <1>1, <1>2, <1>3, <1>4, <1>5, <1>6, MarkDoes, TypeOKFacts
     DEF TypeFacts, FinishMemento, files

(* The unlink removes the agent's own active file.                         *)
LEMMA ActiveUnlinkDoes ==
  ASSUME TypeOK, NEW a \in Actor, ActiveUnlink(a)
  PROVE  /\ Goes(a, "record") \/ Ends(a)
         /\ cmd[a].op = "handoff" => Goes(a, "record")
         /\ cmd[a].op # "handoff" => Ends(a)
         /\ cmd[a] # None /\ cmd[a].at = "unlink"
         /\ active' \in FileType /\ active'[a] = None
         /\ \A b \in Actor \ {a} : active'[b] = active[b]
         /\ UNCHANGED <<suspended, past, torn, met, calls, lock, covered>>
<1>1. cmd[a] # None /\ cmd[a].at = "unlink"
  BY DEF ActiveUnlink, At
<1>2. /\ cmd[a].op = "handoff" => Goes(a, "record")
      /\ cmd[a].op # "handoff" => Ends(a)
  BY <1>1, GotoGoes, ReturnEnds DEF ActiveUnlink, At0
<1>3. /\ active' \in FileType /\ active'[a] = None
      /\ \A b \in Actor \ {a} : active'[b] = active[b]
  BY TypeOKFacts DEF TypeFacts, FileType, ActiveUnlink
<1> QED
  BY <1>1, <1>2, <1>3 DEF ActiveUnlink, files, history

(* Recording a handoff leaves files and lock alone.                        *)
LEMMA HandoffRecordDoes ==
  ASSUME TypeOK, NEW a \in Actor, CmdOK(a), HandoffRecord(a)
  PROVE  /\ Goes(a, "unlock") \/ Ends(a)
         /\ cmd[a].at = "record" /\ FilesSame
         /\ cmd[a].session.id \in Id
         /\ UNCHANGED <<lock, covered>>
<1>1. cmd[a] # None /\ cmd[a].at = "record" /\ cmd[a].session.id \in Id
  BY DEF HandoffRecord, At, CmdOK, StepsOf
<1>2. Goes(a, "unlock") \/ Ends(a)
  BY <1>1, GotoGoes, ReturnEnds DEF HandoffRecord, At0
<1> QED
  BY <1>1, <1>2 DEF HandoffRecord, FilesSame, files, history

(* The last step of a handoff touches only the lock.                       *)
LEMMA HandoffUnlockDoes ==
  ASSUME TypeOK, NEW a \in Actor, HandoffUnlock(a)
  PROVE  /\ Ends(a) /\ FilesSame
         /\ lock' \in LockRecord \cup {None} /\ covered' \subseteq covered
         /\ lock' = lock \/ (lock' = None /\ covered' = {})
BY ReturnEnds, ReleaseDoes, TypeOKFacts DEF TypeFacts, HandoffUnlock, FilesSame, files

(* A suspend that has parked goes on to unlink.                            *)
LEMMA SuspendParkGoes ==
  ASSUME TypeOK, NEW a \in Actor, SuspendPark(a)
  PROVE  /\ Goes(a, "unlink") /\ cmd[a].at = "park"
         /\ UNCHANGED <<active, torn, met, calls, lock, covered>>
BY GotoGoes DEF SuspendPark, At, At0

(* A resume that reopens the ticket leaves files and lock alone.           *)
LEMMA ResumeReopenDoes ==
  ASSUME TypeOK, NEW a \in Actor, ResumeReopen(a)
  PROVE  /\ Goes(a, "revive") /\ cmd[a].at = "reopen" /\ FilesSame
         /\ UNCHANGED <<lock, covered>>
BY GotoGoes DEF ResumeReopen, At, FilesSame, files, history, At0

(* A resume that has revived goes on to discard.                           *)
LEMMA ResumeReviveGoes ==
  ASSUME TypeOK, NEW a \in Actor, ResumeRevive(a)
  PROVE  /\ Goes(a, "discard") /\ cmd[a].at = "revive"
         /\ UNCHANGED <<suspended, past, torn, met, calls, lock, covered>>
BY GotoGoes DEF ResumeRevive, At, history, At0

(* The discard removes the agent's own suspended file.                     *)
LEMMA ResumeDiscardDoes ==
  ASSUME TypeOK, NEW a \in Actor, ResumeDiscard(a)
  PROVE  /\ Ends(a) /\ cmd[a] # None /\ cmd[a].at = "discard"
         /\ suspended' \in FileType /\ suspended'[a] = None
         /\ \A b \in Actor \ {a} : suspended'[b] = suspended[b]
         /\ UNCHANGED <<active, past, torn, met, calls, lock, covered>>
<1>1. /\ suspended' \in FileType /\ suspended'[a] = None
      /\ \A b \in Actor \ {a} : suspended'[b] = suspended[b]
  BY TypeOKFacts DEF TypeFacts, FileType, ResumeDiscard, Discarded
<1> QED
  BY <1>1, ReturnEnds DEF ResumeDiscard, At, history

(* A crash ends the command; between two files it tears the session.       *)
LEMMA CrashDoes ==
  ASSUME TypeOK, NEW a \in Actor, CmdOK(a), Crash(a)
  PROVE  /\ Ends(a) /\ cmd[a] # None
         /\ torn' \subseteq Id /\ torn \subseteq torn'
         /\ cmd[a].at \in {"discard", "unlink"} => cmd[a].session.id \in torn'
         /\ calls'.started = calls.started
         /\ calls' \in [started: 0 .. MaxSessions, killed: 0 .. MaxCrashes,
                        cleaned: 0 .. MaxCleanups]
         /\ UNCHANGED <<active, suspended, past, met, lock, covered>>
<1>1. cmd[a] # None /\ Ends(a)
  BY ReturnEnds DEF Crash
<1>2. At(a, "discard") \/ At(a, "unlink") => cmd[a].session.id \in Id
  BY DEF At, CmdOK, StepsOf
<1>3. /\ torn' \subseteq Id /\ torn \subseteq torn'
      /\ cmd[a].at \in {"discard", "unlink"} => cmd[a].session.id \in torn'
  BY <1>1, <1>2 DEF Crash, TypeOK, At
<1>4. /\ calls'.started = calls.started
      /\ calls' \in [started: 0 .. MaxSessions, killed: 0 .. MaxCrashes,
                     cleaned: 0 .. MaxCleanups]
  BY ConstantsAssumption DEF Crash, TypeOK
<1> QED
  BY <1>1, <1>3, <1>4 DEF Crash, files

-----------------------------------------------------------------------------
(* Every step keeps the types, and the shape of the commands: the step a   *)
(* command is at belongs to what it runs, and it has a session unless it   *)
(* starts one.                                                             *)

(* The shape of the commands is kept when only one, well formed, changes.  *)
LEMMA ShapeKept ==
  ASSUME Shape, NEW a \in Actor, Others(a), cmd'[a] = None \/ CmdOK(a)'
  PROVE  Shape'
<1>1. CmdOK(a)'
  BY DEF CmdOK
<1> QED
  BY <1>1 DEF Shape, CmdOK, Others

(* Going to a step of the same operation keeps the shape.                  *)
LEMMA GoesShape ==
  ASSUME TypeOK, Shape, NEW a \in Actor, NEW step, Goes(a, step),
         step \in StepsOf(cmd[a].op)
  PROVE  Shape'
<1>1. CmdOK(a)'
  BY DEF Shape, CmdOK, Goes, SameCmd
<1> QED
  BY <1>1, ShapeKept DEF Goes

(* Beginning at a step of the operation keeps the shape.                   *)
LEMMA BeginsShape ==
  ASSUME TypeOK, Shape, NEW a \in Actor, NEW steps, NEW op, NEW file,
         Begins(a, steps, op, file), steps \subseteq StepsOf(op)
  PROVE  Shape'
<1>1. CmdOK(a)'
  BY DEF CmdOK, Begins
<1> QED
  BY <1>1, ShapeKept DEF Begins

(* Ending a command keeps the shape.                                       *)
LEMMA EndsShape ==
  ASSUME TypeOK, Shape, NEW a \in Actor, Ends(a)
  PROVE  Shape'
BY ShapeKept DEF Ends

(* The types of the variables make up the type invariant.                  *)
LEMMA TypesBack ==
  ASSUME cmd' \in CmdType, active' \in FileType, suspended' \in FileType,
         past' \in PastType, lock' \in LockRecord \cup {None},
         covered' \subseteq Actor, torn' \subseteq Id, met' \subseteq SUBSET Actor,
         status' \in [Ticket -> Status], handoff' \in [Ticket -> Id \cup {0}],
         cleanup' \in Cleanup \cup {None}, old' \subseteq Id,
         calls' \in [started: 0 .. MaxSessions, killed: 0 .. MaxCrashes,
                     cleaned: 0 .. MaxCleanups]
  PROVE  TypeOK'
BY DEF TypeOK, CmdType, FileType, PastType

(* A sweep finds entries.                                                  *)
LEMMA ScanTyped ==
  ASSUME TypeOK
  PROVE  Scan \subseteq Entry
<1>1. ASSUME NEW kind \in {"active", "suspended"}, NEW file \in FileType
      PROVE  ScanOf(kind, file) \subseteq Entry
  <2> SUFFICES ASSUME NEW b \in Actor, file[b] # None
               PROVE  [kind |-> kind, actor |-> b, id |-> file[b].id,
                       ticket |-> file[b].ticket, stale |-> file[b].id \in old] \in Entry
    BY DEF ScanOf
  <2>1. file[b].id \in Id /\ file[b].ticket \in Ticket
    BY <1>1, RecordFacts DEF FileType
  <2> QED
    BY <1>1, <2>1 DEF Entry
<1>2. active \in FileType /\ suspended \in FileType
  BY TypeOKFacts DEF TypeFacts
<1>3. ScanOf("active", active) \subseteq Entry /\ ScanOf("suspended", suspended) \subseteq Entry
  BY <1>1, <1>2
<1> QED
  BY <1>3 DEF Scan

(* Every step of a command keeps types and shape.                          *)
LEMMA CommandTypes ==
  ASSUME TypeOK, Shape, NEW a \in Actor,
         StartStep(a) \/ FinishStep(a) \/ SuspendStep(a) \/ ResumeStep(a) \/ Crash(a)
  PROVE  TypeOK' /\ Shape'
<1>0. TypeFacts /\ CmdOK(a)
  BY TypeOKFacts DEF Shape
<1>T. cmd[a] # None =>
        /\ cmd[a].at \in StepsOf(cmd[a].op) /\ cmd[a].op \in Op
        /\ cmd[a].session.ticket \in Ticket
  BY <1>0, CommandFacts DEF TypeFacts, CmdOK
<1>F. active[a] # None => active[a].ticket \in Ticket
  BY <1>0, RecordFacts DEF TypeFacts, FileType
<1>1. ASSUME NEW t \in Ticket, NEW conc \in BOOLEAN, NEW acquire \in BOOLEAN,
             StartLoad(a, t, conc, acquire)
      PROVE  TypeOK' /\ Shape'
  <2>0. /\ cmd' \in CmdType /\ active' \in FileType /\ past' \in PastType
        /\ met' \subseteq SUBSET Actor
    BY <1>1, StartLoadDoes
  <2>1. TypeOK'
    BY <1>0, <1>1, <2>0, TypesBack DEF TypeOK, TypeFacts, StartLoad
  <2>2. CmdOK(a)'
    BY <1>1, StartLoadDoes DEF CmdOK, StepsOf
  <2> QED
    BY <1>1, <2>1, <2>2, StartLoadDoes, ShapeKept
<1>2. CASE StartConcurrent(a)
  <2>1. "consume" \in StepsOf(cmd[a].op)
    BY <1>2, <1>T, StartConcurrentDoes DEF Goes, StepsOf, Op
  <2> QED
    BY <1>0, <1>2, <2>1, StartConcurrentDoes, GoesShape, TypesBack
       DEF Goes, TypeOK, TypeFacts, FilesSame, StartConcurrent
<1>3. CASE StartLocked(a)
  <2>1. "consume" \in StepsOf(cmd[a].op)
    BY <1>3, <1>T, StartLockedDoes DEF Goes, StepsOf, Op
  <2>2. Goes(a, "consume") /\ lock' \in LockRecord /\ covered' \subseteq Actor
    BY <1>0, <1>3, StartLockedDoes DEF TypeFacts
  <2>3. Shape'
    BY <2>1, <2>2, GoesShape
  <2>4. TypeOK'
    BY <1>0, <1>3, <2>2, TypesBack DEF Goes, TypeOK, TypeFacts, StartLocked, files
  <2> QED
    BY <2>3, <2>4
<1>4. CASE StartRefused(a)
  BY <1>0, <1>4, StartRefusedDoes, EndsShape, TypesBack
     DEF Ends, TypeOK, TypeFacts, FilesSame, StartRefused
<1>5. CASE StartConsume(a)
  <2>1. "write" \in StepsOf(cmd[a].op) /\ cmd[a].session.ticket \in Ticket
    BY <1>5, <1>T, StartConsumeDoes DEF Goes, StepsOf, Op
  <2>2. handoff' \in [Ticket -> Id \cup {0}]
    BY <1>5, <2>1 DEF StartConsume, TypeOK
  <2> QED
    BY <1>0, <1>5, <2>1, <2>2, StartConsumeDoes, GoesShape, TypesBack
       DEF Goes, TypeOK, TypeFacts, FilesSame, StartConsume
<1>6. CASE StartWrite(a)
  <2>1. Ends(a)
    BY <1>6, ReturnEnds DEF StartWrite
  <2>2. /\ active' \in FileType
        /\ calls' \in [started: 0 .. MaxSessions, killed: 0 .. MaxCrashes,
                       cleaned: 0 .. MaxCleanups]
    BY <1>6, StartWriteDoes
  <2> QED
    BY <1>0, <1>6, <2>1, <2>2, EndsShape, TypesBack
       DEF Ends, TypeOK, TypeFacts, StartWrite, history
<1>7. ASSUME NEW set \in Outcome, NEW release \in BOOLEAN, FinishStatus(a, set, release)
      PROVE  TypeOK' /\ Shape'
  <2>1. {"release", "memento"} \subseteq StepsOf("finish")
    BY DEF StepsOf
  <2>2. status' \in [Ticket -> Status]
    BY <1>7, <1>F, ConstantsAssumption DEF FinishStatus, TypeOK, Status
  <2>3. Begins(a, {"release", "memento"}, "finish", active)
    BY <1>7, FinishStatusDoes
  <2>4. Shape'
    BY <2>1, <2>3, BeginsShape
  <2>5. TypeOK'
    BY <1>0, <1>7, <2>2, <2>3, FinishStatusDoes, TypesBack
       DEF Begins, TypeOK, TypeFacts, FilesSame, FinishStatus
  <2> QED
    BY <2>4, <2>5
<1>8. ASSUME NEW release \in BOOLEAN, HandoffBegin(a, release)
      PROVE  TypeOK' /\ Shape'
  <2>1. {"memento"} \subseteq StepsOf("handoff")
    BY DEF StepsOf
  <2>3. Begins(a, {"memento"}, "handoff", active)
    BY <1>8, HandoffBeginDoes
  <2>4. Shape'
    BY <2>1, <2>3, BeginsShape
  <2>5. TypeOK'
    BY <1>0, <1>8, <2>3, HandoffBeginDoes, TypesBack
       DEF Begins, TypeOK, TypeFacts, FilesSame, HandoffBegin
  <2> QED
    BY <2>4, <2>5
<1>9. CASE FinishMemento(a)
  <2>1. "unlink" \in StepsOf(cmd[a].op)
    BY <1>0, <1>9, FinishMementoDoes DEF StepsOf
  <2> QED
    BY <1>0, <1>9, <2>1, FinishMementoDoes, GoesShape, TypesBack
       DEF Goes, TypeOK, TypeFacts, FinishMemento
<1>10. CASE ActiveUnlink(a)
  <2>1. Shape' /\ cmd' \in CmdType
    <3>1. CASE cmd[a].op = "handoff"
      <4>1. "record" \in StepsOf(cmd[a].op)
        BY <3>1 DEF StepsOf
      <4> QED
        BY <1>10, <3>1, <4>1, ActiveUnlinkDoes, GoesShape DEF Goes
    <3>2. CASE cmd[a].op # "handoff"
      BY <1>10, <3>2, ActiveUnlinkDoes, EndsShape DEF Ends
    <3> QED
      BY <3>1, <3>2
  <2> QED
    BY <1>0, <1>10, <2>1, ActiveUnlinkDoes, TypesBack DEF TypeOK, TypeFacts, ActiveUnlink
<1>11. CASE HandoffRecord(a)
  <2>1. Shape' /\ cmd' \in CmdType
    <3>1. CASE Goes(a, "unlock")
      <4>1. "unlock" \in StepsOf(cmd[a].op)
        BY <1>0, <1>11, <1>T, <3>1, HandoffRecordDoes DEF Goes, StepsOf, Op
      <4> QED
        BY <3>1, <4>1, GoesShape DEF Goes
    <3>2. CASE Ends(a)
      BY <3>2, EndsShape DEF Ends
    <3> QED
      BY <1>0, <1>11, <3>1, <3>2, HandoffRecordDoes
  <2>2. cmd[a].session.id \in Id /\ cmd[a].session.ticket \in Ticket
    BY <1>0, <1>11, <1>T, HandoffRecordDoes DEF HandoffRecord, At
  <2>3. handoff' \in [Ticket -> Id \cup {0}]
    BY <1>11, <2>2 DEF HandoffRecord, TypeOK
  <2> QED
    BY <1>0, <1>11, <2>1, <2>3, HandoffRecordDoes, TypesBack
       DEF TypeOK, TypeFacts, FilesSame, HandoffRecord
<1>12. CASE HandoffUnlock(a)
  BY <1>0, <1>12, HandoffUnlockDoes, EndsShape, TypesBack
     DEF Ends, TypeOK, TypeFacts, FilesSame, HandoffUnlock
<1>13. ASSUME NEW release \in BOOLEAN, SuspendPause(a, release)
       PROVE  TypeOK' /\ Shape'
  <2>1. {"release", "park"} \subseteq StepsOf("suspend")
    BY DEF StepsOf
  <2>2. status' \in [Ticket -> Status]
    BY <1>13, <1>F DEF SuspendPause, TypeOK, Status
  <2>3. Begins(a, {"release", "park"}, "suspend", active)
    BY <1>13, SuspendPauseDoes
  <2>4. Shape'
    BY <2>1, <2>3, BeginsShape
  <2>5. TypeOK'
    BY <1>0, <1>13, <2>2, <2>3, SuspendPauseDoes, TypesBack
       DEF Begins, TypeOK, TypeFacts, FilesSame, SuspendPause
  <2> QED
    BY <2>4, <2>5
<1>14. CASE CommandRelease(a)
  <2>1. (IF cmd[a].op = "finish" THEN "memento" ELSE "park") \in StepsOf(cmd[a].op)
    BY <1>14, <1>T, CommandReleaseDoes DEF Goes, StepsOf, Op
  <2> QED
    BY <1>0, <1>14, <2>1, CommandReleaseDoes, GoesShape, TypesBack
       DEF Goes, TypeOK, TypeFacts, FilesSame, CommandRelease
<1>15. CASE SuspendPark(a)
  <2>1. "unlink" \in StepsOf(cmd[a].op)
    BY <1>15, <1>T, SuspendParkGoes DEF Goes, StepsOf, Op
  <2> QED
    BY <1>0, <1>15, <2>1, SuspendParkGoes, SuspendParkDoes, GoesShape, TypesBack
       DEF Goes, TypeOK, TypeFacts, SuspendPark
<1>16. ASSUME NEW acquire \in BOOLEAN, ResumeLock(a, acquire)
       PROVE  TypeOK' /\ Shape'
  <2>1. {"reopen"} \subseteq StepsOf("resume")
    BY DEF StepsOf
  <2>2. lock' \in LockRecord \cup {None} /\ covered' \subseteq Actor
    BY <1>0, <1>16, ResumeLockDoes DEF TypeFacts
  <2>3. Begins(a, {"reopen"}, "resume", suspended)
    BY <1>16, ResumeLockDoes
  <2>4. Shape'
    BY <2>1, <2>3, BeginsShape
  <2>5. TypeOK'
    BY <1>0, <1>16, <2>2, <2>3, ResumeLockDoes, TypesBack
       DEF Begins, TypeOK, TypeFacts, FilesSame, ResumeLock
  <2> QED
    BY <2>4, <2>5
<1>17. CASE ResumeReopen(a)
  <2>1. "revive" \in StepsOf(cmd[a].op) /\ cmd[a].session.ticket \in Ticket
    BY <1>17, <1>T, ResumeReopenDoes DEF Goes, StepsOf, Op
  <2>2. status' \in [Ticket -> Status]
    BY <1>17, <2>1 DEF ResumeReopen, ResumedStatus, TypeOK, Status
  <2> QED
    BY <1>0, <1>17, <2>1, <2>2, ResumeReopenDoes, GoesShape, TypesBack
       DEF Goes, TypeOK, TypeFacts, FilesSame, ResumeReopen
<1>18. CASE ResumeRevive(a)
  <2>1. "discard" \in StepsOf(cmd[a].op)
    BY <1>18, <1>T, ResumeReviveGoes DEF Goes, StepsOf, Op
  <2> QED
    BY <1>0, <1>18, <2>1, ResumeReviveGoes, ResumeReviveDoes, GoesShape, TypesBack
       DEF Goes, TypeOK, TypeFacts, ResumeRevive
<1>19. CASE ResumeDiscard(a)
  BY <1>0, <1>19, ResumeDiscardDoes, EndsShape, TypesBack
     DEF Ends, TypeOK, TypeFacts, ResumeDiscard
<1>20. CASE Crash(a)
  BY <1>0, <1>20, CrashDoes, EndsShape, TypesBack
     DEF Ends, TypeOK, TypeFacts, Crash
<1> QED
  BY <1>1, <1>2, <1>3, <1>4, <1>5, <1>6, <1>7, <1>8, <1>9, <1>10, <1>11, <1>12,
     <1>13, <1>14, <1>15, <1>16, <1>17, <1>18, <1>19, <1>20
     DEF StartStep, FinishStep, SuspendStep, ResumeStep

(* Sweeps, ageing and lock changes keep types and shape.                    *)
LEMMA SystemTypes ==
  ASSUME TypeOK, Shape,
         CleanupStep \/ (\E i \in Id : Age(i))
           \/ \E l \in LockRecord \cup {None} : LockChanges(l)
  PROVE  TypeOK' /\ Shape' /\ cmd' = cmd
<1>0. TypeFacts
  BY TypeOKFacts
<1>S. cmd' = cmd => Shape'
  BY DEF Shape, CmdOK
<1>1. ASSUME NEW force \in BOOLEAN, NEW release \in BOOLEAN, NEW dead \in SUBSET Orphans,
             CleanupScan(force, dead, release)
      PROVE  TypeOK' /\ Shape' /\ cmd' = cmd
  <2>1. (IF force THEN Scan ELSE {e \in Scan : e.stale} \cup dead) \in SUBSET Entry
    BY ScanTyped DEF Orphans
  <2>2. cleanup' \in Cleanup
    BY <1>1, <2>1 DEF CleanupScan, Cleanup
  <2>3. calls' \in [started: 0 .. MaxSessions, killed: 0 .. MaxCrashes,
                    cleaned: 0 .. MaxCleanups]
    BY <1>1, ConstantsAssumption DEF CleanupScan, TypeOK
  <2> QED
    BY <1>0, <1>1, <1>S, <2>2, <2>3, TypesBack
       DEF TypeOK, TypeFacts, CleanupScan, files, history
<1>2. ASSUME cleanup # None, NEW e \in cleanup.targets, CleanupEntry(e)
      PROVE  TypeOK' /\ Shape' /\ cmd' = cmd
  BY <1>0, <1>2, <1>S, CleanupEntryDoes, TypesBack DEF TypeOK, TypeFacts, CleanupEntry
<1>3. CASE CleanupEnd
  <2>1. lock' \in LockRecord \cup {None} /\ covered' \subseteq Actor
    BY <1>0, <1>3, ReleaseDoes DEF CleanupEnd, TypeFacts
  <2> QED
    BY <1>0, <1>3, <1>S, <2>1, TypesBack DEF TypeOK, TypeFacts, CleanupEnd, files
<1>4. CASE CleanupCrash
  <2>1. calls' \in [started: 0 .. MaxSessions, killed: 0 .. MaxCrashes,
                    cleaned: 0 .. MaxCleanups]
    BY <1>4, ConstantsAssumption DEF CleanupCrash, TypeOK
  <2> QED
    BY <1>0, <1>4, <1>S, <2>1, TypesBack DEF TypeOK, TypeFacts, CleanupCrash, files, history
<1>5. ASSUME NEW i \in Id, Age(i)
      PROVE  TypeOK' /\ Shape' /\ cmd' = cmd
  BY <1>0, <1>5, <1>S, TypesBack DEF TypeOK, TypeFacts, Age, files, history
<1>6. ASSUME NEW l \in LockRecord \cup {None}, LockChanges(l)
      PROVE  TypeOK' /\ Shape' /\ cmd' = cmd
  BY <1>0, <1>6, <1>S, TypesBack DEF TypeOK, TypeFacts, LockChanges, files
<1> QED
  BY <1>1, <1>2, <1>3, <1>4, <1>5, <1>6 DEF CleanupStep

-----------------------------------------------------------------------------
(* A step of an actor leaves the commands and files of the others alone,   *)
(* marks only sessions it holds itself, and holds no session it did not    *)
(* hold before, except one it starts.                                      *)
Local(a) ==
  /\ Others(a)
  /\ \A b \in Actor \ {a} : active'[b] = active[b] /\ suspended'[b] = suspended[b]
  /\ \A i \in Id : past[i] \subseteq past'[i]
  /\ \A i \in Id : past'[i] # past[i] => HeldBy(a, i)
  /\ torn \subseteq torn'

HoldsNoOther(a) ==
  \/ /\ calls'.started = calls.started
     /\ \A i \in Id : HeldBy(a, i)' => HeldBy(a, i)
  \/ /\ calls'.started = calls.started + 1
     /\ \A i \in Id : HeldBy(a, i)' => HeldBy(a, i) \/ i = calls.started + 1

CommandStep(a) ==
  StartStep(a) \/ FinishStep(a) \/ SuspendStep(a) \/ ResumeStep(a) \/ Crash(a)

(* A step that leaves the files alone is local to its actor.               *)
LEMMA SameLocal ==
  ASSUME FilesSame, NEW a \in Actor, Others(a)
  PROVE  Local(a)
BY DEF FilesSame, Local

(* Going on without writing a file gives the actor no other session.       *)
LEMMA GoesHolds ==
  ASSUME NEW a \in Actor, NEW step, Goes(a, step),
         calls'.started = calls.started,
         active'[a] = active[a] \/ active'[a] = None,
         suspended'[a] = suspended[a] \/ suspended'[a] = None
  PROVE  HoldsNoOther(a)
BY DEF HoldsNoOther, HeldBy, Reads, Goes, SameCmd

(* Ending without writing a file gives the actor no other session.         *)
LEMMA EndsHolds ==
  ASSUME NEW a \in Actor, Ends(a), calls'.started = calls.started,
         active'[a] = active[a] \/ active'[a] = None,
         suspended'[a] = suspended[a] \/ suspended'[a] = None
  PROVE  HoldsNoOther(a)
BY DEF HoldsNoOther, HeldBy, Reads, Ends

(* Beginning gives the actor no other session.                             *)
LEMMA BeginsHolds ==
  ASSUME NEW a \in Actor, NEW steps, NEW op, FilesSame,
         Begins(a, steps, op, active) \/ Begins(a, steps, op, suspended)
  PROVE  HoldsNoOther(a)
BY DEF HoldsNoOther, HeldBy, Reads, Begins, FilesSame

(* Every step of a command is local to its actor and gives it no other's   *)
(* session.                                                                *)
LEMMA LocalStep ==
  ASSUME TypeOK, Shape, NEW a \in Actor, CommandStep(a)
  PROVE  Local(a) /\ HoldsNoOther(a)
<1>0. TypeFacts /\ CmdOK(a)
  BY TypeOKFacts DEF Shape
<1>1. ASSUME NEW t \in Ticket, NEW conc \in BOOLEAN, NEW acquire \in BOOLEAN,
             StartLoad(a, t, conc, acquire)
      PROVE  Local(a) /\ HoldsNoOther(a)
  <2>1. suspended' = suspended /\ torn' = torn /\ calls' = calls
    BY <1>1 DEF StartLoad
  <2>2. Local(a)
    BY <1>1, <2>1, StartLoadDoes DEF Local, Holds, HeldBy
  <2>3. \A i \in Id : HeldBy(a, i)' => HeldBy(a, i)
    BY <1>1, <2>1, StartLoadDoes DEF HeldBy, Reads
  <2> QED
    BY <2>1, <2>2, <2>3 DEF HoldsNoOther
<1>2. CASE StartConcurrent(a)
  BY <1>2, StartConcurrentDoes, GoesHolds, SameLocal DEF Goes, FilesSame
<1>3. CASE StartLocked(a)
  BY <1>3, StartLockedDoes, GoesHolds, SameLocal DEF Goes, FilesSame
<1>4. CASE StartRefused(a)
  BY <1>4, StartRefusedDoes, EndsHolds, SameLocal DEF Ends, FilesSame
<1>5. CASE StartConsume(a)
  BY <1>5, StartConsumeDoes, GoesHolds, SameLocal DEF Goes, FilesSame
<1>6. CASE StartWrite(a)
  <2>1. suspended' = suspended /\ torn' = torn /\ past' = past /\ Ends(a)
    BY <1>6, ReturnEnds DEF StartWrite, history
  <2>2. Local(a)
    BY <1>6, <2>1, StartWriteDoes DEF Local, Ends
  <2>3. \A i \in Id : HeldBy(a, i)' => HeldBy(a, i) \/ i = calls.started + 1
    BY <1>6, <2>1, StartWriteDoes DEF HeldBy, Reads, Ends
  <2> QED
    BY <1>6, <2>2, <2>3, StartWriteDoes DEF HoldsNoOther
<1>7. ASSUME NEW set \in Outcome, NEW release \in BOOLEAN, FinishStatus(a, set, release)
      PROVE  Local(a) /\ HoldsNoOther(a)
  BY <1>7, FinishStatusDoes, BeginsHolds, SameLocal DEF Begins
<1>8. ASSUME NEW release \in BOOLEAN, HandoffBegin(a, release)
      PROVE  Local(a) /\ HoldsNoOther(a)
  BY <1>8, HandoffBeginDoes, BeginsHolds, SameLocal DEF Begins
<1>9. CASE FinishMemento(a)
  <2>1. HeldBy(a, cmd[a].session.id)
    BY <1>0, <1>9, FinishMementoDoes DEF HeldBy, Reads, Goes
  <2>2. Local(a)
    BY <1>0, <1>9, <2>1, FinishMementoDoes DEF Local, Goes
  <2> QED
    BY <1>0, <1>9, <2>2, FinishMementoDoes, GoesHolds
<1>10. CASE ActiveUnlink(a)
  <2>1. Local(a)
    BY <1>10, ActiveUnlinkDoes DEF Local, Goes, Ends
  <2> QED
    BY <1>10, <2>1, ActiveUnlinkDoes, GoesHolds, EndsHolds
<1>11. CASE HandoffRecord(a)
  BY <1>0, <1>11, HandoffRecordDoes, GoesHolds, EndsHolds, SameLocal
     DEF Goes, Ends, FilesSame
<1>12. CASE HandoffUnlock(a)
  BY <1>12, HandoffUnlockDoes, EndsHolds, SameLocal DEF Ends, FilesSame
<1>13. ASSUME NEW release \in BOOLEAN, SuspendPause(a, release)
       PROVE  Local(a) /\ HoldsNoOther(a)
  BY <1>13, SuspendPauseDoes, BeginsHolds, SameLocal DEF Begins
<1>14. CASE CommandRelease(a)
  BY <1>14, CommandReleaseDoes, GoesHolds, SameLocal DEF Goes, FilesSame
<1>15. CASE SuspendPark(a)
  <2>1. Reads(a) /\ Reads(a)' /\ cmd'[a].session = cmd[a].session
    BY <1>0, <1>15, SuspendParkGoes DEF Reads, Goes, SameCmd, CmdOK, StepsOf
  <2>2. Local(a)
    BY <1>0, <1>15, SuspendParkGoes, SuspendParkDoes DEF Local, Goes, Holds, HeldBy
  <2>3. \A i \in Id : HeldBy(a, i)' => HeldBy(a, i)
    BY <1>0, <1>15, <2>1, SuspendParkGoes, SuspendParkDoes DEF HeldBy
  <2> QED
    BY <1>15, <2>2, <2>3, SuspendParkGoes DEF HoldsNoOther
<1>16. ASSUME NEW acquire \in BOOLEAN, ResumeLock(a, acquire)
       PROVE  Local(a) /\ HoldsNoOther(a)
  BY <1>16, ResumeLockDoes, BeginsHolds, SameLocal DEF Begins
<1>17. CASE ResumeReopen(a)
  BY <1>17, ResumeReopenDoes, GoesHolds, SameLocal DEF Goes, FilesSame
<1>18. CASE ResumeRevive(a)
  <2>1. Reads(a) /\ Reads(a)' /\ cmd'[a].session = cmd[a].session
    BY <1>0, <1>18, ResumeReviveGoes DEF Reads, Goes, SameCmd, CmdOK, StepsOf
  <2>2. Local(a)
    BY <1>0, <1>18, ResumeReviveGoes, ResumeReviveDoes DEF Local, Goes
  <2>3. \A i \in Id : HeldBy(a, i)' => HeldBy(a, i)
    BY <1>0, <1>18, <2>1, ResumeReviveGoes, ResumeReviveDoes DEF HeldBy
  <2> QED
    BY <1>18, <2>2, <2>3, ResumeReviveGoes DEF HoldsNoOther
<1>19. CASE ResumeDiscard(a)
  <2>1. Local(a)
    BY <1>19, ResumeDiscardDoes DEF Local, Ends
  <2> QED
    BY <1>19, <2>1, ResumeDiscardDoes, EndsHolds
<1>20. CASE Crash(a)
  <2>1. Local(a)
    BY <1>0, <1>20, CrashDoes DEF Local, Ends
  <2> QED
    BY <1>0, <1>20, <2>1, CrashDoes, EndsHolds
<1> QED
  BY <1>1, <1>2, <1>3, <1>4, <1>5, <1>6, <1>7, <1>8, <1>9, <1>10, <1>11, <1>12,
     <1>13, <1>14, <1>15, <1>16, <1>17, <1>18, <1>19, <1>20
     DEF CommandStep, StartStep, FinishStep, SuspendStep, ResumeStep

(* A local step keeps every session with one actor.                        *)
LEMMA IdsKept ==
  ASSUME TypeOK, TypeOK', IdsOK, NEW a \in Actor, Local(a), HoldsNoOther(a)
  PROVE  IdsOK'
<1>1. \A b \in Actor \ {a}, i \in Id : HeldBy(b, i)' => HeldBy(b, i)
  BY DEF Local, Others, HeldBy, Reads
<1>2. \A b \in Actor, i \in Id : HeldBy(b, i) => i <= calls.started
  BY DEF IdsOK
<1>3. \A b \in Actor, i \in Id : HeldBy(b, i) /\ HeldBy(a, i) => b = a
  BY DEF IdsOK
<1>4. PICK n \in Nat, m \in Nat : n = calls.started /\ m = calls'.started
  BY DEF TypeOK
<1>5. n <= m
  BY <1>4 DEF HoldsNoOther
<1>6. \A b \in Actor, i \in Id : HeldBy(b, i)' => i <= m
  BY <1>1, <1>2, <1>4, <1>5 DEF HoldsNoOther, Id
<1>7. ASSUME NEW b \in Actor, NEW c \in Actor, NEW i \in Id,
             HeldBy(b, i)', HeldBy(c, i)'
      PROVE  b = c
  <2>1. CASE b # a /\ c # a
    BY <1>1, <1>7, <2>1 DEF IdsOK
  <2>2. CASE b = a /\ c # a
    <3>1. HeldBy(c, i) /\ i <= n
      BY <1>1, <1>2, <1>4, <1>7, <2>2
    <3>2. HeldBy(a, i)
      BY <1>4, <1>7, <2>2, <3>1 DEF HoldsNoOther, Id
    <3> QED
      BY <3>1, <3>2, <1>3, <2>2
  <2>3. CASE c = a /\ b # a
    <3>1. HeldBy(b, i) /\ i <= n
      BY <1>1, <1>2, <1>4, <1>7, <2>3
    <3>2. HeldBy(a, i)
      BY <1>4, <1>7, <2>3, <3>1 DEF HoldsNoOther, Id
    <3> QED
      BY <3>1, <3>2, <1>3, <2>3
  <2> QED
    BY <2>1, <2>2, <2>3
<1>8. ASSUME NEW i \in Id, i > m
      PROVE  past'[i] = {}
  <2>1. i > n /\ ~HeldBy(a, i)
    BY <1>2, <1>4, <1>5, <1>8 DEF Id
  <2>2. past'[i] = past[i]
    BY <2>1 DEF Local
  <2> QED
    BY <1>4, <2>1, <2>2 DEF IdsOK
<1> QED
  BY <1>4, <1>6, <1>7, <1>8 DEF IdsOK

-----------------------------------------------------------------------------
(* What holds of an actor's own files is not disturbed from outside: by    *)
(* the steps of the others, nor by a cleanup that removes a file and marks *)
(* the session that was in it.                                             *)
Undisturbed(b) ==
  /\ cmd'[b] = cmd[b]
  /\ active'[b] = active[b] \/ active'[b] = None
  /\ suspended'[b] = suspended[b] \/ suspended'[b] = None
  /\ torn \subseteq torn'
  /\ \A i \in Id :
       /\ past[i] \subseteq past'[i]
       /\ HeldBy(b, i) /\ "finished" \in past'[i] => "finished" \in past[i]
       /\ active'[b] # active[b] /\ Holds(active, b, i) => past'[i] # {}
       /\ suspended'[b] # suspended[b] /\ Holds(suspended, b, i) => past'[i] # {}

(* What is known of an actor's files stays, if they and its command do.    *)
LEMMA UndisturbedOwn ==
  ASSUME NEW b \in Actor, CmdOK(b), OwnOK(b), Undisturbed(b)
  PROVE  OwnOK(b)'
<1>1. /\ cmd'[b] = cmd[b]
      /\ \A i : Holds(active, b, i)' => Holds(active, b, i)
      /\ \A i : Holds(suspended, b, i)' => Holds(suspended, b, i)
  BY DEF Undisturbed, Holds
<1>2. FilesOK(b)'
  <2> SUFFICES ASSUME cmd[b] # None PROVE FilesOK(b)'
    BY <1>1 DEF FilesOK
  <2>0. /\ cmd[b].at \in {"discard", "unlink", "release", "memento", "park"} => cmd[b].session.id \in Id
        /\ cmd[b].op = "resume" => cmd[b].session.id \in Id
    BY DEF CmdOK, StepsOf
  <2>1. /\ Empty(active, b) => Empty(active, b)'
        /\ Empty(suspended, b) => Empty(suspended, b)'
        /\ Empty(active, b) \/ Holds(active, b, cmd[b].session.id) =>
             Empty(active, b)' \/ Holds(active', b, cmd[b].session.id)
        /\ Empty(suspended, b) \/ Holds(suspended, b, cmd[b].session.id) =>
             Empty(suspended, b)' \/ Holds(suspended', b, cmd[b].session.id)
    BY DEF Undisturbed, Empty, Holds
  <2>2. \A i \in Id :
          /\ Holds(active, b, i) \/ past[i] # {} => Holds(active', b, i) \/ past'[i] # {}
          /\ Holds(suspended, b, i) \/ past[i] # {} => Holds(suspended', b, i) \/ past'[i] # {}
          /\ "finished" \in past[i] => "finished" \in past'[i]
    BY DEF Undisturbed, Holds
  <2> QED
    BY <1>1, <2>0, <2>1, <2>2 DEF OwnOK, FilesOK
<1>3. FinishOK(b)'
  <2>1. \A i \in Id \ torn' :
          Holds(active', b, i) /\ Holds(suspended', b, i) => Moving(b)'
    BY <1>1 DEF OwnOK, FinishOK, Undisturbed, Moving, At
  <2>2. ASSUME Reads(b)', cmd'[b].session.id \notin torn'
        PROVE  LET i == cmd'[b].session.id
               IN  /\ /\ cmd'[b].op \in {"finish", "handoff"}
                      /\ cmd'[b].at \in {"release", "memento", "unlink"}
                      => ~Holds(suspended', b, i)
                   /\ cmd'[b].op \in {"suspend", "resume"} => "finished" \notin past'[i]
    <3>1. Reads(b) /\ cmd[b].session.id \in Id \ torn /\ HeldBy(b, cmd[b].session.id)
      BY <1>1, <2>2 DEF Reads, CmdOK, Undisturbed, HeldBy
    <3> QED
      BY <1>1, <3>1 DEF OwnOK, FinishOK, Undisturbed
  <2> QED
    BY <2>1, <2>2 DEF FinishOK
<1>4. FinishedFor(b)'
  <2> SUFFICES ASSUME NEW i \in Id \ torn', "finished" \in past'[i]
               PROVE  ~Holds(suspended', b, i) /\ (Holds(active', b, i) => At(b, "unlink")')
    BY DEF FinishedFor
  <2>1. i \in Id \ torn
    BY DEF Undisturbed
  <2>2. CASE "finished" \in past[i]
    BY <1>1, <2>1, <2>2 DEF OwnOK, FinishedFor, At
  <2>3. CASE "finished" \notin past[i]
    BY <1>1, <2>1, <2>3 DEF Undisturbed, HeldBy, Holds
  <2> QED
    BY <2>2, <2>3
<1> QED
  BY <1>2, <1>3, <1>4 DEF OwnOK

(* Another actor's step keeps what is known of one's own files.            *)
LEMMA LocalOwn ==
  ASSUME TypeOK, Shape, IdsOK, NEW a \in Actor, Local(a),
         NEW b \in Actor \ {a}, OwnOK(b)
  PROVE  OwnOK(b)'
<1>1. \A i \in Id : HeldBy(b, i) => past'[i] = past[i]
  BY DEF IdsOK, Local
<1>2. Undisturbed(b)
  BY <1>1 DEF Undisturbed, Local, Others
<1> QED
  BY <1>2, UndisturbedOwn DEF Shape

(* No session is lost from an actor's files unless its fate is recorded.   *)
InFiles(a, i) == Holds(active, a, i) \/ Holds(suspended, a, i)

LosesNone(a) == \A i \in Id : InFiles(a, i) => InFiles(a, i)' \/ past'[i] # {}

(* Going on with the files unchanged keeps what is known of them.          *)
LEMMA SameGoes ==
  ASSUME TypeOK, Shape, NEW a \in Actor, NEW step, Goes(a, step), FilesSame,
         OwnOK(a), cmd[a].at \notin {"unlink", "discard"},
         step \notin {"reopen", "unlink", "discard"},
         step = "revive" => cmd[a].at = "reopen",
         step \in {"release", "memento", "park"} => cmd[a].at = "release"
  PROVE  OwnOK(a)' /\ LosesNone(a)
<1>1. /\ cmd[a] # None /\ cmd'[a] # None /\ cmd'[a].at = step
      /\ cmd'[a].session = cmd[a].session /\ cmd'[a].op = cmd[a].op
      /\ active' = active /\ suspended' = suspended /\ past' = past /\ torn' = torn
  BY DEF Goes, SameCmd, FilesSame
<1>2. FilesOK(a)'
  BY <1>1 DEF OwnOK, FilesOK, Empty, Holds
<1>3. FinishOK(a)'
  <2>1. Reads(a)' => Reads(a)
    BY <1>1 DEF Reads
  <2>2. ~Moving(a)
    BY <1>1 DEF Moving, At
  <2>3. cmd[a].op \in {"finish", "handoff"} /\ step \in {"release", "memento", "unlink"}
          => cmd[a].at \in {"release", "memento", "unlink"}
    BY <1>1
  <2> QED
    BY <1>1, <2>1, <2>2, <2>3 DEF OwnOK, FinishOK, Holds
<1>4. FinishedFor(a)'
  <2>1. ~At(a, "unlink")
    BY <1>1 DEF At
  <2> QED
    BY <1>1, <2>1 DEF OwnOK, FinishedFor, Holds
<1> QED
  BY <1>1, <1>2, <1>3, <1>4 DEF OwnOK, LosesNone, InFiles, Holds

(* Ending with the files unchanged keeps what is known of them.            *)
LEMMA SameEnds ==
  ASSUME TypeOK, Shape, NEW a \in Actor, Ends(a), FilesSame,
         OwnOK(a), cmd[a] # None, cmd[a].at \notin {"unlink", "discard"}
  PROVE  OwnOK(a)' /\ LosesNone(a)
<1>1. /\ cmd'[a] = None /\ ~At(a, "unlink") /\ ~Moving(a)
      /\ active' = active /\ suspended' = suspended /\ past' = past /\ torn' = torn
  BY DEF Ends, FilesSame, At, Moving
<1> QED
  BY <1>1 DEF OwnOK, FilesOK, FinishOK, FinishedFor, Reads, LosesNone, InFiles, Holds

(* A command that reads the active file knows what it read.                *)
LEMMA ActiveBegins ==
  ASSUME TypeOK, Shape, NEW a \in Actor, OwnOK(a), FilesSame, NEW steps, NEW op,
         Begins(a, steps, op, active),
         steps \subseteq {"release", "memento", "park"},
         op \in {"finish", "handoff", "suspend"}
  PROVE  OwnOK(a)' /\ LosesNone(a)
<1>1. /\ cmd[a] = None /\ cmd'[a] # None /\ cmd'[a].op = op
      /\ cmd'[a].session = active[a] /\ active[a] # None
      /\ cmd'[a].at \in {"release", "memento", "park"}
      /\ active' = active /\ suspended' = suspended /\ past' = past /\ torn' = torn
      /\ Holds(active, a, active[a].id) /\ active[a].id \in Id
  BY DEF Begins, FilesSame, Holds
<1>2. /\ ~At(a, "unlink") /\ ~Moving(a)
  BY <1>1 DEF At, Moving
<1>3. FilesOK(a)'
  BY <1>1 DEF FilesOK, Holds
<1>4. FinishOK(a)'
  <2>1. active[a].id \notin torn =>
          ~Holds(suspended, a, active[a].id) /\ "finished" \notin past[active[a].id]
    BY <1>1, <1>2 DEF OwnOK, FinishOK, FinishedFor
  <2> QED
    BY <1>1, <1>2, <2>1 DEF OwnOK, FinishOK, Holds
<1>5. FinishedFor(a)'
  BY <1>1, <1>2 DEF OwnOK, FinishedFor, Holds
<1> QED
  BY <1>1, <1>3, <1>4, <1>5 DEF OwnOK, LosesNone, InFiles, Holds

(* An actor's own step keeps what is known of its files and loses no       *)
(* session.                                                                *)
LEMMA OwnFiles ==
  ASSUME TypeOK, Shape, IdsOK, NEW a \in Actor, OwnOK(a), CommandStep(a)
  PROVE  OwnOK(a)' /\ LosesNone(a)
<1>0. TypeFacts /\ CmdOK(a)
  BY TypeOKFacts DEF Shape
<1>T. cmd[a] # None => cmd[a].at \in StepsOf(cmd[a].op) /\ cmd[a].op \in Op
  BY <1>0, CommandFacts DEF TypeFacts, CmdOK
<1>1. ASSUME NEW t \in Ticket, NEW conc \in BOOLEAN, NEW acquire \in BOOLEAN,
             StartLoad(a, t, conc, acquire)
      PROVE  OwnOK(a)' /\ LosesNone(a)
  <2>0. suspended' = suspended /\ torn' = torn
    BY <1>1 DEF StartLoad
  <2>1. /\ cmd'[a] # None /\ cmd'[a].at = "gate" /\ cmd'[a].op = "start"
        /\ suspended' = suspended /\ torn' = torn /\ active'[a] = None
        /\ \A i \in Id : "finished" \in past'[i] => "finished" \in past[i]
        /\ \A i \in Id : Holds(active, a, i) => past'[i] # {}
    BY <1>1, <2>0, StartLoadDoes
  <2>2. FilesOK(a)'
    BY <2>1 DEF FilesOK, Empty
  <2>3. FinishOK(a)'
    BY <2>1 DEF FinishOK, Reads, Holds
  <2>4. FinishedFor(a)'
    BY <2>1 DEF OwnOK, FinishedFor, Holds
  <2> QED
    BY <2>1, <2>2, <2>3, <2>4 DEF OwnOK, LosesNone, InFiles, Holds
<1>2. CASE StartConcurrent(a)
  BY <1>2, StartConcurrentDoes, SameGoes
<1>3. CASE StartLocked(a)
  BY <1>3, StartLockedDoes, SameGoes
<1>4. CASE StartRefused(a)
  BY <1>4, StartRefusedDoes, SameEnds DEF StartRefused, At
<1>5. CASE StartConsume(a)
  BY <1>5, StartConsumeDoes, SameGoes
<1>6. CASE StartWrite(a)
  <2>1. /\ cmd[a] # None /\ cmd[a].op = "start" /\ cmd'[a] = None
        /\ suspended' = suspended /\ torn' = torn /\ past' = past
        /\ active'[a] # None /\ active'[a].id = calls.started + 1
        /\ calls.started + 1 \in Id
    BY <1>6, <1>T, ReturnEnds, StartWriteDoes
       DEF StartWrite, history, At, Ends, StepsOf, Op
  <2>2. PICK n \in Id : n = calls.started + 1 /\ n > calls.started
    BY <2>1 DEF TypeOK, Id
  <2>3. past[n] = {} /\ ~Holds(suspended, a, n) /\ active[a] = None
    <3>1. ~HeldBy(a, n)
      BY <2>2 DEF IdsOK, TypeOK, Id
    <3> QED
      BY <2>1, <2>2, <3>1 DEF IdsOK, HeldBy, Holds, OwnOK, FilesOK, Empty
  <2>4. \A i : Holds(active', a, i) => i = n
    BY <2>1, <2>2 DEF Holds
  <2>5. FilesOK(a)'
    BY <2>1 DEF FilesOK
  <2>6. FinishOK(a)'
    BY <2>1, <2>3, <2>4 DEF FinishOK, Reads, Holds
  <2>7. FinishedFor(a)'
    BY <2>1, <2>3, <2>4 DEF OwnOK, FinishedFor, Holds
  <2> QED
    BY <2>1, <2>3, <2>5, <2>6, <2>7 DEF OwnOK, LosesNone, InFiles, Holds
<1>7. ASSUME NEW set \in Outcome, NEW release \in BOOLEAN, FinishStatus(a, set, release)
      PROVE  OwnOK(a)' /\ LosesNone(a)
  BY <1>7, FinishStatusDoes, ActiveBegins
<1>8. ASSUME NEW release \in BOOLEAN, HandoffBegin(a, release)
      PROVE  OwnOK(a)' /\ LosesNone(a)
  BY <1>8, HandoffBeginDoes, ActiveBegins
<1>9. CASE FinishMemento(a)
  <2>1. PICK i \in Id : i = cmd[a].session.id
    BY <1>0, <1>9, FinishMementoDoes
  <2>2. /\ cmd[a] # None /\ cmd'[a] # None /\ cmd[a].at = "memento" /\ cmd'[a].at = "unlink"
        /\ cmd'[a].session.id = i /\ cmd'[a].op = cmd[a].op
        /\ cmd[a].op \in {"finish", "handoff"}
        /\ past'[i] = past[i] \cup {"finished"}
        /\ \A j \in Id \ {i} : past'[j] = past[j]
        /\ active' = active /\ suspended' = suspended /\ torn' = torn
    BY <1>0, <1>9, <2>1, FinishMementoDoes DEF Goes, SameCmd
  <2>3. FilesOK(a)'
    BY <2>1, <2>2 DEF OwnOK, FilesOK, Empty, Holds
  <2>4. ~Moving(a) /\ ~At(a, "unlink") /\ At(a, "unlink")' /\ Reads(a)
    BY <2>2 DEF Moving, At, Reads
  <2>5. FinishOK(a)'
    BY <2>1, <2>2, <2>4 DEF OwnOK, FinishOK, Holds
  <2>6. i \notin torn => ~Holds(suspended, a, i)
    BY <2>1, <2>2, <2>4 DEF OwnOK, FinishOK
  <2>7. FinishedFor(a)'
    <3> SUFFICES ASSUME NEW j \in Id \ torn, "finished" \in past'[j]
                 PROVE  ~Holds(suspended', a, j) /\ (Holds(active', a, j) => At(a, "unlink")')
      BY <2>2 DEF FinishedFor
    <3>1. CASE j = i
      BY <2>2, <2>4, <2>6, <3>1
    <3>2. CASE j # i
      BY <2>2, <2>4, <3>2 DEF OwnOK, FinishedFor
    <3> QED
      BY <3>1, <3>2
  <2> QED
    BY <2>2, <2>3, <2>5, <2>7 DEF OwnOK, LosesNone, InFiles, Holds
<1>10. CASE ActiveUnlink(a)
  <2>1. /\ cmd[a] # None /\ cmd[a].at = "unlink" /\ cmd[a].session.id \in Id
        /\ active'[a] = None /\ suspended' = suspended /\ torn' = torn /\ past' = past
        /\ Goes(a, "record") \/ Ends(a)
    BY <1>0, <1>10, ActiveUnlinkDoes DEF CmdOK, StepsOf
  <2>2. FilesOK(a)'
    BY <2>1, <1>T DEF FilesOK, Goes, Ends, SameCmd, Empty, StepsOf, Op, OwnOK
  <2>3. FinishOK(a)'
    <3>1. Reads(a)' => /\ Reads(a) /\ cmd'[a].at = "record"
                       /\ cmd'[a].session = cmd[a].session /\ cmd'[a].op = cmd[a].op
      BY <2>1 DEF Goes, Ends, SameCmd, Reads
    <3> QED
      BY <2>1, <3>1 DEF OwnOK, FinishOK, Holds
  <2>4. FinishedFor(a)'
    BY <2>1 DEF OwnOK, FinishedFor, Holds
  <2>5. LosesNone(a)
    BY <2>1 DEF LosesNone, InFiles, OwnOK, FilesOK, Empty, Holds
  <2> QED
    BY <2>2, <2>3, <2>4, <2>5 DEF OwnOK
<1>11. CASE HandoffRecord(a)
  <2>1. cmd[a] # None /\ cmd[a].at = "record" /\ FilesSame
    BY <1>0, <1>11, HandoffRecordDoes DEF HandoffRecord, At
  <2>2. CASE Goes(a, "unlock")
    BY <2>1, <2>2, SameGoes
  <2>3. CASE Ends(a)
    BY <2>1, <2>3, SameEnds
  <2> QED
    BY <1>0, <1>11, <2>2, <2>3, HandoffRecordDoes
<1>12. CASE HandoffUnlock(a)
  BY <1>12, HandoffUnlockDoes, SameEnds DEF HandoffUnlock, At
<1>13. ASSUME NEW release \in BOOLEAN, SuspendPause(a, release)
       PROVE  OwnOK(a)' /\ LosesNone(a)
  BY <1>13, SuspendPauseDoes, ActiveBegins
<1>14. CASE CommandRelease(a)
  <2>1. cmd[a].at = "release" /\ FilesSame
    BY <1>14, CommandReleaseDoes
  <2>2. PICK step \in {"memento", "park"} : Goes(a, step)
    BY <1>14, CommandReleaseDoes
  <2> QED
    BY <2>1, <2>2, SameGoes
<1>15. CASE SuspendPark(a)
  <2>1. PICK i \in Id : i = cmd[a].session.id
    BY <1>0, <1>15, SuspendParkGoes DEF CmdOK, StepsOf, Goes
  <2>2. /\ cmd[a] # None /\ cmd'[a] # None /\ cmd[a].at = "park" /\ cmd'[a].at = "unlink"
        /\ cmd'[a].session.id = i /\ cmd'[a].op = cmd[a].op /\ cmd[a].op = "suspend"
        /\ active' = active /\ torn' = torn
        /\ Holds(suspended', a, i)
        /\ \A j \in Id : /\ past[j] \subseteq past'[j]
                         /\ "finished" \in past'[j] => "finished" \in past[j]
                         /\ Holds(suspended, a, j) /\ j # i => past'[j] # {}
    BY <1>0, <1>15, <1>T, <2>1, SuspendParkGoes, SuspendParkDoes
       DEF Goes, SameCmd, StepsOf, Op, Holds
  <2>3. FilesOK(a)'
    <3>1. Empty(active, a) \/ Holds(active, a, i)
      BY <2>1, <2>2 DEF OwnOK, FilesOK
    <3> QED
      BY <2>2, <3>1 DEF FilesOK, Empty, Holds
  <2>4. Moving(a)' /\ At(a, "unlink")' /\ Reads(a) /\ ~At(a, "unlink")
    BY <2>2 DEF Moving, At, Reads
  <2>5. FinishOK(a)'
    BY <2>1, <2>2, <2>4 DEF OwnOK, FinishOK
  <2>6. i \notin torn => "finished" \notin past[i]
    BY <2>1, <2>2, <2>4 DEF OwnOK, FinishOK
  <2>7. FinishedFor(a)'
    BY <2>2, <2>4, <2>6 DEF OwnOK, FinishedFor, Holds
  <2>8. LosesNone(a)
    BY <2>2 DEF LosesNone, InFiles, Holds
  <2> QED
    BY <2>3, <2>5, <2>7, <2>8 DEF OwnOK
<1>16. ASSUME NEW acquire \in BOOLEAN, ResumeLock(a, acquire)
       PROVE  OwnOK(a)' /\ LosesNone(a)
  <2>1. /\ cmd[a] = None /\ cmd'[a] # None /\ cmd'[a].op = "resume"
        /\ cmd'[a].session = suspended[a] /\ suspended[a] # None
        /\ cmd'[a].at = "reopen" /\ active[a] = None
        /\ active' = active /\ suspended' = suspended /\ past' = past /\ torn' = torn
        /\ Holds(suspended, a, suspended[a].id) /\ suspended[a].id \in Id
    BY <1>16, ResumeLockDoes DEF Begins, FilesSame, Holds
  <2>2. ~At(a, "unlink")
    BY <2>1 DEF At
  <2>3. FilesOK(a)'
    BY <2>1 DEF FilesOK, Holds, Empty
  <2>4. FinishOK(a)'
    <3>1. suspended[a].id \notin torn => "finished" \notin past[suspended[a].id]
      BY <2>1 DEF OwnOK, FinishedFor
    <3> QED
      BY <2>1, <3>1 DEF FinishOK, Holds
  <2>5. FinishedFor(a)'
    BY <2>1, <2>2 DEF OwnOK, FinishedFor, Holds
  <2> QED
    BY <2>1, <2>3, <2>4, <2>5 DEF OwnOK, LosesNone, InFiles, Holds
<1>17. CASE ResumeReopen(a)
  BY <1>17, ResumeReopenDoes, SameGoes
<1>18. CASE ResumeRevive(a)
  <2>1. PICK i \in Id : i = cmd[a].session.id
    BY <1>0, <1>18, ResumeReviveGoes DEF CmdOK, StepsOf, Goes
  <2>2. /\ cmd[a] # None /\ cmd'[a] # None /\ cmd[a].at = "revive" /\ cmd'[a].at = "discard"
        /\ cmd'[a].session.id = i /\ cmd'[a].op = cmd[a].op /\ cmd[a].op = "resume"
        /\ suspended' = suspended /\ torn' = torn /\ past' = past
        /\ Holds(active', a, i) /\ active[a] = None
    BY <1>0, <1>18, <1>T, <2>1, ResumeReviveGoes, ResumeReviveDoes
       DEF Goes, SameCmd, StepsOf, Op, Holds, OwnOK, FilesOK, Empty
  <2>3. FilesOK(a)'
    BY <2>2, <2>1 DEF OwnOK, FilesOK, Empty, Holds
  <2>4. Moving(a)' /\ Reads(a)
    BY <2>2 DEF Moving, At, Reads
  <2>5. FinishOK(a)'
    BY <2>1, <2>2, <2>4 DEF OwnOK, FinishOK
  <2>6. i \notin torn => "finished" \notin past[i]
    BY <2>1, <2>2, <2>4 DEF OwnOK, FinishOK
  <2>7. FinishedFor(a)'
    BY <2>2, <2>6 DEF OwnOK, FinishedFor, Holds
  <2> QED
    BY <2>2, <2>3, <2>5, <2>7 DEF OwnOK, LosesNone, InFiles, Holds
<1>19. CASE ResumeDiscard(a)
  <2>1. /\ cmd[a] # None /\ cmd[a].at = "discard" /\ cmd'[a] = None /\ cmd[a].op = "resume"
        /\ suspended'[a] = None /\ active' = active /\ torn' = torn /\ past' = past
        /\ cmd[a].session.id \in Id
    BY <1>0, <1>19, <1>T, ResumeDiscardDoes DEF Ends, CmdOK, StepsOf, Op
  <2>2. ~At(a, "unlink")
    BY <2>1 DEF At
  <2>3. LosesNone(a)
    BY <2>1 DEF LosesNone, InFiles, OwnOK, FilesOK, Empty, Holds
  <2> QED
    BY <2>1, <2>2, <2>3 DEF OwnOK, FilesOK, FinishOK, FinishedFor, Reads, Holds
<1>20. CASE Crash(a)
  <2>1. /\ cmd[a] # None /\ cmd'[a] = None
        /\ active' = active /\ suspended' = suspended /\ past' = past
        /\ torn \subseteq torn'
        /\ cmd[a].at \in {"discard", "unlink"} =>
             cmd[a].session.id \in torn' /\ cmd[a].session.id \in Id
    BY <1>0, <1>20, CrashDoes DEF Ends, CmdOK, StepsOf
  <2>2. \A i \in Id \ torn' : ~(Holds(active, a, i) /\ Holds(suspended, a, i))
    <3> SUFFICES ASSUME NEW i \in Id \ torn', Holds(active, a, i), Holds(suspended, a, i)
                 PROVE  FALSE
      OBVIOUS
    <3>1. Moving(a)
      BY <2>1 DEF OwnOK, FinishOK
    <3>2. i = cmd[a].session.id
      BY <1>T, <2>1, <3>1 DEF Moving, At, OwnOK, FilesOK, Empty, Holds, StepsOf, Op
    <3> QED
      BY <2>1, <3>1, <3>2 DEF Moving, At
  <2>3. FinishedFor(a)'
    <3>1. \A i \in Id \ torn' : "finished" \in past[i] =>
            ~Holds(suspended, a, i) /\ ~Holds(active, a, i)
      BY <2>1 DEF OwnOK, FinishedFor, FilesOK, Empty, Holds, At
    <3> QED
      BY <2>1, <3>1 DEF FinishedFor
  <2> QED
    BY <2>1, <2>2, <2>3 DEF OwnOK, FilesOK, FinishOK, Reads, LosesNone, InFiles, Holds
<1> QED
  BY <1>1, <1>2, <1>3, <1>4, <1>5, <1>6, <1>7, <1>8, <1>9, <1>10, <1>11, <1>12,
     <1>13, <1>14, <1>15, <1>16, <1>17, <1>18, <1>19, <1>20
     DEF CommandStep, StartStep, FinishStep, SuspendStep, ResumeStep

-----------------------------------------------------------------------------
(* Locks and scopes.  A tame step neither enters nor passes a gate, and    *)
(* writes no active file.                                                  *)
Tame(b) ==
  /\ active'[b] = active[b] \/ active'[b] = None
  /\ cmd'[b] # None =>
       \/ /\ cmd'[b].at \notin {"consume", "write", "reopen", "revive"}
          /\ cmd'[b].op # "start"
       \/ /\ cmd[b] # None /\ cmd'[b].session = cmd[b].session /\ cmd'[b].op = cmd[b].op
          /\ \/ cmd'[b].at = cmd[b].at
             \/ cmd[b].at = "consume" /\ cmd'[b].at = "write"
             \/ cmd[b].at = "reopen" /\ cmd'[b].at = "revive"

LockKeeps ==
  \/ lock' = lock /\ covered' = covered
  \/ covered' = {}

Gated(a) ==
  \/ \E t \in Ticket, conc, acquire \in BOOLEAN : StartLoad(a, t, conc, acquire)
  \/ StartConcurrent(a) \/ StartLocked(a) \/ StartWrite(a)
  \/ \E acquire \in BOOLEAN : ResumeLock(a, acquire)
  \/ ResumeRevive(a)

(* A step away from the gate takes no lock and starts nothing concurrent.  *)
LEMMA TameStep ==
  ASSUME TypeOK, Shape, NEW a \in Actor, CommandStep(a), ~Gated(a)
  PROVE  /\ \A b \in Actor : Tame(b)
         /\ LockKeeps /\ met' = met
<1>0. TypeFacts /\ CmdOK(a)
  BY TypeOKFacts DEF Shape
<1>T. cmd[a] # None => cmd[a].at \in StepsOf(cmd[a].op) /\ cmd[a].op \in Op
  BY <1>0, CommandFacts DEF TypeFacts, CmdOK
<1>L. \A b \in Actor \ {a} : Tame(b)
  BY LocalStep DEF Local, Others, Tame
<1>G. ASSUME NEW step, Goes(a, step), active'[a] = active[a] \/ active'[a] = None,
             cmd[a].op # "start",
             step = "revive" => cmd[a].at = "reopen",
             step \notin {"consume", "write", "reopen"}
      PROVE  Tame(a)
  BY <1>G DEF Goes, SameCmd, Tame
<1>4. CASE StartRefused(a)
  BY <1>4, <1>L, StartRefusedDoes DEF Ends, Tame, FilesSame, LockKeeps
<1>5. CASE StartConsume(a)
  <2>1. Tame(a)
    BY <1>5, StartConsumeDoes DEF Goes, SameCmd, Tame, FilesSame
  <2> QED
    BY <1>5, <1>L, <2>1, StartConsumeDoes DEF FilesSame, LockKeeps
<1>7. ASSUME NEW set \in Outcome, NEW release \in BOOLEAN, FinishStatus(a, set, release)
      PROVE  Tame(a) /\ LockKeeps /\ met' = met
  BY <1>7, FinishStatusDoes DEF Begins, Tame, FilesSame, LockKeeps
<1>8. ASSUME NEW release \in BOOLEAN, HandoffBegin(a, release)
      PROVE  Tame(a) /\ LockKeeps /\ met' = met
  BY <1>8, HandoffBeginDoes DEF Begins, Tame, FilesSame, LockKeeps
<1>9. CASE FinishMemento(a)
  BY <1>0, <1>9, <1>L, <1>G, FinishMementoDoes DEF LockKeeps
<1>10. CASE ActiveUnlink(a)
  <2>1. Tame(a)
    BY <1>10, <1>G, ActiveUnlinkDoes DEF Ends, Tame
  <2> QED
    BY <1>10, <1>L, <2>1, ActiveUnlinkDoes DEF LockKeeps
<1>11. CASE HandoffRecord(a)
  <2>1. cmd[a].op # "start" /\ FilesSame
    BY <1>0, <1>11, <1>T, HandoffRecordDoes DEF HandoffRecord, At, StepsOf
  <2>2. Tame(a)
    BY <1>0, <1>11, <1>G, <2>1, HandoffRecordDoes DEF Ends, Tame, FilesSame
  <2> QED
    BY <1>0, <1>11, <1>L, <2>2, HandoffRecordDoes DEF FilesSame, LockKeeps
<1>12. CASE HandoffUnlock(a)
  <2>1. Ends(a) /\ FilesSame
    BY <1>12, HandoffUnlockDoes
  <2>2. LockKeeps
    BY <1>12 DEF HandoffUnlock, ReleaseLock, LockKeeps
  <2> QED
    BY <1>L, <2>1, <2>2 DEF Ends, Tame, FilesSame
<1>13. ASSUME NEW release \in BOOLEAN, SuspendPause(a, release)
       PROVE  Tame(a) /\ LockKeeps /\ met' = met
  BY <1>13, SuspendPauseDoes DEF Begins, Tame, FilesSame, LockKeeps
<1>14. CASE CommandRelease(a)
  <2>1. cmd[a] # None /\ cmd[a].at = "release" /\ FilesSame
    BY <1>14, CommandReleaseDoes DEF CommandRelease, At
  <2>2. PICK step \in {"memento", "park"} : Goes(a, step)
    BY <1>14, CommandReleaseDoes
  <2>3. Tame(a)
    BY <1>T, <1>G, <2>1, <2>2 DEF StepsOf, FilesSame
  <2>4. LockKeeps
    BY <1>14 DEF CommandRelease, ReleaseLock, LockKeeps
  <2> QED
    BY <1>L, <2>1, <2>3, <2>4 DEF FilesSame
<1>15. CASE SuspendPark(a)
  <2>1. cmd[a].op # "start"
    BY <1>15, <1>T, SuspendParkGoes DEF Goes, StepsOf
  <2> QED
    BY <1>15, <1>L, <1>G, <2>1, SuspendParkGoes DEF LockKeeps
<1>17. CASE ResumeReopen(a)
  <2>1. cmd[a].op # "start"
    BY <1>17, <1>T, ResumeReopenDoes DEF Goes, StepsOf
  <2> QED
    BY <1>17, <1>L, <1>G, <2>1, ResumeReopenDoes DEF FilesSame, LockKeeps
<1>19. CASE ResumeDiscard(a)
  BY <1>19, <1>L, ResumeDiscardDoes DEF Ends, Tame, LockKeeps
<1>20. CASE Crash(a)
  BY <1>0, <1>20, <1>L, CrashDoes DEF Ends, Tame, LockKeeps
<1> QED
  BY <1>4, <1>5, <1>7, <1>8, <1>9, <1>10, <1>11, <1>12,
     <1>13, <1>14, <1>15, <1>17, <1>19, <1>20, <1>L
     DEF CommandStep, StartStep, FinishStep, SuspendStep, ResumeStep, Gated

(* Such steps keep the lock and the scopes.                                *)
LEMMA TameKeeps ==
  ASSUME LockOK, ScopesOK, ScopesApart, \A b \in Actor : Tame(b), LockKeeps,
         met' = met, covered \subseteq Actor
  PROVE  LockOK' /\ ScopesOK' /\ ScopesApart'
<1>1. LockOK'
  <2>1. CASE lock' = lock /\ covered' = covered
    <3> SUFFICES ASSUME NEW a \in covered
                 PROVE  /\ lock' # None /\ Under(a, lock'.owner)
                        /\ active'[a] # None /\ ~active'[a].conc =>
                             active'[a].ticket = lock'.ticket
                        /\ cmd'[a] # None /\ ~cmd'[a].session.conc
                             /\ cmd'[a].at \in {"consume", "write"} =>
                             cmd'[a].session.ticket = lock'.ticket
                        /\ cmd'[a] # None /\ cmd'[a].at \in {"reopen", "revive"} =>
                             cmd'[a].session.ticket = lock'.ticket
      BY <2>1 DEF LockOK
    <3>1. Tame(a)
      OBVIOUS
    <3> QED
      BY <2>1, <3>1 DEF LockOK, Tame
  <2>2. CASE covered' = {}
    BY <2>2 DEF LockOK
  <2> QED
    BY <2>1, <2>2 DEF LockKeeps
<1>2. \A b \in Actor :
        /\ StartingConcurrent(b)' => StartingConcurrent(b)
        /\ StartingConcurrent(b)' /\ cmd'[b].at \in {"consume", "write"} =>
             /\ cmd[b].at \in {"consume", "write"}
             /\ cmd'[b].session.ticket = cmd[b].session.ticket
        /\ Concurrent(b)' => Concurrent(b) /\ active'[b].ticket = active[b].ticket
  BY DEF Tame, StartingConcurrent, Concurrent
<1>3. ScopesOK'
  BY <1>2 DEF ScopesOK, Apart
<1>4. ScopesApart'
  BY <1>2 DEF ScopesApart
<1> QED
  BY <1>1, <1>3, <1>4

(* The gated steps keep what the lock covers.                              *)
LEMMA LocksKept ==
  ASSUME TypeOK, Shape, NEW a \in Actor, OwnOK(a), Gated(a), CommandStep(a), LockOK
  PROVE  LockOK'
<1>0. TypeFacts /\ CmdOK(a)
  BY TypeOKFacts DEF Shape
<1>T. cmd[a] # None => cmd[a].at \in StepsOf(cmd[a].op) /\ cmd[a].op \in Op
  BY <1>0, CommandFacts DEF TypeFacts, CmdOK
<1>L. \A b \in Actor \ {a} : cmd'[b] = cmd[b] /\ active'[b] = active[b]
  BY LocalStep DEF Local, Others
<1>O. ASSUME lock' = lock, covered' = covered \ {a}
      PROVE  LockOK'
  BY <1>0, <1>L, <1>O DEF LockOK, TypeFacts
<1>N. ASSUME lock' \in LockRecord, lock' # None, Under(a, lock'.owner),
             covered' = covered \cup {a}, lock # None => lock' = lock,
             active'[a] = None,
             cmd'[a] # None /\ cmd'[a].session.ticket = lock'.ticket
      PROVE  LockOK'
  <2>1. covered # {} => lock' = lock
    BY <1>N DEF LockOK
  <2> QED
    BY <1>0, <1>L, <1>N, <2>1 DEF LockOK, TypeFacts
<1>1. ASSUME NEW t \in Ticket, NEW conc \in BOOLEAN, NEW acquire \in BOOLEAN,
             StartLoad(a, t, conc, acquire)
      PROVE  LockOK'
  <2>1. lock' = lock /\ covered' = covered
    BY <1>1 DEF StartLoad
  <2>2. cmd'[a].at = "gate" /\ active'[a] = None
    BY <1>1, StartLoadDoes
  <2> QED
    BY <1>0, <1>L, <2>1, <2>2 DEF LockOK, TypeFacts
<1>2. CASE StartConcurrent(a)
  BY <1>2, <1>O, StartConcurrentDoes
<1>3. CASE StartLocked(a)
  <2>1. cmd[a].op = "start" /\ cmd[a] # None
    BY <1>3, <1>T, StartLockedDoes DEF Goes, StepsOf, Op
  <2>2. active'[a] = None
    BY <1>3, <2>1, StartLockedDoes DEF FilesSame, OwnOK, FilesOK, Empty
  <2>3. cmd'[a] # None /\ cmd'[a].session = cmd[a].session
    BY <1>3, StartLockedDoes DEF Goes, SameCmd
  <2> QED
    BY <1>3, <1>N, <2>2, <2>3, StartLockedDoes
<1>6. CASE StartWrite(a)
  <2>1. lock' = lock /\ covered' = covered /\ cmd'[a] = None
        /\ cmd[a] # None /\ cmd[a].at = "write"
    BY <1>6, ReturnEnds DEF StartWrite, history, Ends, At
  <2>2. active'[a].ticket = cmd[a].session.ticket /\ active'[a].conc = cmd[a].session.conc
    BY <1>6, StartWriteDoes
  <2> QED
    BY <1>0, <1>L, <2>1, <2>2 DEF LockOK, TypeFacts
<1>16. ASSUME NEW acquire \in BOOLEAN, ResumeLock(a, acquire)
       PROVE  LockOK'
  <2>1. active'[a] = None /\ cmd'[a] # None /\ cmd'[a].session = suspended[a]
    BY <1>16, ResumeLockDoes DEF FilesSame, Begins
  <2> QED
    BY <1>16, <1>N, <1>O, <2>1, ResumeLockDoes
<1>18. CASE ResumeRevive(a)
  <2>1. lock' = lock /\ covered' = covered /\ cmd'[a].at = "discard"
        /\ cmd[a] # None /\ cmd[a].at = "revive"
    BY <1>18, ResumeReviveGoes DEF Goes
  <2>2. active'[a].ticket = cmd[a].session.ticket
    BY <1>0, <1>18, ResumeReviveDoes
  <2> QED
    BY <1>0, <1>L, <2>1, <2>2 DEF LockOK, TypeFacts
<1> QED
  BY <1>1, <1>2, <1>3, <1>6, <1>16, <1>18 DEF Gated

(* The gated steps keep concurrent sessions apart.                         *)
LEMMA ScopesKept ==
  ASSUME TypeOK, Shape, NEW a \in Actor, OwnOK(a), Gated(a), CommandStep(a),
         ScopesOK, ScopesApart
  PROVE  ScopesOK' /\ ScopesApart'
<1>0. TypeFacts /\ CmdOK(a)
  BY TypeOKFacts DEF Shape
<1>T. cmd[a] # None => cmd[a].at \in StepsOf(cmd[a].op) /\ cmd[a].op \in Op
  BY <1>0, CommandFacts DEF TypeFacts, CmdOK
<1>L. \A b \in Actor \ {a} :
        /\ StartingConcurrent(b)' <=> StartingConcurrent(b)
        /\ cmd'[b] = cmd[b]
        /\ Concurrent(b)' <=> Concurrent(b)
        /\ active'[b] = active[b]
  BY LocalStep DEF Local, Others, StartingConcurrent, Concurrent
<1>A. \A b \in Actor \ {a} : {a, b} = {b, a}
  OBVIOUS
<1>N. ASSUME ~StartingConcurrent(a)', Concurrent(a)' => Concurrent(a) /\ active'[a] = active[a],
             met' = met
      PROVE  ScopesOK' /\ ScopesApart'
  BY <1>L, <1>N DEF ScopesOK, ScopesApart, Apart
<1>1. ASSUME NEW t \in Ticket, NEW conc \in BOOLEAN, NEW acquire \in BOOLEAN,
             StartLoad(a, t, conc, acquire)
      PROVE  ScopesOK' /\ ScopesApart'
  <2>1. /\ cmd'[a] # None /\ cmd'[a].at = "gate" /\ cmd'[a].session.conc = conc
        /\ ~Concurrent(a)'
    BY <1>1, StartLoadDoes DEF Concurrent
  <2>2. met' = {m \in met : a \notin m}
               \cup {{a, b} : b \in {c \in Actor \ {a} : conc /\ StartingConcurrent(c)}}
    BY <1>1 DEF StartLoad
  <2>3. \A b \in Actor \ {a} : StartingConcurrent(a)' /\ StartingConcurrent(b) => {a, b} \in met'
    BY <2>1, <2>2 DEF StartingConcurrent
  <2>4. \A b, c \in Actor \ {a} : {b, c} \in met' <=> {b, c} \in met
    BY <2>2
  <2>5. ScopesOK'
    BY <1>L, <1>A, <2>1, <2>3, <2>4 DEF ScopesOK, Apart
  <2>6. ScopesApart'
    BY <1>L, <2>1, <2>4 DEF ScopesApart
  <2> QED
    BY <2>5, <2>6
<1>2. CASE StartConcurrent(a)
  <2>1. /\ cmd[a] # None /\ cmd'[a] # None /\ cmd'[a].at = "consume"
        /\ cmd'[a].session = cmd[a].session /\ cmd[a].session.conc
        /\ cmd[a].op = "start" /\ cmd'[a].op = "start"
        /\ met' = met /\ active' = active
        /\ \A u \in SiblingTickets(a, cmd[a].session.ticket) :
             <<cmd[a].session.ticket, u>> \notin Clash
    BY <1>2, <1>T, StartConcurrentDoes DEF Goes, SameCmd, FilesSame, StepsOf, Op
  <2>2. StartingConcurrent(a) /\ StartingConcurrent(a)'
    BY <2>1 DEF StartingConcurrent
  <2>3. active[a] = None
    BY <2>1 DEF OwnOK, FilesOK, Empty
  <2>4. \A b \in Actor \ {a} :
          Concurrent(b) => Apart(cmd'[a].session.ticket, active[b].ticket)
    BY <2>1 DEF SiblingTickets, Concurrent, Apart
  <2>5. ScopesOK'
    BY <1>L, <2>1, <2>2, <2>3, <2>4 DEF ScopesOK, Concurrent, Apart
  <2>6. ScopesApart'
    BY <2>1 DEF ScopesApart, Concurrent
  <2> QED
    BY <2>5, <2>6
<1>3. CASE StartLocked(a)
  BY <1>3, <1>N, StartLockedDoes
     DEF Goes, SameCmd, FilesSame, StartingConcurrent, Concurrent
<1>6. CASE StartWrite(a)
  <2>1. /\ met' = met /\ cmd'[a] = None /\ cmd[a] # None /\ cmd[a].at = "write"
        /\ cmd[a].op = "start"
    BY <1>6, <1>T, ReturnEnds DEF StartWrite, history, Ends, At, StepsOf, Op
  <2>2. active'[a].ticket = cmd[a].session.ticket /\ active'[a].conc = cmd[a].session.conc
    BY <1>6, StartWriteDoes
  <2>3. Concurrent(a)' => StartingConcurrent(a)
    BY <2>1, <2>2 DEF Concurrent, StartingConcurrent
  <2>4. ScopesOK'
    <3>1. \A b \in Actor \ {a} : StartingConcurrent(b) /\ Concurrent(a)' => {b, a} \in met
      BY <2>3 DEF ScopesOK
    <3>2. ~StartingConcurrent(a)'
      BY <2>1 DEF StartingConcurrent
    <3> QED
      BY <1>L, <2>1, <3>1, <3>2 DEF ScopesOK, Apart
  <2>5. ASSUME NEW b \in Actor \ {a}, Concurrent(a)', Concurrent(b), {a, b} \notin met
        PROVE  Apart(active'[a].ticket, active[b].ticket)
    BY <2>1, <2>2, <2>3, <2>5 DEF ScopesOK
  <2>6. ASSUME NEW b \in Actor \ {a}, Concurrent(b)
        PROVE  active[b].ticket \in Ticket
    BY <1>0, <2>6, RecordFacts DEF TypeFacts, FileType, Concurrent
  <2>7. cmd[a].session.ticket \in Ticket
    BY <1>0, <2>1, CommandFacts DEF TypeFacts
  <2>8. ASSUME NEW b \in Actor \ {a}, Concurrent(a)', Concurrent(b), {a, b} \notin met
        PROVE  Apart(active[b].ticket, active'[a].ticket)
    BY <2>2, <2>5, <2>6, <2>7, <2>8, ConstantsAssumption DEF Apart
  <2>9. ScopesApart'
    BY <1>L, <1>A, <2>1, <2>5, <2>8 DEF ScopesApart, Apart
  <2> QED
    BY <2>4, <2>9
<1>16. ASSUME NEW acquire \in BOOLEAN, ResumeLock(a, acquire)
       PROVE  ScopesOK' /\ ScopesApart'
  <2>1. cmd'[a].op = "resume" /\ active' = active /\ met' = met
    BY <1>16, ResumeLockDoes DEF FilesSame, Begins
  <2> QED
    BY <1>N, <2>1 DEF StartingConcurrent, Concurrent
<1>18. CASE ResumeRevive(a)
  <2>1. cmd'[a].op = "resume" /\ met' = met
    BY <1>18, <1>T, ResumeReviveGoes DEF Goes, SameCmd, StepsOf, Op
  <2>2. ~active'[a].conc
    BY <1>0, <1>18, ResumeReviveDoes
  <2> QED
    BY <1>N, <2>1, <2>2 DEF StartingConcurrent, Concurrent
<1> QED
  BY <1>1, <1>2, <1>3, <1>6, <1>16, <1>18 DEF Gated

(* Only the last part of start starts a session, and it is on disk then.   *)
LEMMA CountedStarts ==
  ASSUME TypeOK, Shape, NEW a \in Actor, CommandStep(a)
  PROVE  \/ calls'.started = calls.started
         \/ calls'.started = calls.started + 1 /\ Holds(active', a, calls.started + 1)
<1>1. CASE StartWrite(a)
  BY <1>1, StartWriteDoes DEF Holds
<1>2. CASE Crash(a)
  BY <1>2, CrashDoes DEF Shape
<1>3. CASE ~StartWrite(a) /\ ~Crash(a)
  <2>1. calls' = calls
    BY <1>3 DEF CommandStep, StartStep, FinishStep, SuspendStep, ResumeStep, StartLoad,
       StartConcurrent, StartLocked, StartRefused, StartConsume, FinishStatus, HandoffBegin,
       FinishMemento, ActiveUnlink, HandoffRecord, HandoffUnlock, SuspendPause,
       CommandRelease, SuspendPark, ResumeLock, ResumeReopen, ResumeRevive, ResumeDiscard
  <2> QED
    BY <2>1
<1> QED
  BY <1>1, <1>2, <1>3

(* Where no session is lost and ids are drawn in order, all are accounted  *)
(* for.                                                                    *)
LEMMA AccountedKept ==
  ASSUME TypeOK, TypeOK', Accounted, \A b \in Actor : LosesNone(b),
         \A i \in Id : past[i] \subseteq past'[i],
         \/ calls'.started = calls.started
         \/ /\ calls'.started = calls.started + 1
            /\ \E a \in Actor : Holds(active', a, calls.started + 1)
  PROVE  Accounted'
<1>1. PICK n \in Nat, m \in Nat : n = calls.started /\ m = calls'.started /\ m <= MaxSessions
  BY ConstantsAssumption DEF TypeOK
<1>2. SUFFICES ASSUME NEW i \in 1 .. m PROVE OnDisk(i)' \/ past'[i] # {}
  BY <1>1 DEF Accounted
<1>3. i \in Id
  BY <1>1, ConstantsAssumption DEF Id
<1>4. CASE i \in 1 .. n
  <2>1. OnDisk(i) \/ past[i] # {}
    BY <1>1, <1>4 DEF Accounted
  <2>2. OnDisk(i) => \E b \in Actor : InFiles(b, i)
    BY DEF OnDisk, InFiles, Holds
  <2>3. (\E b \in Actor : InFiles(b, i)') => OnDisk(i)'
    BY DEF OnDisk, InFiles, Holds
  <2> QED
    BY <1>3, <2>1, <2>2, <2>3 DEF LosesNone
<1>5. CASE i \notin 1 .. n
  <2>1. i = n + 1 /\ m = n + 1
    BY <1>1, <1>5
  <2>2. PICK a \in Actor : Holds(active', a, i)
    BY <1>1, <2>1
  <2> QED
    BY <2>2 DEF OnDisk, Holds
<1> QED
  BY <1>4, <1>5

(* A step of a command keeps the invariant.                                *)
LEMMA CommandKeeps ==
  ASSUME SessionInv, NEW a \in Actor, CommandStep(a)
  PROVE  SessionInv'
<1>1. TypeOK' /\ Shape'
  BY CommandTypes DEF SessionInv, CommandStep
<1>2. Local(a) /\ HoldsNoOther(a)
  BY LocalStep DEF SessionInv
<1>3. IdsOK'
  BY <1>1, <1>2, IdsKept DEF SessionInv
<1>4. OwnOK(a)' /\ LosesNone(a)
  BY OwnFiles DEF SessionInv
<1>5. \A b \in Actor \ {a} : OwnOK(b)'
  BY <1>2, LocalOwn DEF SessionInv
<1>6. \A b \in Actor \ {a} : LosesNone(b)
  BY <1>2 DEF Local, LosesNone, InFiles, Holds
<1>7. Accounted'
  <2>1. \A b \in Actor : LosesNone(b)
    BY <1>4, <1>6
  <2>2. \A i \in Id : past[i] \subseteq past'[i]
    BY <1>2 DEF Local
  <2> QED
    BY <1>1, <2>1, <2>2, CountedStarts, AccountedKept DEF SessionInv
<1>8. LockOK' /\ ScopesOK' /\ ScopesApart'
  <2>1. CASE Gated(a)
    BY <2>1, LocksKept, ScopesKept DEF SessionInv
  <2>2. CASE ~Gated(a)
    <3>1. covered \subseteq Actor
      BY DEF SessionInv, TypeOK
    <3> QED
      BY <2>2, <3>1, TameStep, TameKeeps DEF SessionInv
  <2> QED
    BY <2>1, <2>2
<1> QED
  BY <1>1, <1>3, <1>4, <1>5, <1>7, <1>8 DEF SessionInv

(* What a step of no command does: it may remove files, marking the        *)
(* sessions in them, and release the lock.                                 *)
Removes ==
  /\ \A b \in Actor : Undisturbed(b) /\ LosesNone(b)
  /\ \A i \in Id : past'[i] # past[i] => \E b \in Actor : HeldBy(b, i)
  /\ \A i \in Id : past[i] \subseteq past'[i]
  /\ calls'.started = calls.started
  /\ LockKeeps /\ met' = met

(* A step that changes neither files nor commands removes nothing.         *)
LEMMA SameRemoves ==
  ASSUME cmd' = cmd, UNCHANGED <<active, suspended, past, torn, met>>,
         calls'.started = calls.started, LockKeeps
  PROVE  Removes
BY DEF Removes, Undisturbed, LosesNone, InFiles, Holds

(* Sweeps, ageing and lock changes only remove and mark.                    *)
LEMMA SystemRemoves ==
  ASSUME TypeOK, CleanupStep \/ (\E i \in Id : Age(i))
           \/ \E l \in LockRecord \cup {None} : LockChanges(l)
  PROVE  Removes
<1>1. ASSUME NEW force \in BOOLEAN, NEW release \in BOOLEAN, NEW dead \in SUBSET Orphans,
             CleanupScan(force, dead, release)
      PROVE  Removes
  <2>1. calls'.started = calls.started
    BY <1>1 DEF CleanupScan, TypeOK
  <2> QED
    BY <1>1, <2>1, SameRemoves DEF CleanupScan, files, history, LockKeeps
<1>2. ASSUME cleanup # None, NEW e \in cleanup.targets, CleanupEntry(e)
      PROVE  Removes
  <2>1. UNCHANGED <<cmd, lock, covered, torn, met, calls>>
    BY <1>2 DEF CleanupEntry
  <2>2. \A b \in Actor : Undisturbed(b)
    BY <1>2, <2>1, CleanupEntryDoes DEF Undisturbed
  <2>3. \A b \in Actor : LosesNone(b)
    BY <1>2, CleanupEntryDoes DEF LosesNone, InFiles, Holds
  <2>4. \A i \in Id : past'[i] # past[i] => \E b \in Actor : HeldBy(b, i)
    BY <1>2, CleanupEntryDoes DEF HeldBy, Holds
  <2>5. \A i \in Id : past[i] \subseteq past'[i]
    BY <1>2, CleanupEntryDoes
  <2> QED
    BY <2>1, <2>2, <2>3, <2>4, <2>5 DEF Removes, LockKeeps
<1>3. CASE CleanupEnd
  <2>1. LockKeeps
    BY <1>3 DEF CleanupEnd, ReleaseLock, LockKeeps
  <2> QED
    BY <1>3, <2>1, SameRemoves DEF CleanupEnd, files
<1>4. CASE CleanupCrash
  <2>1. calls'.started = calls.started
    BY <1>4 DEF CleanupCrash, TypeOK
  <2> QED
    BY <1>4, <2>1, SameRemoves DEF CleanupCrash, files, history, LockKeeps
<1>5. ASSUME NEW i \in Id, Age(i)
      PROVE  Removes
  BY <1>5, SameRemoves DEF Age, files, history, LockKeeps
<1>6. ASSUME NEW l \in LockRecord \cup {None}, LockChanges(l)
      PROVE  Removes
  BY <1>6, SameRemoves DEF LockChanges, files, LockKeeps
<1> QED
  BY <1>1, <1>2, <1>3, <1>4, <1>5, <1>6 DEF CleanupStep

(* Removing and marking keeps the invariant.                               *)
LEMMA RemovesKeeps ==
  ASSUME SessionInv, Removes, TypeOK', Shape'
  PROVE  SessionInv'
<1>1. \A b \in Actor, i \in Id : HeldBy(b, i)' => HeldBy(b, i)
  BY DEF Removes, Undisturbed, HeldBy, Reads
<1>2. IdsOK'
  <2>1. \A b \in Actor, i \in Id : HeldBy(b, i)' => i <= calls'.started
    BY <1>1 DEF SessionInv, IdsOK, Removes
  <2>2. \A b, c \in Actor, i \in Id : HeldBy(b, i)' /\ HeldBy(c, i)' => b = c
    BY <1>1 DEF SessionInv, IdsOK
  <2>3. ASSUME NEW i \in Id, i > calls'.started
        PROVE  past'[i] = {}
    <3>1. PICK n \in Nat : n = calls.started /\ n = calls'.started
      BY DEF SessionInv, TypeOK, Removes
    <3>2. i > n /\ ~(i <= n)
      BY <2>3, <3>1 DEF Id
    <3>3. \A b \in Actor : ~HeldBy(b, i)
      BY <3>1, <3>2 DEF SessionInv, IdsOK
    <3>4. past[i] = {}
      BY <3>1, <3>2 DEF SessionInv, IdsOK
    <3> QED
      BY <3>3, <3>4 DEF Removes
  <2> QED
    BY <2>1, <2>2, <2>3 DEF IdsOK
<1>3. \A b \in Actor : OwnOK(b)'
  BY UndisturbedOwn DEF SessionInv, Shape, Removes
<1>4. Accounted'
  BY AccountedKept DEF SessionInv, Removes
<1>5. \A b \in Actor : Tame(b)
  BY DEF Removes, Undisturbed, Tame
<1>6. covered \subseteq Actor
  BY DEF SessionInv, TypeOK
<1>7. LockOK' /\ ScopesOK' /\ ScopesApart'
  BY <1>5, <1>6, TameKeeps DEF SessionInv, Removes
<1> QED
  BY <1>2, <1>3, <1>4, <1>7 DEF SessionInv

(* The inductive invariant holds at the start.                             *)
LEMMA InitInv ==
  Init => SessionInv
<1> SUFFICES ASSUME Init PROVE SessionInv
  OBVIOUS
<1>1. TypeOK
  BY ConstantsAssumption DEF Init, TypeOK, Status
<1>2. /\ \A a \in Actor : cmd[a] = None /\ active[a] = None /\ suspended[a] = None
      /\ \A i \in Id : past[i] = {}
      /\ calls.started = 0 /\ covered = {}
  BY DEF Init
<1>3. Shape
  BY <1>2 DEF Shape, CmdOK
<1>4. IdsOK
  BY <1>2 DEF IdsOK, HeldBy, Reads
<1>5. \A a \in Actor : OwnOK(a)
  BY <1>2 DEF OwnOK, FilesOK, FinishOK, FinishedFor, Reads, Holds
<1>6. Accounted
  BY <1>2 DEF Accounted
<1>7. LockOK /\ ScopesOK /\ ScopesApart
  BY <1>2 DEF LockOK, ScopesOK, ScopesApart, StartingConcurrent, Concurrent
<1> QED
  BY <1>1, <1>3, <1>4, <1>5, <1>6, <1>7 DEF SessionInv

(* Stuttering keeps the inductive invariant.                               *)
LEMMA StutterKeeps ==
  ASSUME SessionInv, UNCHANGED vars
  PROVE  SessionInv'
<1>1. /\ cmd' = cmd /\ UNCHANGED <<active, suspended, past, torn, met>>
      /\ calls' = calls /\ lock' = lock /\ covered' = covered
  BY DEF vars
<1>2. TypeOK' /\ Shape'
  BY DEF SessionInv, vars, TypeOK, Shape, CmdOK
<1>3. Removes
  BY <1>1, SameRemoves DEF LockKeeps
<1> QED
  BY <1>2, <1>3, RemovesKeeps

-----------------------------------------------------------------------------
(* The invariant holds in every reachable state: commands read and write   *)
(* the session files one after another, yet each file holds what the rest  *)
(* of its actor's command takes it to hold.                                *)
THEOREM SessionInvariant ==
  Spec => []SessionInv
<1>1. SessionInv /\ [Next]_vars => SessionInv'
  <2> SUFFICES ASSUME SessionInv, [Next]_vars PROVE SessionInv'
    OBVIOUS
  <2>1. ASSUME NEW a \in Actor, CommandStep(a)
        PROVE  SessionInv'
    BY <2>1, CommandKeeps
  <2>2. CASE CleanupStep \/ (\E i \in Id : Age(i))
           \/ \E l \in LockRecord \cup {None} : LockChanges(l)
    BY <2>2, SystemTypes, SystemRemoves, RemovesKeeps DEF SessionInv
  <2>3. CASE UNCHANGED vars
    BY <2>3, StutterKeeps
  <2> QED
    BY <2>1, <2>2, <2>3 DEF Next, CommandStep
<1> QED
  BY <1>1, InitInv, PTL DEF Spec

(* Every variable keeps its type, whatever commands run and are killed.    *)
THEOREM SessionTypes ==
  Spec => []TypeOK
<1>1. SessionInv => TypeOK
  BY DEF SessionInv
<1> QED
  BY <1>1, SessionInvariant, PTL

(* No session vanishes: start, suspend and resume write the new file       *)
(* before they unlink the old one, and a kill between the two writes       *)
(* leaves one of them.                                                     *)
THEOREM NoneVanishes ==
  Spec => []Accounted
<1>1. SessionInv => Accounted
  BY DEF SessionInv
<1> QED
  BY <1>1, SessionInvariant, PTL

(* A session whose memento is written does not come to life again, except  *)
(* when a command was killed right before an unlink.                       *)
THEOREM FinishedStays ==
  Spec => []FinishedStaysFinished
<1>1. SessionInv => FinishedStaysFinished
  BY DEF SessionInv, OwnOK, FinishedFor, FinishedStaysFinished, Holds
<1> QED
  BY <1>1, SessionInvariant, PTL

(* The ticket lock excludes: of two actors that work on one ticket with a  *)
(* lock, one has lost it since its start or resume, unless both work under *)
(* the lock that is there, its owner's name being theirs or what theirs    *)
(* extend.                                                                 *)
THEOREM LockExcludes ==
  Spec => []OneHolderPerTicket
<1>1. SessionInv => OneHolderPerTicket
  BY DEF SessionInv, LockOK, OneHolderPerTicket, Works
<1> QED
  BY <1>1, SessionInvariant, PTL

(* Concurrent sessions keep to disjoint scopes unless they were started at *)
(* the same time.                                                          *)
THEOREM ConcurrentApart ==
  Spec => []ScopesApart
<1>1. SessionInv => ScopesApart
  BY DEF SessionInv
<1> QED
  BY <1>1, SessionInvariant, PTL

=============================================================================

------------------------------ MODULE Tickets ------------------------------
(***************************************************************************)
(* The ticket files of .exo/tickets and who writes them: exo/kernel/       *)
(* tickets.py, the choice of exo/stdlib/dispatch.py, the follow-ups of     *)
(* exo/stdlib/follow_up.py, and the commands that create, give out, work,  *)
(* close and archive tickets.  A command loads a ticket, later saves its   *)
(* copy whole, and no lock spans the two; only next and a session take the *)
(* ticket lock.  Consecutive reads are one step with the write before      *)
(* them.  Which sessions exist is module Session's: here a session command *)
(* may come at any time for the ticket its actor last locked.              *)
(***************************************************************************)
EXTENDS Naturals, FiniteSets

CONSTANTS
  Actor,       \* owners of locks, each running one command at a time
  MaxTickets,  \* bound: ticket ids
  Type,        \* ticket types
  Lane,        \* scheduler lanes
  LaneOf,      \* the lane of a type, or None
  LaneLimit,   \* the count of each lane
  Limit,       \* global_concurrency_limit
  Gap,         \* follow-up titles
  Seeds,       \* what there is at the start: functions from the first ids
  Planned,     \* the tickets that scripts of plan list
  MaxCommands, \* bound: commands begun
  None         \* no file, no lock, no parent, no command

Id == 1 .. MaxTickets
Kind == {"intent", "epic", "task"}
Status == {"todo", "active", "paused", "review", "done"}

ASSUME ConstantsAssumption ==
  /\ MaxTickets \in Nat \ {0, 1} /\ MaxCommands \in Nat /\ Limit \in Nat
  /\ "feature" \in Type /\ "docs" \in Type
  /\ LaneOf \in [Type -> Lane \cup {None}]
  /\ LaneLimit \in [Lane -> Nat \ {0}]

VARIABLES
  ticket,   \* the ticket files
  archive,  \* the files in ARCHIVE
  drawn,    \* ids drawn so far
  lock,     \* the unexpired ticket lock
  mine,     \* the ticket each actor last locked
  cmd,      \* the command each actor is running
  made,     \* history: the command that filled in each ticket
  past,     \* history: what happened to each ticket
  commands  \* commands begun

vars == <<ticket, archive, drawn, lock, mine, cmd, made, past, commands>>

(* A ticket file. *)
File == [kind: Kind, type: Type, status: Status, parent: Id \cup {None},
         blockers: SUBSET Id, children: SUBSET Id, title: Gap \cup {None}]

(* A command: its step, the ticket it is about, the copy it has read or    *)
(* will write, the follow-ups it still has to create, and the tickets      *)
(* others wrote since it began.                                            *)
Command == [op: {"create", "promote", "plan", "next", "finish", "suspend",
                 "resume", "cleanup", "do", "archive"},
            at: {"fill", "link", "claim", "start", "follow", "store",
                 "release", "rename"},
            id: Id, copy: File, parent: Id \cup {None}, parentcopy: File \cup {None},
            gaps: SUBSET Gap, status: Status \cup {"keep"}, touched: SUBSET Id]

(* What filled in a ticket. *)
Origin == {"seed", "create", "promote", "plan", "finish"}

ASSUME NoneAssumption ==
  /\ None \notin Id /\ None \notin Lane /\ None \notin Gap /\ None \notin Origin
  /\ None \notin File \cup Command \cup [ticket: Id, owner: Actor]

(* What there is at the start was never worked on and is no follow-up.     *)
(* plan may list anything.                                                 *)
ASSUME SeedsAssumption ==
  /\ \A seeds \in Seeds :
       /\ \E n \in Id : seeds \in [1 .. n -> File]
       /\ \A i \in DOMAIN seeds :
            seeds[i].status = "todo" /\ seeds[i].title = None /\ seeds[i].children = {}
  /\ Planned \subseteq File

(* given: by next, and not back to todo since.  regiven: while given.      *)
(* stale: written from a copy that was no longer what the file held, or by *)
(* plan over what was there.  listed: filed by init or plan, whatever it   *)
(* says.  worked: left todo.  reopened: left done.  extra: made active     *)
(* other than by a next that no other activation overlapped.  linked:      *)
(* written into its parent.  repeated: a follow-up filed while another of  *)
(* its title was.                                                          *)
Mark == {"given", "regiven", "stale", "listed", "worked", "reopened", "extra",
         "linked", "repeated"}

TypeOK ==
  /\ ticket \in [Id -> File \cup {None}]
  /\ archive \in [Id -> File \cup {None}]
  /\ drawn \in Id
  /\ lock \in [ticket: Id, owner: Actor] \cup {None}
  /\ mine \in [Actor -> Id \cup {None}]
  /\ cmd \in [Actor -> Command \cup {None}]
  /\ made \in [Id -> Origin \cup {None}]
  /\ past \in [Id -> SUBSET Mark]
  /\ commands \in 0 .. MaxCommands

-----------------------------------------------------------------------------
(* normalize_ticket: what a file has where nothing is given. *)
Plain(kind, parent) ==
  [kind |-> kind, type |-> "feature", status |-> "todo", parent |-> parent,
   blockers |-> {}, children |-> {}, title |-> None]

(* seed_kernel_tickets: an intent and a task of it, which is listed in the *)
(* task only.  Other seeds are what plan may have added before.            *)
Seeded == <<Plain("intent", None), Plain("task", 1)>>

Init ==
  /\ \E seeds \in Seeds :
       /\ ticket = [i \in Id |-> IF i \in DOMAIN seeds THEN seeds[i] ELSE None]
       /\ made = [i \in Id |-> IF i \in DOMAIN seeds THEN "seed" ELSE None]
       /\ past = [i \in Id |-> IF i \in DOMAIN seeds THEN {"listed"} ELSE {}]
       /\ drawn = Cardinality(DOMAIN seeds)
  /\ archive = [i \in Id |-> None]
  /\ lock = None
  /\ mine = [a \in Actor |-> None]
  /\ cmd = [a \in Actor |-> None]
  /\ commands = 0

Live == {i \in Id : ticket[i] # None}
Active == {i \in Live : ticket[i].status = "active"}

Idle(a) == cmd[a] = None
At(a, step) == cmd[a] # None /\ cmd[a].at = step

Begun(a) ==
  /\ Idle(a) /\ commands < MaxCommands
  /\ commands' = commands + 1

New(op, step, i, copy) ==
  [op |-> op, at |-> step, id |-> i, copy |-> copy, parent |-> None,
   parentcopy |-> None, gaps |-> {}, status |-> "keep", touched |-> {}]

Advance(a, next) == cmd' = [cmd EXCEPT ![a] = next]

(* The file of i changed: the others' copies of it, if any, are old. *)
Touch(a, i, next) ==
  cmd' = [b \in Actor |->
            IF b = a THEN next
            ELSE IF Idle(b) THEN None ELSE [cmd[b] EXCEPT !.touched = @ \cup {i}]]

(* What a write of r to the file of i by c is worth remembering for. *)
Marks(c, i, r) ==
  (IF i \in c.touched THEN {"stale"} ELSE {})
  \cup (IF c.op = "plan" THEN {"listed"} ELSE {})
  \cup (IF r.status # "todo" THEN {"worked"} ELSE {})
  \cup (IF i \in Live /\ ticket[i].status = "done" /\ r.status # "done" THEN {"reopened"} ELSE {})
  \cup (IF r.status = "active" /\ i \notin Active
           /\ (c.op # "next" \/ Active \cap c.touched # {}) THEN {"extra"} ELSE {})

(* save_ticket of the command c of a, which goes on as next. *)
Save(a, c, i, r, marks, next) ==
  /\ ticket' = [ticket EXCEPT ![i] = r]
  /\ past' = [past EXCEPT ![i] = (IF r.status = "todo" THEN @ \ {"given"} ELSE @)
                                   \cup Marks(c, i, r) \cup marks]
  /\ Touch(a, i, next)

-----------------------------------------------------------------------------
(* allocate_ticket_id: under the id guard, an id nobody drew before, with  *)
(* a placeholder in its file.                                              *)
Allocate(a, kind, next) ==
  LET i == drawn + 1
  IN  /\ drawn < MaxTickets
      /\ drawn' = i
      /\ ticket' = [ticket EXCEPT ![i] = Plain(kind, None)]
      /\ Touch(a, i, next)

(* ticket-create and intent-create: what a kind may have for a parent.     *)
(* The mutant takes any ticket.                                            *)
FitsMutant(kind, parent) == IF kind = "intent" THEN parent = None ELSE parent \in Live
Fits(kind, parent) ==
  CASE kind = "intent" -> parent = None
    [] kind = "epic" -> parent \in Live /\ ticket[parent].kind = "intent"
    [] kind = "task" -> parent \in Live /\ ticket[parent].kind \in {"intent", "epic"}

BeginCreate(a, kind, parent) ==
  /\ Begun(a) /\ Fits(kind, parent)
  /\ Allocate(a, kind,
       [New("create", "fill", drawn + 1, Plain(kind, parent)) EXCEPT
          !.parent = parent,
          !.parentcopy = IF parent = None THEN None ELSE ticket[parent]])
  /\ UNCHANGED <<archive, lock, mine, made, past>>

(* promote, of a thread. *)
BeginPromote(a) ==
  /\ Begun(a)
  /\ Allocate(a, "task", New("promote", "fill", drawn + 1,
                             [Plain("task", None) EXCEPT !.type = "docs"]))
  /\ UNCHANGED <<archive, lock, mine, made, past>>

(* plan, of one ticket that its script lists: without an id it gets a new  *)
(* one, with an id it is saved under that, over whatever has it.           *)
BeginPlan(a, r) ==
  /\ Begun(a)
  /\ Allocate(a, r.kind, New("plan", "fill", drawn + 1, r))
  /\ UNCHANGED <<archive, lock, mine, made, past>>

PlanAs(a, i, r) ==
  LET c == [New("plan", "fill", i, r) EXCEPT !.touched = 1 .. drawn]
  IN  /\ Begun(a) /\ i <= drawn + 1
      /\ drawn' = IF i > drawn THEN i ELSE drawn
      /\ Save(a, c, i, r, {}, None)
      /\ made' = [made EXCEPT ![i] = "plan"]
      /\ UNCHANGED <<archive, lock, mine>>

(* A follow-up of finish is one of its kind; the rest see their ticket     *)
(* filled in, and ticket-create goes on to the parent.                     *)
SameGap(i, r) ==
  /\ i \in Live
  /\ ticket[i].parent = r.parent /\ ticket[i].title = r.title

Fill(a) ==
  LET c == cmd[a]
  IN  /\ At(a, "fill") /\ c.op # "finish"
      /\ Save(a, c, c.id, c.copy, {},
              IF c.parent = None THEN None ELSE [c EXCEPT !.at = "link"])
      /\ made' = [made EXCEPT ![c.id] = c.op]
      /\ UNCHANGED <<archive, drawn, lock, mine, commands>>

(* The parent's copy, with the child added, is written back. *)
ChildAddedMutant(copy, i) == [copy EXCEPT !.children = {i}]
ChildAdded(copy, i) == [copy EXCEPT !.children = @ \cup {i}]

Link(a) ==
  LET c == cmd[a]
  IN  /\ At(a, "link")
      /\ ticket' = [ticket EXCEPT ![c.parent] = ChildAdded(c.parentcopy, c.id)]
      /\ past' = [past EXCEPT ![c.id] = @ \cup {"linked"},
                              ![c.parent] = @ \cup Marks(c, c.parent, c.parentcopy)]
      /\ Touch(a, c.parent, None)
      /\ UNCHANGED <<archive, drawn, lock, mine, made, commands>>

-----------------------------------------------------------------------------
(* blockers_resolved, in the index of the live tickets.  The mutant lets   *)
(* work begin when its blockers are under review.                          *)
ResolvedMutant(i) ==
  \A b \in ticket[i].blockers : b \in Live /\ ticket[b].status \in {"done", "review"}
Resolved(i) == \A b \in ticket[i].blockers : b \in Live /\ ticket[b].status = "done"

(* Room in the schedule; the mutant lets one in too many. *)
InLane(lane) == {i \in Active : LaneOf[ticket[i].type] = lane}
HasRoomMutant(i) ==
  /\ Cardinality(Active) <= Limit
  /\ LaneOf[ticket[i].type] # None =>
       Cardinality(InLane(LaneOf[ticket[i].type])) <= LaneLimit[LaneOf[ticket[i].type]]
HasRoom(i) ==
  /\ Cardinality(Active) < Limit
  /\ LaneOf[ticket[i].type] # None =>
       Cardinality(InLane(LaneOf[ticket[i].type])) < LaneLimit[LaneOf[ticket[i].type]]

(* choose_next_ticket, without a dispatch script; which candidate scores   *)
(* best is left open.                                                      *)
Candidates ==
  {i \in Live : /\ ticket[i].status = "todo" /\ ticket[i].kind = "task"
                /\ Resolved(i) /\ HasRoom(i)}

Choose(a, i) ==
  /\ Begun(a) /\ i \in Candidates
  /\ Advance(a, New("next", "claim", i, ticket[i]))
  /\ UNCHANGED <<ticket, archive, drawn, lock, mine, made, past>>

(* acquire_lock: refused while anybody else, or another ticket, has it. *)
Acquired(a, i) ==
  /\ lock \in {None, [ticket |-> i, owner |-> a]}
  /\ lock' = [ticket |-> i, owner |-> a]
  /\ mine' = [mine EXCEPT ![a] = i]

Claim(a) ==
  /\ At(a, "claim")
  /\ Acquired(a, cmd[a].id)
  /\ Advance(a, [cmd[a] EXCEPT !.at = "start"])
  /\ UNCHANGED <<ticket, archive, drawn, made, past, commands>>

(* The copy chosen before the lock was taken is saved as active.  One      *)
(* mutant leaves it as it was, the other uses the status that follow_up.py *)
(* and timeline.py look for.                                               *)
StartedMutant(copy) == copy
InProgressMutant(copy) == [copy EXCEPT !.status = "in_progress"]
Started(copy) == [copy EXCEPT !.status = "active"]

Start(a) ==
  LET c == cmd[a]
  IN  /\ At(a, "start")
      /\ Save(a, c, c.id, Started(c.copy),
              {"given"} \cup (IF "given" \in past[c.id] THEN {"regiven"} ELSE {}), None)
      /\ UNCHANGED <<archive, drawn, lock, mine, made, commands>>

-----------------------------------------------------------------------------
(* session-start with a ticket, when there is no lock. *)
TakeLock(a, i) ==
  /\ Begun(a) /\ i \in Live /\ lock = None
  /\ Acquired(a, i)
  /\ UNCHANGED <<ticket, archive, drawn, cmd, made, past>>

(* create_follow_ups: of the gaps detected, those that have no open        *)
(* ticket of this parent.  The mutant does not look.                       *)
UncoveredMutant(i, gaps) == gaps
Uncovered(i, gaps) ==
  {g \in gaps : ~\E j \in Live : /\ ticket[j].parent = i /\ ticket[j].title = g
                                 /\ ticket[j].status = "todo"}

(* detect_follow_ups reads the features, the requirements and the scopes   *)
(* of the repository, so any gaps may show.                                *)
Detected == SUBSET Gap

BeginFinish(a, gaps, status) ==
  LET i == mine[a]
      todo == Uncovered(i, gaps)
      c == New("finish", "follow", i, ticket[i])
  IN  /\ i # None /\ Begun(a) /\ i \in Live
      /\ Advance(a, IF todo = {} THEN [c EXCEPT !.at = "store", !.status = status]
                    ELSE [c EXCEPT !.gaps = todo, !.status = status, !.parent = i])
      /\ UNCHANGED <<ticket, archive, drawn, lock, mine, made, past>>

AllocateFollowUp(a, g) ==
  LET c == cmd[a]
  IN  /\ At(a, "follow") /\ g \in c.gaps
      /\ Allocate(a, "task",
           [c EXCEPT !.at = "fill", !.gaps = @ \ {g}, !.id = drawn + 1,
                     !.copy = [Plain("task", c.parent) EXCEPT !.title = g]])
      /\ UNCHANGED <<archive, lock, mine, made, past, commands>>

(* The last follow-up, and then the finished ticket is loaded. *)
FillFollowUp(a) ==
  LET c == cmd[a]
      repeats == {i \in c.touched : SameGap(i, c.copy)}
  IN  /\ At(a, "fill") /\ c.op = "finish"
      /\ Save(a, c, c.id, c.copy, IF repeats = {} THEN {} ELSE {"repeated"},
              IF c.gaps # {} THEN [c EXCEPT !.at = "follow"]
              ELSE IF c.parent \notin Live THEN None
              ELSE [c EXCEPT !.at = "store", !.id = c.parent,
                             !.copy = ticket[c.parent], !.touched = {}])
      /\ made' = [made EXCEPT ![c.id] = c.op]
      /\ UNCHANGED <<archive, drawn, lock, mine, commands>>

(* suspend and resume of the actor's ticket, resume with its lock; do of   *)
(* the locked ticket, which it saves when all is done; and cleanup of a    *)
(* session left behind.                                                    *)
BeginSuspend(a) ==
  /\ mine[a] # None /\ Begun(a) /\ mine[a] \in Live
  /\ Advance(a, [New("suspend", "store", mine[a], ticket[mine[a]]) EXCEPT !.status = "paused"])
  /\ UNCHANGED <<ticket, archive, drawn, lock, mine, made, past>>

BeginResume(a) ==
  /\ mine[a] # None /\ Begun(a) /\ mine[a] \in Live
  /\ Acquired(a, mine[a])
  /\ Advance(a, [New("resume", "store", mine[a], ticket[mine[a]]) EXCEPT !.status = "active"])
  /\ UNCHANGED <<ticket, archive, drawn, made, past>>

BeginDo(a) ==
  /\ lock # None /\ Begun(a) /\ lock.ticket \in Live
  /\ Advance(a, [New("do", "store", lock.ticket, ticket[lock.ticket]) EXCEPT !.status = "done"])
  /\ UNCHANGED <<ticket, archive, drawn, lock, mine, made, past>>

BeginCleanup(a, i) ==
  /\ Begun(a) /\ i \in Live /\ ticket[i].status \in {"active", "paused"}
  /\ Advance(a, [New("cleanup", "store", i, ticket[i]) EXCEPT !.status = "todo"])
  /\ UNCHANGED <<ticket, archive, drawn, lock, mine, made, past>>

(* The status is set in the copy, or the commits are with keep. *)
Store(a) ==
  LET c == cmd[a]
      r == IF c.status = "keep" THEN c.copy ELSE [c.copy EXCEPT !.status = c.status]
  IN  /\ At(a, "store")
      /\ Save(a, c, c.id, r, {},
              IF c.op \in {"finish", "suspend"} THEN [c EXCEPT !.at = "release"] ELSE None)
      /\ UNCHANGED <<archive, drawn, lock, mine, made, commands>>

(* release_lock, by the ticket; after keep only on request. *)
Release(a) ==
  LET c == cmd[a]
  IN  /\ At(a, "release")
      /\ lock' = IF lock # None /\ lock.ticket = c.id THEN None ELSE lock
      /\ Advance(a, None)
      /\ UNCHANGED <<ticket, archive, drawn, mine, made, past, commands>>

LockExpires ==
  /\ lock # None
  /\ lock' = None
  /\ UNCHANGED <<ticket, archive, drawn, mine, cmd, made, past, commands>>

-----------------------------------------------------------------------------
(* archive_ticket reads the status and renames the file; archive_done does *)
(* so with one ticket after another.                                       *)
BeginArchive(a, i) ==
  /\ Begun(a) /\ i \in Live /\ ticket[i].status = "done"
  /\ Advance(a, New("archive", "rename", i, ticket[i]))
  /\ UNCHANGED <<ticket, archive, drawn, lock, mine, made, past>>

Rename(a) ==
  LET i == cmd[a].id
  IN  /\ At(a, "rename") /\ i \in Live
      /\ archive' = [archive EXCEPT ![i] = ticket[i]]
      /\ ticket' = [ticket EXCEPT ![i] = None]
      /\ Touch(a, i, None)
      /\ UNCHANGED <<drawn, lock, mine, made, past, commands>>

(* A command is refused, fails or is killed where it is. *)
Stop(a) ==
  /\ ~Idle(a)
  /\ Advance(a, None)
  /\ UNCHANGED <<ticket, archive, drawn, lock, mine, made, past, commands>>

-----------------------------------------------------------------------------
CreateStep(a) ==
  \/ \E kind \in Kind, parent \in Id \cup {None} : BeginCreate(a, kind, parent)
  \/ BeginPromote(a)
  \/ \E r \in Planned : BeginPlan(a, r) \/ \E i \in Id : PlanAs(a, i, r)
  \/ Fill(a) \/ Link(a)

WorkStep(a) ==
  \/ \E i \in Id : Choose(a, i) \/ TakeLock(a, i) \/ BeginCleanup(a, i)
  \/ Claim(a) \/ Start(a)
  \/ \E gaps \in Detected, status \in {"keep", "review", "done"} : BeginFinish(a, gaps, status)
  \/ \E g \in Gap : AllocateFollowUp(a, g)
  \/ FillFollowUp(a)
  \/ BeginSuspend(a) \/ BeginResume(a) \/ BeginDo(a) \/ Store(a) \/ Release(a)

ArchiveStep(a) == (\E i \in Id : BeginArchive(a, i)) \/ Rename(a)

Next ==
  \/ \E a \in Actor : CreateStep(a) \/ WorkStep(a) \/ ArchiveStep(a) \/ Stop(a)
  \/ LockExpires

Spec == Init /\ [][Next]_vars

-----------------------------------------------------------------------------
(* next gives a ticket out once: a second time only after cleanup took it  *)
(* back to todo, or when somebody saved a copy of it that was out of date  *)
(* or plan wrote over it, however locks expire and whoever was choosing    *)
(* meanwhile.                                                              *)
GivenOnce == \A i \in Id : "regiven" \in past[i] => "stale" \in past[i]

(* The active tickets keep within the schedule's limits, but for those     *)
(* made active by resume, by plan, by an old copy, or by two overlapping   *)
(* nexts.                                                                  *)
WithinLimits ==
  LET counted == {i \in Active : {"extra", "stale"} \cap past[i] = {}}
  IN  /\ Cardinality(counted) <= Limit
      /\ \A lane \in Lane :
           Cardinality({i \in counted : LaneOf[ticket[i].type] = lane}) <= LaneLimit[lane]

(* Whatever blocks a ticket that next gave out is done or archived, unless *)
(* it was opened again, or the ticket was given out as a placeholder or    *)
(* written over since.                                                     *)
Finished(b) ==
  \/ ticket[b] # None /\ ticket[b].status = "done"
  \/ archive[b] # None
BlockersFirst ==
  \A i \in Live :
    "given" \in past[i] /\ "stale" \notin past[i] =>
      \A b \in ticket[i].blockers : Finished(b) \/ "reopened" \in past[b]

(* resolve_intent_root: where the chain of parents ends, after 20 tickets. *)
Climb[n \in 0 .. 20] ==
  [i \in Id |->
     IF n = 0 \/ i \notin Live \/ ticket[i].kind = "intent" \/ ticket[i].parent = None
     THEN i ELSE Climb[n - 1][ticket[i].parent]]
Top(i) == Climb[20][i]

Chain(i) == {Climb[n][i] : n \in 0 .. 20}

(* A ticket that ticket-create filed under a parent resolves to an intent, *)
(* unless its chain of parents goes through one that was archived, that is *)
(* an unfilled placeholder, that somebody saved an old copy of, or that    *)
(* init or plan filed.                                                     *)
Rooted ==
  \A i \in Live :
    made[i] = "create" =>
      \/ Top(i) \in Live /\ ticket[Top(i)].kind = "intent"
      \/ \E j \in Chain(i) :
           archive[j] # None \/ made[j] = None \/ {"stale", "listed"} \cap past[j] # {}

(* A child that was linked stays among its parent's children, wherever     *)
(* the two are now, unless somebody saved an old copy of either or plan    *)
(* wrote over it.                                                          *)
ChildrenLinked ==
  \A i \in Id :
    "linked" \in past[i] =>
      LET p == (IF i \in Live THEN ticket[i] ELSE archive[i]).parent
      IN  \/ "stale" \in past[i]
          \/ (p # None /\ "stale" \in past[p])
          \/ p \in Live /\ i \in ticket[p].children
          \/ p # None /\ archive[p] # None /\ i \in archive[p].children

(* No two todo tickets of one parent are follow-ups with one title, unless *)
(* they were filed by overlapping commands, plan listed one, or one was    *)
(* taken up meanwhile: an active follow-up does not count as open.         *)
FollowUpsOnce ==
  \A i, j \in Live :
    /\ i < j /\ ticket[i].title # None /\ SameGap(i, ticket[j])
    /\ ticket[i].status = "todo" /\ ticket[j].status = "todo"
    => "worked" \in past[i] \/ {"repeated", "stale", "listed"} \cap (past[i] \cup past[j]) # {}
=============================================================================

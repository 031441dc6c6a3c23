--------------------------- MODULE TicketsProofs ---------------------------
(* Theorems about the ticket files, for any number of actors, tickets and  *)
(* commands, any lanes and limits, and any follow-ups.                     *)
EXTENDS Tickets, FiniteSetTheorems, TLAPS

-----------------------------------------------------------------------------
(* The inductive invariant: first what holds of a command c.               *)

(* Its step belongs to what it runs, and its fields to its step.           *)
Shape(c) ==
  /\ c.at \in {"claim", "start"} <=> c.op = "next"
  /\ c.at = "fill" => c.op \in {"create", "promote", "plan", "finish"}
  /\ c.at = "link" => c.op = "create" /\ c.parent # None
  /\ c.at = "follow" => c.op = "finish"
  /\ c.op = "create" => c.at \in {"fill", "link"}
  /\ c.op \in {"promote", "plan"} => c.at = "fill" /\ c.parent = None
  /\ c.op = "create" /\ c.parent # None =>
       c.parentcopy # None /\ c.copy.parent = c.parent /\ c.id # c.parent
  /\ c.op = "finish" /\ c.at \in {"follow", "fill"} => c.parent # None
  /\ c.op = "finish" /\ c.at = "fill" =>
       /\ c.copy.title \in Gap \ c.gaps /\ c.copy.parent = c.parent /\ c.id # c.parent
  /\ c.op \in {"create", "promote"} => c.copy.title = None
  /\ c.id <= drawn
  /\ c.parent # None => c.parent <= drawn

(* What it has read is what the file holds, unless somebody wrote it.      *)
Fresh(c) ==
  /\ c.at \in {"claim", "start", "store", "rename"} /\ c.id \notin c.touched =>
       ticket[c.id] = c.copy
  /\ c.op = "create" /\ c.parent # None /\ c.parent \notin c.touched =>
       ticket[c.parent] = c.parentcopy
  /\ c.at = "fill" /\ c.id \notin c.touched =>
       /\ ticket[c.id] # None /\ ticket[c.id].title = None
       /\ ticket[c.id].status = "todo" /\ ticket[c.id].children = {}
       /\ {"given", "linked"} \cap past[c.id] = {}

(* A ticket that was chosen still has its room: of the tickets that nobody *)
(* wrote since, fewer are active than the limits allow.                    *)
Untouched(c) == Active \ c.touched

Room(c) ==
  c.op = "next" =>
    /\ c.copy.status = "todo"
    /\ Cardinality(Untouched(c)) < Limit
    /\ LaneOf[c.copy.type] # None =>
         Cardinality({i \in Untouched(c) : LaneOf[ticket[i].type] = LaneOf[c.copy.type]})
           < LaneLimit[LaneOf[c.copy.type]]

(* Its blockers were done when it was chosen.                              *)
Unblocked(b) == Finished(b) \/ "reopened" \in past[b]
Ready(c) == c.op = "next" => \A b \in c.copy.blockers : Unblocked(b)

(* A follow-up still to be filed has no open ticket that was there before; *)
(* and whoever draws an id later writes it later.                          *)
Missing(c, g) ==
  \A i \in Live :
    ticket[i].parent = c.parent /\ ticket[i].title = g /\ ticket[i].status = "todo" =>
      i \in c.touched
Unfiled(c) ==
  /\ c.op = "finish" /\ c.at \in {"follow", "fill"} => \A g \in c.gaps : Missing(c, g)
  /\ c.op = "finish" /\ c.at = "fill" => Missing(c, c.copy.title)
  /\ c.at = "fill" => \A i \in Live : i > c.id => i \in c.touched

(* A ticket that is to be linked is in its file, live or archived.         *)
Filed(i) == IF i \in Live THEN ticket[i] ELSE archive[i]
Linkable(c) ==
  c.at = "link" =>
    "stale" \in past[c.id] \/ (Filed(c.id) # None /\ Filed(c.id).parent = c.parent)

CommandOK(c) ==
  Shape(c) /\ Fresh(c) /\ Room(c) /\ Ready(c) /\ Unfiled(c) /\ Linkable(c)

(* Now what holds of the files.                                            *)
Undrawn ==
  \A i \in Id : i > drawn => ticket[i] = None /\ archive[i] = None /\ past[i] = {}

StatusOK ==
  \A i \in Live :
    /\ ticket[i].status = "todo" /\ "given" \in past[i] => "stale" \in past[i]
    /\ ticket[i].status # "todo" => "worked" \in past[i]
    /\ archive[i] # None => "stale" \in past[i]

GapsOK ==
  \A i, j \in Live :
    i < j /\ ticket[i].title # None /\ SameGap(i, ticket[j]) =>
      "worked" \in past[i] \/ {"repeated", "stale", "listed"} \cap (past[i] \cup past[j]) # {}

(* What ChildrenLinked says of a child and its parent.                     *)
Listed(i, p) ==
  \/ "stale" \in past[i]
  \/ (p # None /\ "stale" \in past[p])
  \/ p \in Live /\ i \in ticket[p].children
  \/ p # None /\ archive[p] # None /\ i \in archive[p].children

LinksOK ==
  \A i \in Id :
    "linked" \in past[i] =>
      \/ "stale" \in past[i]
      \/ /\ Filed(i) # None
         /\ \A p \in Id \cup {None} : p = Filed(i).parent => Listed(i, p)

FilesOK ==
  Undrawn /\ StatusOK /\ GapsOK /\ GivenOnce /\ WithinLimits /\ BlockersFirst /\ LinksOK

(* No two commands create one ticket.                                      *)
Creates(a) == cmd[a] # None /\ cmd[a].at \in {"fill", "link"}
Distinct ==
  \A a, b \in Actor : a # b /\ Creates(a) /\ Creates(b) => cmd[a].id # cmd[b].id

TicketsInv ==
  /\ TypeOK
  /\ \A a \in Actor : cmd[a] # None => CommandOK(cmd[a])
  /\ FilesOK
  /\ Distinct

-----------------------------------------------------------------------------
(* Types, and what the parts of a step do.                                 *)
CmdType == [Actor -> Command \cup {None}]
FileType == [Id -> File \cup {None}]
PastType == [Id -> SUBSET Mark]

(* Sets of ticket ids are finite.                                          *)
LEMMA IdFinite ==
  /\ IsFiniteSet(Id)
  /\ \A S \in SUBSET Id : IsFiniteSet(S) /\ Cardinality(S) \in Nat
<1>1. IsFiniteSet(Id)
  BY ConstantsAssumption, FS_Interval DEF Id
<1> QED
  BY <1>1, FS_Subset, FS_CardinalityType

(* A subset has no more members.                                           *)
LEMMA SmallerSet ==
  ASSUME NEW S \in SUBSET Id, NEW T \in SUBSET S
  PROVE  Cardinality(T) <= Cardinality(S)
BY IdFinite, FS_Subset

(* The type invariant, variable by variable.                               *)
LEMMA TypeFacts ==
  TypeOK <=>
    /\ ticket \in FileType /\ archive \in FileType
    /\ drawn \in Id
    /\ lock \in [ticket: Id, owner: Actor] \cup {None}
    /\ mine \in [Actor -> Id \cup {None}]
    /\ cmd \in CmdType
    /\ made \in [Id -> Origin \cup {None}]
    /\ past \in PastType
    /\ commands \in 0 .. MaxCommands
BY DEF TypeOK, CmdType, FileType, PastType

(* The types of a command's fields.                                        *)
LEMMA CommandFields ==
  ASSUME NEW c \in Command
  PROVE  /\ c # None /\ c.id \in Id /\ c.copy \in File /\ c.parent \in Id \cup {None}
         /\ c.parentcopy \in File \cup {None} /\ c.gaps \subseteq Gap
         /\ c.status \in Status \cup {"keep"} /\ c.touched \subseteq Id
BY NoneAssumption DEF Command

(* The types of a ticket file's fields.                                    *)
LEMMA FileFields ==
  ASSUME NEW f \in File
  PROVE  /\ f # None /\ f.kind \in Kind /\ f.type \in Type /\ f.status \in Status
         /\ f.parent \in Id \cup {None} /\ f.blockers \subseteq Id
         /\ f.children \subseteq Id /\ f.title \in Gap \cup {None}
BY NoneAssumption DEF File

(* What a ticket just allocated says.                                      *)
LEMMA PlainFile ==
  ASSUME NEW kind \in Kind, NEW parent \in Id \cup {None}
  PROVE  /\ Plain(kind, parent) \in File
         /\ Plain(kind, parent).status = "todo" /\ Plain(kind, parent).title = None
         /\ Plain(kind, parent).children = {} /\ Plain(kind, parent).parent = parent
BY ConstantsAssumption DEF Plain, File, Kind, Status

(* Setting a status changes nothing else of a ticket.                      *)
LEMMA StatusFile ==
  ASSUME NEW f \in File, NEW s \in Status
  PROVE  LET r == [f EXCEPT !.status = s]
         IN  /\ r \in File /\ r.status = s /\ r.type = f.type /\ r.parent = f.parent
             /\ r.blockers = f.blockers /\ r.title = f.title /\ r.children = f.children
BY DEF File

(* Adding a child changes nothing else of a ticket.                        *)
LEMMA ChildFile ==
  ASSUME NEW f \in File, NEW i \in Id
  PROVE  LET r == ChildAdded(f, i)
         IN  /\ r \in File /\ r.status = f.status /\ r.type = f.type /\ r.parent = f.parent
             /\ r.blockers = f.blockers /\ r.title = f.title
             /\ r.children = f.children \cup {i}
BY DEF File, ChildAdded

(* A running command is a command.                                         *)
LEMMA CmdAt ==
  ASSUME TypeOK, NEW a \in Actor, cmd[a] # None
  PROVE  cmd[a] \in Command
BY DEF TypeOK

(* The others' copies grow old, and nothing else of them changes.          *)
Older(c, i) == [c EXCEPT !.touched = @ \cup {i}]

(* A command that is overtaken remembers it and is otherwise the same.     *)
LEMMA OlderFields ==
  ASSUME NEW c \in Command, NEW i \in Id
  PROVE  /\ Older(c, i) \in Command /\ Older(c, i).touched = c.touched \cup {i}
         /\ Older(c, i).op = c.op /\ Older(c, i).at = c.at /\ Older(c, i).id = c.id
         /\ Older(c, i).copy = c.copy /\ Older(c, i).parent = c.parent
         /\ Older(c, i).parentcopy = c.parentcopy /\ Older(c, i).gaps = c.gaps
         /\ Older(c, i).status = c.status
BY DEF Older, Command

(* Advancing changes the actor's own command only.                         *)
LEMMA AdvanceDoes ==
  ASSUME TypeOK, NEW a \in Actor, NEW next \in Command \cup {None}, Advance(a, next)
  PROVE  /\ cmd' \in CmdType /\ cmd'[a] = next
         /\ \A b \in Actor \ {a} : cmd'[b] = cmd[b]
BY TypeFacts DEF Advance, CmdType

(* Touching a ticket makes every other running command remember it.        *)
LEMMA TouchDoes ==
  ASSUME TypeOK, NEW a \in Actor, NEW i \in Id, NEW next \in Command \cup {None},
         Touch(a, i, next)
  PROVE  /\ cmd' \in CmdType /\ cmd'[a] = next
         /\ \A b \in Actor \ {a} :
              cmd'[b] = IF cmd[b] = None THEN None ELSE Older(cmd[b], i)
<1>1. /\ cmd'[a] = next
      /\ \A b \in Actor \ {a} :
           cmd'[b] = IF cmd[b] = None THEN None ELSE Older(cmd[b], i)
  BY DEF Touch, Older, Idle
<1>2. \A b \in Actor : cmd'[b] \in Command \cup {None}
  BY <1>1, CmdAt, OlderFields
<1> QED
  BY <1>1, <1>2 DEF Touch, CmdType

(* A fresh command has the type of a command.                              *)
LEMMA NewCommand ==
  ASSUME NEW op \in {"create", "promote", "plan", "next", "finish", "suspend",
                     "resume", "cleanup", "do", "archive"},
         NEW step \in {"fill", "link", "claim", "start", "follow", "store",
                       "release", "rename"},
         NEW i \in Id, NEW copy \in File
  PROVE  New(op, step, i, copy) \in Command
BY DEF New, Command

(* The marks of a write are among the known ones.                          *)
LEMMA MarksTyped ==
  ASSUME NEW c, NEW i, NEW r
  PROVE  Marks(c, i, r) \subseteq {"stale", "listed", "worked", "reopened", "extra"}
BY DEF Marks

(* The shape of a write of r to the file of i, by the command c.           *)
Writes(c, i, r) ==
  /\ ticket' = [ticket EXCEPT ![i] = r]
  /\ archive' = archive /\ drawn' = drawn
  /\ past' \in PastType
  /\ c.op = "plan" => "listed" \in past'[i]
  /\ \A j \in Id : past[j] \ {"given"} \subseteq past'[j]
  /\ \A j \in Id \ {i} :
       past'[j] = past[j]
         \/ (c.at = "link" /\ j = c.id /\ past'[j] = past[j] \cup {"linked"})
  /\ i \in c.touched => "stale" \in past'[i]
  /\ r.status # "todo" => "worked" \in past'[i]
  /\ i \in Live /\ ticket[i].status = "done" /\ r.status # "done" => "reopened" \in past'[i]
  /\ r.status = "active" /\ i \notin Active /\ (c.op # "next" \/ Active \cap c.touched # {})
       => "extra" \in past'[i]
  /\ "given" \in past'[i] =>
       c.at = "start" \/ ("given" \in past[i] /\ (c.at = "link" \/ r.status # "todo"))
  /\ "regiven" \in past'[i] /\ "regiven" \notin past[i] =>
       c.at = "start" /\ "given" \in past[i]
  /\ "linked" \in past'[i] => "linked" \in past[i]

(* A save writes one file and marks that ticket.                           *)
LEMMA SaveWrites ==
  ASSUME TypeOK, NEW a \in Actor, NEW c \in Command, NEW i \in Id, NEW r \in File,
         NEW marks \in SUBSET {"given", "regiven", "repeated"}, NEW next \in Command \cup {None},
         Save(a, c, i, r, marks, next), archive' = archive, drawn' = drawn,
         "given" \in marks => c.at = "start" /\ r.status # "todo",
         "regiven" \in marks => c.at = "start" /\ "given" \in past[i]
  PROVE  /\ Writes(c, i, r)
         /\ marks \subseteq past'[i]
         /\ ticket' \in FileType
<1>1. past \in PastType /\ ticket \in FileType
  BY TypeFacts
<1> DEFINE kept == IF r.status = "todo" THEN past[i] \ {"given"} ELSE past[i]
           ms == Marks(c, i, r)
<1>2. past' = [past EXCEPT ![i] = kept \cup ms \cup marks]
  BY DEF Save
<1>3. /\ past[i] \ {"given"} \subseteq kept /\ kept \subseteq past[i]
      /\ r.status = "todo" => "given" \notin kept
      /\ ms \subseteq {"stale", "listed", "worked", "reopened", "extra"}
  BY MarksTyped
<1>4. /\ i \in c.touched => "stale" \in ms
      /\ c.op = "plan" => "listed" \in ms
      /\ r.status # "todo" => "worked" \in ms
      /\ i \in Live /\ ticket[i].status = "done" /\ r.status # "done" => "reopened" \in ms
      /\ /\ r.status = "active" /\ i \notin Active
         /\ c.op # "next" \/ Active \cap c.touched # {}
         => "extra" \in ms
  BY DEF Marks
<1> HIDE DEF kept, ms
<1>5. /\ past' \in PastType /\ past'[i] = kept \cup ms \cup marks
      /\ \A j \in Id \ {i} : past'[j] = past[j]
  BY <1>1, <1>2, <1>3 DEF PastType, Mark
<1>6. ticket' \in FileType /\ ticket' = [ticket EXCEPT ![i] = r]
  BY <1>1 DEF FileType, Save
<1>7. \A j \in Id : past[j] \ {"given"} \subseteq past'[j]
  BY <1>3, <1>5
<1>8. "given" \in past'[i] =>
        c.at = "start" \/ ("given" \in past[i] /\ (c.at = "link" \/ r.status # "todo"))
  BY <1>3, <1>5
<1>9. /\ "regiven" \in past'[i] /\ "regiven" \notin past[i] =>
           c.at = "start" /\ "given" \in past[i]
      /\ "linked" \in past'[i] => "linked" \in past[i]
  BY <1>3, <1>5
<1> QED
  BY <1>4, <1>5, <1>6, <1>7, <1>8, <1>9 DEF Writes

-----------------------------------------------------------------------------
(* A write of r by the command c keeps what holds of the files: c writes   *)
(* what is marked stale, or what it read with more children or another     *)
(* status, or it fills in a placeholder.                                   *)
Same(i, r) ==
  /\ ticket[i] # None
  /\ r.type = ticket[i].type /\ r.parent = ticket[i].parent
  /\ r.blockers = ticket[i].blockers /\ r.title = ticket[i].title
  /\ ticket[i].children \subseteq r.children

Blank(c, i, r) ==
  /\ c.at = "fill" /\ i = c.id /\ ticket[i] # None
  /\ ticket[i].status = "todo" /\ ticket[i].title = None /\ ticket[i].children = {}
  /\ {"given", "linked"} \cap past[i] = {}

Sound(c, i, r) ==
  /\ Writes(c, i, r)
  /\ i \notin c.touched => Same(i, r) \/ Blank(c, i, r)
  /\ c.at = "start" <=> c.op = "next"
  /\ c.at = "start" =>
       /\ i = c.id /\ r.status = "active" /\ r.type = c.copy.type
       /\ r.blockers = c.copy.blockers
       /\ i \notin c.touched => ticket[i] = c.copy
  /\ c.at = "link" =>
       /\ i = c.parent /\ i # c.id /\ c.id \in r.children
       /\ i \notin c.touched => r.status = ticket[i].status
  /\ c.at = "fill" /\ c.op # "plan" /\ r.title # None =>
       /\ c.op = "finish" /\ i = c.id /\ r.title = c.copy.title /\ r.parent = c.parent
       /\ (\E k \in c.touched : SameGap(k, r)) => "repeated" \in past'[i]

(* A write changes one live ticket and nothing of the others.              *)
LEMMA WriteBase ==
  ASSUME TypeOK, NEW c \in Command, NEW i \in Id, NEW r \in File, Writes(c, i, r)
  PROVE  /\ ticket' \in FileType /\ ticket'[i] = r
         /\ \A j \in Id \ {i} : ticket'[j] = ticket[j]
         /\ \A j \in Id \ {i} : j \in Live' <=> j \in Live
         /\ i \in Live' /\ Live' \subseteq Id
         /\ \A j \in Id : past[j] \ {"given"} \subseteq past'[j]
         /\ \A j \in Id \ {i} : "given" \in past'[j] => "given" \in past[j]
         /\ \A j \in Id : "stale" \in past[j] => "stale" \in past'[j]
         /\ i \in c.touched => "stale" \in past'[i]
         /\ archive' = archive
<1>1. ticket \in FileType /\ past \in PastType
  BY TypeFacts
<1>2. r # None
  BY FileFields
<1>3. /\ ticket' \in FileType /\ ticket'[i] = r
      /\ \A j \in Id \ {i} : ticket'[j] = ticket[j]
  BY <1>1 DEF Writes, FileType
<1>4. \A j \in Id \ {i} : "given" \in past'[j] => "given" \in past[j]
  BY <1>1 DEF Writes, PastType
<1> QED
  BY <1>1, <1>2, <1>3, <1>4 DEF Writes, Live

(* A sound write keeps every status and its history in agreement.          *)
LEMMA WriteStatus ==
  ASSUME TypeOK, FilesOK, NEW c \in Command, CommandOK(c), NEW i \in Id, NEW r \in File,
         Sound(c, i, r)
  PROVE  StatusOK'
<1>0. Writes(c, i, r) /\ StatusOK
  BY DEF Sound, FilesOK
<1>1. ASSUME NEW j \in Live', j # i
      PROVE  /\ ticket'[j].status = "todo" /\ "given" \in past'[j] => "stale" \in past'[j]
             /\ ticket'[j].status # "todo" => "worked" \in past'[j]
             /\ archive'[j] # None => "stale" \in past'[j]
  <2>1. j \in Live /\ ticket'[j] = ticket[j] /\ archive'[j] = archive[j]
    <3>1. j \in Id \ {i}
      BY <1>1 DEF Live
    <3> QED
      BY <1>0, <1>1, <3>1, WriteBase
  <2>2. past[j] \ {"given"} \subseteq past'[j] /\ ("given" \in past'[j] => "given" \in past[j])
    BY <1>0, <1>1, WriteBase
  <2> QED
    BY <1>0, <2>1, <2>2 DEF StatusOK
<1>2. r.status = "todo" /\ "given" \in past'[i] => "stale" \in past'[i]
  <2> SUFFICES ASSUME r.status = "todo", "given" \in past'[i], i \notin c.touched
               PROVE  "stale" \in past'[i]
    BY <1>0 DEF Writes
  <2>1. c.at = "link" /\ "given" \in past[i]
    BY DEF Sound, Writes
  <2>2. ticket[i].status = "todo" /\ ticket[i] # None
    BY <2>1 DEF Sound, Same, Blank
  <2>3. "stale" \in past[i]
    BY <1>0, <2>1, <2>2 DEF StatusOK, Live
  <2> QED
    BY <1>0, <2>3, WriteBase
<1>3. r.status # "todo" => "worked" \in past'[i]
  BY <1>0 DEF Writes
<1>4. archive'[i] # None => "stale" \in past'[i]
  <2>1. CASE i \in c.touched
    BY <1>0, <2>1 DEF Writes
  <2>2. CASE i \notin c.touched
    <3>1. i \in Live
      BY <2>2 DEF Sound, Same, Blank, Live
    <3> QED
      BY <1>0, <3>1, WriteBase DEF StatusOK, Writes
  <2> QED
    BY <2>1, <2>2
<1> QED
  BY <1>0, <1>1, <1>2, <1>3, <1>4, WriteBase DEF StatusOK

(* A sound write keeps GivenOnce.                                          *)
LEMMA WriteGiven ==
  ASSUME TypeOK, FilesOK, NEW c \in Command, CommandOK(c), NEW i \in Id, NEW r \in File,
         Sound(c, i, r)
  PROVE  GivenOnce'
<1>0. Writes(c, i, r) /\ StatusOK /\ GivenOnce /\ past \in PastType
  BY TypeFacts DEF Sound, FilesOK
<1> SUFFICES ASSUME NEW j \in Id, "regiven" \in past'[j] PROVE "stale" \in past'[j]
  BY DEF GivenOnce
<1>1. CASE "regiven" \in past[j]
  BY <1>0, <1>1, WriteBase DEF GivenOnce
<1>2. CASE "regiven" \notin past[j] /\ j # i
  BY <1>0, <1>2 DEF Writes
<1>3. CASE "regiven" \notin past[j] /\ j = i
  <2>1. c.at = "start" /\ "given" \in past[i]
    BY <1>0, <1>3 DEF Writes
  <2>2. CASE i \in c.touched
    BY <1>0, <1>3, <2>2 DEF Writes
  <2>3. CASE i \notin c.touched
    <3>1. ticket[i] = c.copy /\ c.copy.status = "todo" /\ c.copy # None
      BY <2>1, <2>3, CommandFields, FileFields DEF Sound, CommandOK, Room
    <3>2. "stale" \in past[i]
      BY <1>0, <2>1, <3>1 DEF StatusOK, Live
    <3> QED
      BY <1>0, <1>3, <3>2, WriteBase
  <2> QED
    BY <2>2, <2>3
<1> QED
  BY <1>1, <1>2, <1>3

(* A write blocks no ticket whose blockers were done.                      *)
LEMMA WriteUnblocked ==
  ASSUME TypeOK, NEW c \in Command, NEW i \in Id, NEW r \in File, Writes(c, i, r),
         NEW b \in Id, Unblocked(b)
  PROVE  Unblocked(b)'
<1>1. "reopened" \in past[b] => "reopened" \in past'[b]
  BY WriteBase
<1>2. archive' = archive
  BY DEF Writes
<1>3. CASE b # i
  BY <1>1, <1>2, <1>3, WriteBase DEF Unblocked, Finished
<1>4. CASE b = i
  <2>1. ticket[b] # None /\ ticket[b].status = "done" =>
          r.status = "done" \/ "reopened" \in past'[b]
    BY <1>4 DEF Writes, Live
  <2> QED
    BY <1>1, <1>2, <1>4, <2>1, WriteBase, FileFields DEF Unblocked, Finished
<1> QED
  BY <1>3, <1>4

(* A sound write keeps BlockersFirst.                                      *)
LEMMA WriteBlockers ==
  ASSUME TypeOK, FilesOK, NEW c \in Command, CommandOK(c), NEW i \in Id, NEW r \in File,
         Sound(c, i, r)
  PROVE  BlockersFirst'
<1>0. Writes(c, i, r) /\ BlockersFirst /\ ticket \in FileType
  BY TypeFacts DEF Sound, FilesOK
<1>1. BlockersFirst =
        \A j \in Live : "given" \in past[j] /\ "stale" \notin past[j] =>
          \A b \in ticket[j].blockers : Unblocked(b)
  BY DEF BlockersFirst, Unblocked
<1>2. ASSUME NEW j \in Live', "given" \in past'[j], "stale" \notin past'[j],
             NEW b \in ticket'[j].blockers
      PROVE  Unblocked(b)'
  <2>0. b \in Id /\ j \in Id
    BY <1>0, <1>2, WriteBase, FileFields DEF FileType, Live
  <2>1. CASE j # i
    <3>1. j \in Live /\ "given" \in past[j] /\ "stale" \notin past[j]
          /\ b \in ticket[j].blockers
      BY <1>0, <1>2, <2>0, <2>1, WriteBase
    <3>2. Unblocked(b)
      BY <1>0, <1>1, <3>1
    <3> QED
      BY <1>0, <2>0, <3>2, WriteUnblocked
  <2>2. CASE j = i
    <3>0. ticket'[i] = r /\ ("stale" \in past[i] => "stale" \in past'[i])
          /\ (i \in c.touched => "stale" \in past'[i])
      BY <1>0, WriteBase
    <3>1. i \notin c.touched /\ b \in r.blockers /\ "stale" \notin past[i]
      BY <1>2, <2>2, <3>0
    <3>2. CASE c.at = "start"
      <4>1. Unblocked(b)
        BY <3>1, <3>2 DEF Sound, CommandOK, Ready
      <4> QED
        BY <1>0, <2>0, <4>1, WriteUnblocked
    <3>3. CASE c.at # "start"
      <4>1. "given" \in past[i]
        BY <1>0, <1>2, <2>2, <3>3 DEF Writes
      <4>2. Same(i, r)
        BY <3>1, <4>1 DEF Sound, Blank
      <4>3. i \in Live /\ b \in ticket[i].blockers
        BY <3>1, <4>2 DEF Same, Live
      <4>4. Unblocked(b)
        BY <1>0, <1>1, <3>1, <4>1, <4>3
      <4> QED
        BY <1>0, <2>0, <4>4, WriteUnblocked
    <3> QED
      BY <3>2, <3>3
  <2> QED
    BY <2>1, <2>2
<1> QED
  BY <1>2 DEF BlockersFirst, Unblocked

(* A sound write keeps every follow-up filed at most once.                 *)
LEMMA WriteGaps ==
  ASSUME TypeOK, FilesOK, NEW c \in Command, CommandOK(c), NEW i \in Id, NEW r \in File,
         Sound(c, i, r)
  PROVE  GapsOK'
<1>0. Writes(c, i, r) /\ GapsOK /\ StatusOK /\ past \in PastType
  BY TypeFacts DEF Sound, FilesOK
<1>1. ASSUME NEW j \in Live', NEW k \in Live', j < k, ticket'[j].title # None,
             ticket'[j].parent = ticket'[k].parent, ticket'[j].title = ticket'[k].title
      PROVE  "worked" \in past'[j] \/ {"repeated", "stale", "listed"} \cap (past'[j] \cup past'[k]) # {}
  <2>0. j \in Id /\ k \in Id /\ j # k /\ ~(k < j)
    BY <1>1 DEF Live, Id
  <2>M. \A m \in Id : past[m] \ {"given"} \subseteq past'[m]
    BY <1>0, WriteBase
  <2>1. CASE j \in Live /\ k \in Live /\ ticket[j].parent = ticket[k].parent
             /\ ticket[j].title = ticket[k].title /\ ticket[j].title # None
    <3>1. SameGap(j, ticket[k])
      BY <2>1 DEF SameGap
    <3>2. "worked" \in past[j] \/ {"repeated", "stale", "listed"} \cap (past[j] \cup past[k]) # {}
      BY <1>0, <1>1, <2>1, <3>1 DEF GapsOK
    <3>3. /\ past[j] \ {"given"} \subseteq past'[j]
          /\ past[k] \ {"given"} \subseteq past'[k]
      BY <2>0, <2>M
    <3> QED
      BY <3>2, <3>3
  <2>2. CASE i \in c.touched /\ (j = i \/ k = i)
    BY <1>0, <2>2 DEF Writes
  <2>3. CASE j # i /\ k # i
    BY <1>0, <1>1, <2>0, <2>1, <2>3, WriteBase
  <2>4. CASE i \notin c.touched /\ Same(i, r) /\ (j = i \/ k = i)
    BY <1>0, <1>1, <2>0, <2>1, <2>4, WriteBase DEF Same, Live
  <2>5. CASE i \notin c.touched /\ Blank(c, i, r) /\ (j = i \/ k = i)
    <3>1. PICK m \in Live : m # i /\ SameGap(m, r) /\ {j, k} = {i, m} /\ m \in Id
      BY <1>0, <1>1, <2>0, <2>5, WriteBase DEF SameGap
    <3>2. r.title # None
      BY <1>0, <1>1, <2>5, <3>1, WriteBase DEF SameGap
    <3>L. CASE c.op = "plan"
      BY <1>0, <3>1, <3>L DEF Writes
    <3> SUFFICES ASSUME c.op # "plan"
                 PROVE  "worked" \in past'[j] \/ {"repeated", "stale", "listed"} \cap (past'[j] \cup past'[k]) # {}
      BY <3>L
    <3>3. /\ c.at = "fill" /\ c.op = "finish" /\ i = c.id
          /\ r.title = c.copy.title /\ r.parent = c.parent
          /\ m \in c.touched => "repeated" \in past'[i]
      BY <2>5, <3>1, <3>2 DEF Blank, Sound
    <3>4. ticket[m].status = "todo" => m \in c.touched
      BY <3>1, <3>3 DEF CommandOK, Unfiled, Missing, SameGap
    <3>5. i < m => m \in c.touched
      BY <3>1, <3>3 DEF CommandOK, Unfiled, Id
    <3>6. m \notin c.touched => "worked" \in past'[m] /\ m = j
      BY <1>0, <1>1, <2>0, <2>M, <3>1, <3>4, <3>5 DEF StatusOK
    <3> QED
      BY <3>1, <3>3, <3>6
  <2> QED
    BY <2>2, <2>3, <2>4, <2>5 DEF Sound
<1> QED
  BY <1>1 DEF GapsOK, SameGap

(* A sound write keeps children and parents linked.                        *)
LEMMA WriteLinked ==
  ASSUME TypeOK, FilesOK, NEW c \in Command, CommandOK(c), NEW i \in Id, NEW r \in File,
         Sound(c, i, r)
  PROVE  LinksOK'
<1>0. Writes(c, i, r) /\ LinksOK /\ ticket \in FileType /\ archive \in FileType
      /\ past \in PastType
  BY TypeFacts DEF Sound, FilesOK
<1>B. /\ ticket'[i] = r /\ i \in Live' /\ archive' = archive
      /\ \A j \in Id \ {i} : ticket'[j] = ticket[j] /\ (j \in Live' <=> j \in Live)
      /\ \A j \in Id : "stale" \in past[j] => "stale" \in past'[j]
      /\ i \in c.touched => "stale" \in past'[i]
  BY <1>0, WriteBase
<1>F. \A j \in Id \ {i} : Filed(j)' = Filed(j)
  BY <1>B DEF Filed
<1>K. ASSUME NEW j \in Id, NEW p \in Id \cup {None}, Listed(j, p),
             p = i /\ i \notin c.touched /\ j \in ticket[i].children => j \in r.children
      PROVE  Listed(j, p)'
  <2>1. CASE p = i /\ i \in c.touched
    BY <1>B, <2>1, NoneAssumption DEF Listed
  <2>2. CASE p = i /\ i \notin c.touched
    BY <1>B, <1>K, <2>2, NoneAssumption DEF Listed
  <2>3. CASE p # i
    <3>1. p \in Live' <=> p \in Live
      BY <1>B, <2>3, NoneAssumption DEF Live
    <3>2. p \in Live => ticket'[p] = ticket[p]
      BY <1>B, <2>3 DEF Live
    <3> QED
      BY <1>B, <1>K, <3>1, <3>2 DEF Listed
  <2> QED
    BY <2>1, <2>2, <2>3
<1>1. ASSUME NEW j \in Id, "linked" \in past'[j], "stale" \notin past'[j],
             NEW p \in Id \cup {None}
      PROVE  Filed(j)' # None /\ (p = Filed(j)'.parent => Listed(j, p)')
  <2>0. "stale" \notin past[j]
    BY <1>1, <1>B
  <2>1. CASE "linked" \in past[j] /\ j # i
    <3>1. Filed(j) # None /\ (p = Filed(j).parent => Listed(j, p))
      BY <1>0, <2>0, <2>1 DEF LinksOK
    <3>3. i \notin c.touched /\ j \in ticket[i].children => j \in r.children
      BY DEF Sound, Same, Blank
    <3>4. p = Filed(j).parent => Listed(j, p)'
      BY <1>K, <3>1, <3>3
    <3> QED
      BY <1>F, <2>1, <3>1, <3>4
  <2>2. CASE "linked" \in past[j] /\ j = i
    <3>1. i \notin c.touched
      BY <1>B, <1>1, <2>2
    <3>2. Same(i, r)
      BY <2>2, <3>1 DEF Sound, Blank
    <3>3. Filed(i) = ticket[i] /\ Filed(i)' = r /\ r # None
      BY <1>B, <3>2, FileFields DEF Same, Filed, Live
    <3>4. p = ticket[i].parent => Listed(i, p)
      BY <1>0, <2>0, <2>2, <3>3 DEF LinksOK
    <3>5. p = ticket[i].parent => Listed(i, p)'
      BY <1>K, <3>2, <3>4 DEF Same
    <3> QED
      BY <2>2, <3>2, <3>3, <3>5 DEF Same
  <2>3. CASE "linked" \notin past[j]
    <3>1. c.at = "link" /\ j = c.id /\ j # i /\ i = c.parent /\ j \in r.children
      BY <1>0, <1>1, <2>3 DEF Writes, Sound
    <3>2. Filed(j) # None /\ Filed(j).parent = i
      BY <2>0, <3>1 DEF CommandOK, Linkable
    <3>3. Listed(j, i)'
      BY <1>B, <3>1 DEF Listed
    <3> QED
      BY <1>F, <3>1, <3>2, <3>3
  <2> QED
    BY <2>1, <2>2, <2>3
<1>2. \A j \in Id : "linked" \in past'[j] /\ "stale" \notin past'[j] => Filed(j)' # None
  BY <1>1, NoneAssumption
<1> QED
  BY <1>1, <1>2 DEF LinksOK

(* The tickets WithinLimits counts, and those of them in a lane.           *)
Counted == {i \in Active : {"extra", "stale"} \cap past[i] = {}}
CountedIn(lane) == {i \in Counted : LaneOf[ticket[i].type] = lane}

LimitsKept ==
  /\ Cardinality(Counted) <= Limit
  /\ \A lane \in Lane : Cardinality(CountedIn(lane)) <= LaneLimit[lane]

(* WithinLimits, said of the counted tickets of each type.                 *)
LEMMA CountedLimits ==
  WithinLimits <=> LimitsKept
BY DEF LimitsKept, WithinLimits, Counted, CountedIn

(* Counting fewer tickets of each type keeps the limits.                   *)
LEMMA FewerCounted ==
  ASSUME TypeOK, WithinLimits, Counted' \subseteq Counted,
         \A i \in Counted' : ticket'[i].type = ticket[i].type
  PROVE  WithinLimits'
<1>1. Counted \in SUBSET Id /\ \A lane : CountedIn(lane) \in SUBSET Id
  BY DEF Counted, CountedIn, Active, Live
<1>2. \A lane \in Lane : CountedIn(lane)' \subseteq CountedIn(lane)
  BY DEF CountedIn
<1>3. /\ Cardinality(Counted') <= Cardinality(Counted)
      /\ Cardinality(Counted) \in Nat /\ Cardinality(Counted') \in Nat
  BY <1>1, SmallerSet, IdFinite
<1>4. Cardinality(Counted') <= Limit
  BY <1>3, CountedLimits, ConstantsAssumption DEF LimitsKept
<1>5. ASSUME NEW lane \in Lane
      PROVE  Cardinality(CountedIn(lane)') <= LaneLimit[lane]
  <2>1. /\ Cardinality(CountedIn(lane)') <= Cardinality(CountedIn(lane))
        /\ Cardinality(CountedIn(lane)) \in Nat /\ Cardinality(CountedIn(lane)') \in Nat
    BY <1>1, <1>2, SmallerSet, IdFinite
  <2>2. Cardinality(CountedIn(lane)) <= LaneLimit[lane] /\ LaneLimit[lane] \in Nat
    BY CountedLimits, ConstantsAssumption DEF LimitsKept
  <2> QED
    BY <2>1, <2>2
<1>6. LimitsKept'
  BY <1>4, <1>5 DEF LimitsKept
<1> QED
  BY <1>6, CountedLimits, PTL
(* A set below a limit may grow by one member.                             *)
LEMMA OneMore ==
  ASSUME NEW S \in SUBSET Id, NEW i \in Id, NEW T \in SUBSET (S \cup {i}),
         NEW n \in Nat, Cardinality(S) < n
  PROVE  Cardinality(T) <= n
<1>1. IsFiniteSet(S) /\ S \cup {i} \in SUBSET Id /\ Cardinality(S) \in Nat
  BY IdFinite
<1>2. Cardinality(S \cup {i}) \in {Cardinality(S), Cardinality(S) + 1}
  BY <1>1, FS_AddElement
<1>3. Cardinality(T) <= Cardinality(S \cup {i}) /\ Cardinality(T) \in Nat
  BY <1>1, SmallerSet, IdFinite
<1> QED
  BY <1>1, <1>2, <1>3

(* A sound write keeps the limits.                                         *)
LEMMA WriteLimits ==
  ASSUME TypeOK, FilesOK, NEW c \in Command, CommandOK(c), NEW i \in Id, NEW r \in File,
         Sound(c, i, r)
  PROVE  WithinLimits'
<1>0. /\ Writes(c, i, r) /\ WithinLimits /\ past \in PastType
      /\ ticket \in FileType /\ ticket' \in FileType
  BY TypeFacts, WriteBase DEF Sound, FilesOK
<1>1. ASSUME NEW j \in Counted', j # i
      PROVE  j \in Counted /\ ticket'[j] = ticket[j] /\ j \in Id
  <2>1. j \in Live' /\ j \in Id /\ j # i
    BY <1>1 DEF Counted, Active, Live
  <2>2. j \in Live /\ ticket'[j] = ticket[j] /\ past[j] \ {"given"} \subseteq past'[j]
    BY <1>0, <2>1, WriteBase
  <2> QED
    BY <1>1, <2>1, <2>2 DEF Counted, Active
<1>2. CASE i \notin Counted'
  BY <1>0, <1>1, <1>2, FewerCounted
<1>3. CASE i \in Counted'
  <2>1. i \notin c.touched /\ r.status = "active" /\ "extra" \notin past'[i]
    BY <1>0, <1>3, WriteBase DEF Counted, Active
  <2>2. Same(i, r)
    <3>1. CASE Blank(c, i, r)
      BY <1>0, <2>1, <3>1 DEF Sound, Blank, Writes, Active
    <3> QED
      BY <2>1, <3>1 DEF Sound
  <2>3. CASE i \in Active
    <3>1. i \in Counted
      BY <1>0, <1>3, <2>3, WriteBase DEF Counted
    <3>2. ticket'[i].type = ticket[i].type
      BY <1>0, <2>2, WriteBase DEF Same
    <3> QED
      BY <1>0, <1>1, <3>1, <3>2, FewerCounted
  <2>4. CASE i \notin Active
    <3>1. c.op = "next" /\ Active \cap c.touched = {}
      BY <1>0, <2>1, <2>4 DEF Writes
    <3>2. Untouched(c) = Active /\ r.type = c.copy.type
      BY <3>1 DEF Untouched, Sound
    <3>3. Active \in SUBSET Id /\ Counted \subseteq Active
      BY DEF Active, Live, Counted
    <3>4. Counted' \in SUBSET (Active \cup {i})
      BY <1>1, <3>3
    <3>5. Cardinality(Active) < Limit
      BY <3>1, <3>2 DEF CommandOK, Room
    <3>6. Cardinality(Counted') <= Limit
      BY <3>3, <3>4, <3>5, OneMore, ConstantsAssumption
    <3>7. ASSUME NEW lane \in Lane
          PROVE  Cardinality(CountedIn(lane)') <= LaneLimit[lane]
      <4>0. LaneLimit[lane] \in Nat /\ lane # None
        BY ConstantsAssumption, NoneAssumption
      <4>T. ticket'[i].type = c.copy.type
        BY <1>0, <3>2, WriteBase
      <4>1. CASE LaneOf[c.copy.type] = lane
        <5> DEFINE L == {j \in Active : LaneOf[ticket[j].type] = lane}
        <5>1. Cardinality(L) < LaneLimit[lane]
          BY <3>1, <3>2, <4>0, <4>1 DEF CommandOK, Room
        <5>2. L \in SUBSET Id /\ CountedIn(lane)' \in SUBSET (L \cup {i})
          BY <1>1, <3>3 DEF CountedIn
        <5> HIDE DEF L
        <5> QED
          BY <4>0, <5>1, <5>2, OneMore
      <4>2. CASE LaneOf[c.copy.type] # lane
        <5>1. CountedIn(lane)' \subseteq CountedIn(lane)
          BY <1>1, <4>2, <4>T DEF CountedIn
        <5>2. CountedIn(lane) \in SUBSET Id
          BY <3>3 DEF CountedIn
        <5>3. Cardinality(CountedIn(lane)') <= Cardinality(CountedIn(lane))
              /\ Cardinality(CountedIn(lane)) \in Nat /\ Cardinality(CountedIn(lane)') \in Nat
          BY <5>1, <5>2, SmallerSet, IdFinite
        <5>4. Cardinality(CountedIn(lane)) <= LaneLimit[lane]
          BY <1>0, CountedLimits DEF LimitsKept
        <5> QED
          BY <4>0, <5>3, <5>4
      <4> QED
        BY <4>1, <4>2
    <3>8. LimitsKept'
      BY <3>6, <3>7 DEF LimitsKept
    <3> QED
      BY <3>8, CountedLimits, PTL
  <2> QED
    BY <2>3, <2>4
<1> QED
  BY <1>2, <1>3

(* A sound write keeps all that is known of the files.                     *)
LEMMA WriteFiles ==
  ASSUME TypeOK, FilesOK, NEW c \in Command, CommandOK(c), NEW i \in Id, NEW r \in File,
         Sound(c, i, r), i <= drawn
  PROVE  FilesOK'
<1>1. Undrawn'
  <2>1. ASSUME NEW j \in Id, j > drawn'
        PROVE  ticket'[j] = None /\ archive'[j] = None /\ past'[j] = {}
    <3>1. j > drawn /\ j # i /\ (c.at = "link" => j # c.id)
      BY <2>1, CommandFields DEF Sound, Writes, CommandOK, Shape, Id, TypeOK
    <3>2. ticket'[j] = ticket[j] /\ archive' = archive /\ past'[j] = past[j]
      BY <3>1, WriteBase DEF Sound, Writes
    <3> QED
      BY <3>1, <3>2 DEF FilesOK, Undrawn
  <2> QED
    BY <2>1 DEF Undrawn
<1> QED
  BY <1>1, WriteStatus, WriteGiven, WriteBlockers, WriteGaps, WriteLinked, WriteLimits
     DEF FilesOK

-----------------------------------------------------------------------------
(* The other changes to the files: a first file for a new id, and a move   *)
(* to the archive.                                                         *)
Draws(i, r, ms) ==
  /\ i = drawn + 1 /\ i \in Id /\ drawn' = i
  /\ ticket' = [ticket EXCEPT ![i] = r]
  /\ archive' = archive /\ past' = [past EXCEPT ![i] = ms]
  /\ ms \in SUBSET {"listed", "worked", "extra"}
  /\ r.status # "todo" => "worked" \in ms
  /\ r.status = "active" => "extra" \in ms
  /\ r.title # None => "listed" \in ms

Moves(i) ==
  /\ i \in Live
  /\ archive' = [archive EXCEPT ![i] = ticket[i]]
  /\ ticket' = [ticket EXCEPT ![i] = None]
  /\ UNCHANGED <<drawn, past>>

(* A new ticket is one new file, and changes no other.                     *)
LEMMA DrawBase ==
  ASSUME TypeOK, FilesOK, NEW i \in Id, NEW r \in File, NEW ms, Draws(i, r, ms)
  PROVE  /\ ticket' \in FileType /\ ticket'[i] = r /\ r # None
         /\ past' \in PastType /\ past'[i] = ms /\ past[i] = {}
         /\ \A j \in Id \ {i} : /\ ticket'[j] = ticket[j] /\ past'[j] = past[j]
                                /\ j \in Live' <=> j \in Live
         /\ i \in Live' /\ i \notin Live /\ archive[i] = None
         /\ i > drawn /\ Live' \subseteq Id
<1>1. ticket \in FileType /\ drawn \in Nat /\ drawn \in Id /\ past \in PastType
  BY TypeFacts DEF Id
<1>2. i > drawn
  BY <1>1 DEF Draws
<1>3. r # None
  BY FileFields
<1>4. /\ ticket' \in FileType /\ ticket'[i] = r
      /\ \A j \in Id \ {i} : ticket'[j] = ticket[j]
  BY <1>1, <1>3 DEF Draws, FileType
<1>5. /\ past' \in PastType /\ past'[i] = ms
      /\ \A j \in Id \ {i} : past'[j] = past[j]
  BY <1>1 DEF Draws, PastType, Mark
<1> QED
  BY <1>2, <1>3, <1>4, <1>5 DEF Live, FilesOK, Undrawn

(* A new ticket keeps all that is known of the files.                      *)
LEMMA DrawFiles ==
  ASSUME TypeOK, FilesOK, NEW i \in Id, NEW r \in File, NEW ms, Draws(i, r, ms)
  PROVE  FilesOK'
<1>0. /\ Undrawn /\ StatusOK /\ GapsOK /\ GivenOnce /\ WithinLimits /\ BlockersFirst /\ LinksOK
      /\ archive' = archive /\ drawn' = i /\ drawn \in Id
      /\ {"given", "regiven", "linked"} \cap ms = {}
  BY TypeFacts DEF FilesOK, Draws
<1>M. past'[i] = ms
  BY DrawBase
<1>P. /\ r.status # "todo" => "worked" \in past'[i]
      /\ r.status = "active" => "extra" \in past'[i]
      /\ r.title # None => "listed" \in past'[i]
  BY <1>M DEF Draws
<1>L. \A j \in Live' : j \in Id /\ (j # i => j \in Live /\ ticket'[j] = ticket[j] /\ past'[j] = past[j])
  BY DrawBase
<1>1. Undrawn'
  BY <1>0, DrawBase DEF Undrawn, Id
<1>2. StatusOK'
  BY <1>0, <1>P, <1>L, DrawBase DEF StatusOK
<1>3. GapsOK'
  <2>1. ASSUME NEW j \in Live', NEW k \in Live', j < k, ticket'[j].title # None,
               ticket'[j].parent = ticket'[k].parent, ticket'[j].title = ticket'[k].title
        PROVE  "worked" \in past'[j] \/ {"repeated", "stale", "listed"} \cap (past'[j] \cup past'[k]) # {}
    <3>1. CASE j = i \/ k = i
      BY <1>P, <2>1, <3>1, DrawBase
    <3>2. CASE j # i /\ k # i
      BY <1>0, <1>L, <2>1, <3>2 DEF GapsOK, SameGap
    <3> QED
      BY <3>1, <3>2
  <2> QED
    BY <2>1 DEF GapsOK, SameGap
<1>4. GivenOnce'
  BY <1>0, DrawBase DEF GivenOnce
<1>5. WithinLimits'
  <2>1. \A j \in Counted' : j \in Counted /\ ticket'[j] = ticket[j]
    BY <1>0, <1>P, <1>L, DrawBase DEF Counted, Active
  <2> QED
    BY <1>0, <2>1, FewerCounted
<1>6. BlockersFirst'
  <2>1. \A b \in Id : Unblocked(b) => Unblocked(b)'
    BY <1>0, DrawBase DEF Unblocked, Finished, Live
  <2>2. \A j \in Live' : "given" \in past'[j] => j # i /\ j \in Live /\ ticket'[j] = ticket[j]
                                                 /\ ticket[j].blockers \subseteq Id
    BY <1>0, DrawBase, TypeFacts, FileFields DEF FileType, Live
  <2> QED
    BY <1>0, <1>L, <2>1, <2>2 DEF BlockersFirst, Unblocked
<1>7. LinksOK'
  <2>1. ASSUME NEW j \in Id, NEW p \in Id \cup {None}, j # i, Listed(j, p)
        PROVE  Listed(j, p)'
    <3>1. CASE p = i
      BY <1>0, <2>1, <3>1, DrawBase DEF Listed
    <3>2. CASE p # i
      <4>1. (p \in Live' <=> p \in Live) /\ (p \in Live => ticket'[p] = ticket[p])
            /\ (p # None => past'[p] = past[p])
        BY <3>2, DrawBase, NoneAssumption DEF Live
      <4> QED
        BY <1>0, <2>1, <4>1, DrawBase DEF Listed
    <3> QED
      BY <3>1, <3>2
  <2>2. \A j \in Id : "linked" \in past'[j] => /\ j # i /\ Filed(j)' = Filed(j)
                                              /\ past'[j] = past[j]
    BY <1>0, DrawBase DEF Filed
  <2> QED
    BY <1>0, <2>1, <2>2 DEF LinksOK
<1> QED
  BY <1>1, <1>2, <1>3, <1>4, <1>5, <1>6, <1>7 DEF FilesOK

(* Archiving moves one file and changes nothing of it.                     *)
LEMMA MoveBase ==
  ASSUME TypeOK, NEW i \in Id, Moves(i)
  PROVE  /\ ticket' \in FileType /\ archive' \in FileType
         /\ ticket'[i] = None /\ archive'[i] = ticket[i] /\ ticket[i] # None
         /\ \A j \in Id \ {i} : /\ ticket'[j] = ticket[j] /\ archive'[j] = archive[j]
                                /\ j \in Live' <=> j \in Live
         /\ i \notin Live' /\ Live' \subseteq Live
<1>1. ticket \in FileType /\ archive \in FileType /\ ticket[i] \in File
  BY TypeFacts DEF Moves, Live, FileType
<1>2. /\ ticket' \in FileType /\ archive' \in FileType
      /\ ticket'[i] = None /\ archive'[i] = ticket[i] /\ ticket[i] # None
      /\ \A j \in Id \ {i} : ticket'[j] = ticket[j] /\ archive'[j] = archive[j]
  BY <1>1 DEF Moves, FileType, Live
<1> QED
  BY <1>2 DEF Live

(* Archiving keeps all that is known of the files.                         *)
LEMMA MoveFiles ==
  ASSUME TypeOK, FilesOK, NEW i \in Id, Moves(i)
  PROVE  FilesOK'
<1>0. /\ Undrawn /\ StatusOK /\ GapsOK /\ GivenOnce /\ WithinLimits /\ BlockersFirst /\ LinksOK
      /\ past' = past /\ drawn' = drawn /\ drawn \in Id /\ i \in Live
  BY TypeFacts DEF FilesOK, Moves
<1>L. \A j \in Live' : j \in Live /\ j # i /\ ticket'[j] = ticket[j] /\ archive'[j] = archive[j]
  BY MoveBase DEF Live
<1>1. Undrawn'
  BY <1>0, MoveBase DEF Undrawn, Live
<1>2. StatusOK'
  BY <1>0, <1>L DEF StatusOK
<1>3. GapsOK'
  BY <1>0, <1>L DEF GapsOK, SameGap
<1>4. GivenOnce'
  BY <1>0 DEF GivenOnce
<1>5. WithinLimits'
  <2>1. \A j \in Counted' : j \in Counted /\ ticket'[j] = ticket[j]
    BY <1>0, <1>L DEF Counted, Active
  <2> QED
    BY <1>0, <2>1, FewerCounted
<1>6. BlockersFirst'
  <2>1. \A b \in Id : Finished(b) => Finished(b)'
    BY <1>0, MoveBase DEF Finished, Live
  <2>2. \A j \in Live' : ticket[j].blockers \subseteq Id
    BY <1>L, TypeFacts, FileFields DEF FileType, Live
  <2> QED
    BY <1>0, <1>L, <2>1, <2>2 DEF BlockersFirst
<1>7. LinksOK'
  <2>1. ASSUME NEW j \in Id, NEW p \in Id \cup {None}, Listed(j, p)
        PROVE  Listed(j, p)'
    <3>1. CASE p = i
      BY <1>0, <2>1, <3>1, MoveBase, NoneAssumption DEF Listed, StatusOK
    <3>2. CASE p # i
      <4>1. /\ p \in Live' <=> p \in Live
            /\ p # None => ticket'[p] = ticket[p] /\ archive'[p] = archive[p]
        BY <3>2, MoveBase, NoneAssumption DEF Live
      <4> QED
        BY <1>0, <2>1, <4>1, NoneAssumption DEF Listed, Live
    <3> QED
      BY <3>1, <3>2
  <2>2. \A j \in Id : Filed(j)' = Filed(j)
    BY <1>0, MoveBase DEF Filed
  <2> QED
    BY <1>0, <2>1, <2>2 DEF LinksOK
<1> QED
  BY <1>1, <1>2, <1>3, <1>4, <1>5, <1>6, <1>7 DEF FilesOK

-----------------------------------------------------------------------------
(* A change to the file of i keeps what holds of the commands that others  *)
(* are running, once i counts as touched for them.                         *)
HasParent(j, p) == "stale" \in past[j] \/ (Filed(j) # None /\ Filed(j).parent = p)

Changes(i) ==
  /\ drawn' \in Id /\ drawn <= drawn'
  /\ \A j \in Id \ {i} :
       /\ ticket'[j] = ticket[j] /\ (j \in Live' <=> j \in Live)
       /\ "given" \in past'[j] => "given" \in past[j]
  /\ \A j \in Id : Unblocked(j) => Unblocked(j)'
  /\ \A j \in Id \ {i}, p \in Id \cup {None} : HasParent(j, p) => HasParent(j, p)'

(* What a command knows of its copies survives another's change.           *)
LEMMA OlderCommand ==
  ASSUME TypeOK, NEW i \in Id, Changes(i), NEW c \in Command, CommandOK(c),
         c.at = "fill" /\ c.id # i /\ "linked" \in past'[c.id] => "linked" \in past[c.id],
         c.at = "link" /\ c.id = i /\ HasParent(i, c.parent) => HasParent(i, c.parent)'
  PROVE  CommandOK(Older(c, i))'
<1> DEFINE d == Older(c, i)
<1>1. /\ d \in Command /\ d.touched = c.touched \cup {i}
      /\ d.op = c.op /\ d.at = c.at /\ d.id = c.id /\ d.copy = c.copy
      /\ d.parent = c.parent /\ d.parentcopy = c.parentcopy /\ d.gaps = c.gaps
  BY OlderFields
<1>2. /\ c.id \in Id /\ c.parent \in Id \cup {None} /\ c.copy \in File
      /\ c.touched \subseteq Id /\ c.parentcopy \in File \cup {None}
  BY CommandFields
<1>3. /\ \A j \in Id \ {i} : ticket'[j] = ticket[j] /\ (j \in Live' <=> j \in Live)
      /\ \A j \in Id \ {i} : "given" \in past'[j] => "given" \in past[j]
  BY DEF Changes
<1>4. \A j \in Live' : j \in Id
  BY DEF Live
<1> HIDE DEF d
<1>5. Shape(d)'
  <2>1. c.id <= drawn' /\ (c.parent # None => c.parent <= drawn')
    BY <1>2 DEF CommandOK, Shape, Changes, Id, TypeOK
  <2> QED
    BY <1>1, <2>1 DEF CommandOK, Shape
<1>6. Fresh(d)'
  <2>1. c.at \in {"claim", "start", "store", "rename"} /\ c.id \notin d.touched =>
          ticket'[c.id] = c.copy
    BY <1>1, <1>2, <1>3 DEF CommandOK, Fresh
  <2>2. c.op = "create" /\ c.parent # None /\ c.parent \notin d.touched =>
          ticket'[c.parent] = c.parentcopy
    BY <1>1, <1>2, <1>3 DEF CommandOK, Fresh
  <2>3. c.at = "fill" /\ c.id \notin d.touched =>
          /\ ticket'[c.id] # None /\ ticket'[c.id].title = None
          /\ ticket'[c.id].status = "todo" /\ ticket'[c.id].children = {}
          /\ {"given", "linked"} \cap past'[c.id] = {}
    BY <1>1, <1>2, <1>3 DEF CommandOK, Fresh
  <2> QED
    BY <1>1, <2>1, <2>2, <2>3 DEF Fresh
<1>7. Room(d)'
  <2> SUFFICES ASSUME c.op = "next" PROVE Room(d)'
    BY <1>1 DEF Room
  <2>1. Untouched(d)' \subseteq Untouched(c) /\ \A j \in Untouched(d)' : ticket'[j] = ticket[j]
    BY <1>1, <1>3, <1>4 DEF Untouched, Active
  <2>2. Untouched(c) \in SUBSET Id
    BY DEF Untouched, Active, Live
  <2>3. /\ Cardinality(Untouched(d)') <= Cardinality(Untouched(c))
        /\ Cardinality(Untouched(c)) \in Nat /\ Cardinality(Untouched(d)') \in Nat
    BY <2>1, <2>2, SmallerSet, IdFinite
  <2>4. Cardinality(Untouched(d)') < Limit
    BY <2>3, ConstantsAssumption DEF CommandOK, Room
  <2>5. ASSUME LaneOf[c.copy.type] # None
        PROVE  Cardinality({j \in Untouched(d)' : LaneOf[ticket'[j].type] = LaneOf[c.copy.type]})
                 < LaneLimit[LaneOf[c.copy.type]]
    <3> DEFINE L == {j \in Untouched(c) : LaneOf[ticket[j].type] = LaneOf[c.copy.type]}
               M == {j \in Untouched(d)' : LaneOf[ticket'[j].type] = LaneOf[c.copy.type]}
    <3>1. Cardinality(L) < LaneLimit[LaneOf[c.copy.type]]
      BY <2>5 DEF CommandOK, Room
    <3>2. L \in SUBSET Id /\ M \subseteq L
      BY <2>1, <2>2
    <3>3. LaneLimit[LaneOf[c.copy.type]] \in Nat
      BY <1>2, <2>5, FileFields, ConstantsAssumption
    <3> HIDE DEF L, M
    <3>4. Cardinality(M) <= Cardinality(L) /\ Cardinality(L) \in Nat /\ Cardinality(M) \in Nat
      BY <3>2, SmallerSet, IdFinite
    <3>5. Cardinality(M) < LaneLimit[LaneOf[c.copy.type]]
      BY <3>1, <3>3, <3>4
    <3> QED
      BY <3>5 DEF M
  <2> QED
    BY <1>1, <2>4, <2>5 DEF CommandOK, Room
<1>8. Ready(d)'
  <2>1. c.copy.blockers \subseteq Id
    BY <1>2, FileFields
  <2> QED
    BY <1>1, <2>1 DEF CommandOK, Ready, Changes
<1>9. Unfiled(d)'
  <2>1. \A g : Missing(c, g) => Missing(d, g)'
    BY <1>1, <1>3, <1>4 DEF Missing
  <2>2. (\A j \in Live : j > c.id => j \in c.touched)
          => \A j \in Live' : j > c.id => j \in d.touched
    BY <1>1, <1>3, <1>4
  <2> QED
    BY <1>1, <2>1, <2>2 DEF CommandOK, Unfiled
<1>10. Linkable(d)'
  <2>1. c.at = "link" => HasParent(c.id, c.parent)
    BY DEF CommandOK, Linkable, HasParent
  <2>2. c.at = "link" => HasParent(c.id, c.parent)'
    BY <1>2, <2>1 DEF Changes
  <2> QED
    BY <1>1, <2>2 DEF Linkable, HasParent
<1> QED
  BY <1>5, <1>6, <1>7, <1>8, <1>9, <1>10 DEF CommandOK, d

(* A sound write is a change of one ticket.                                *)
LEMMA WriteChanges ==
  ASSUME TypeOK, FilesOK, NEW c \in Command, CommandOK(c), NEW i \in Id, NEW r \in File,
         Sound(c, i, r)
  PROVE  /\ Changes(i)
         /\ ~Blank(c, i, r) =>
              \A p \in Id \cup {None} : HasParent(i, p) => HasParent(i, p)'
<1>0. Writes(c, i, r) /\ drawn' = drawn /\ drawn \in Id
  BY TypeFacts DEF Sound, Writes
<1>1. ASSUME NEW j \in Id, NEW p \in Id \cup {None}, HasParent(j, p),
             j # i \/ ~Blank(c, i, r)
      PROVE  HasParent(j, p)'
  <2>1. CASE j # i
    <3>1. Filed(j)' = Filed(j)
      BY <1>0, <2>1, WriteBase DEF Filed
    <3> QED
      BY <1>0, <1>1, <3>1, WriteBase DEF HasParent
  <2>2. CASE j = i /\ i \in c.touched
    BY <1>0, <2>2, WriteBase DEF HasParent
  <2>3. CASE j = i /\ i \notin c.touched /\ Same(i, r)
    <3>1. Filed(i) = ticket[i] /\ Filed(i)' = r /\ r # None
      BY <1>0, <2>3, WriteBase, FileFields DEF Same, Filed, Live
    <3> QED
      BY <1>0, <1>1, <2>3, <3>1, WriteBase DEF HasParent, Same
  <2> QED
    BY <1>1, <2>1, <2>2, <2>3 DEF Sound
<1> QED
  BY <1>0, <1>1, WriteBase, WriteUnblocked DEF Changes, Id

(* A new ticket is a change of one ticket.                                 *)
LEMMA DrawChanges ==
  ASSUME TypeOK, FilesOK, NEW i \in Id, NEW r \in File, NEW ms, Draws(i, r, ms)
  PROVE  Changes(i)
<1>0. archive' = archive /\ drawn' = i /\ drawn \in Id /\ drawn <= drawn'
  BY TypeFacts, DrawBase DEF Draws, Id
<1>1. \A j \in Id \ {i} : Filed(j)' = Filed(j)
  BY <1>0, DrawBase DEF Filed
<1>2. \A b \in Id : Unblocked(b) => Unblocked(b)'
  BY <1>0, DrawBase DEF Unblocked, Finished, Live
<1> QED
  BY <1>0, <1>1, <1>2, DrawBase DEF Changes, HasParent

(* An archiving is a change of one ticket.                                 *)
LEMMA MoveChanges ==
  ASSUME TypeOK, FilesOK, NEW i \in Id, Moves(i)
  PROVE  /\ Changes(i)
         /\ \A p \in Id \cup {None} : HasParent(i, p) => HasParent(i, p)'
<1>0. past' = past /\ drawn' = drawn /\ drawn \in Id
  BY TypeFacts DEF Moves
<1>1. \A j \in Id : Filed(j)' = Filed(j)
  BY <1>0, MoveBase DEF Filed, Moves
<1>2. \A b \in Id : Unblocked(b) => Unblocked(b)'
  BY <1>0, MoveBase DEF Unblocked, Finished
<1> QED
  BY <1>0, <1>1, <1>2, MoveBase DEF Changes, HasParent, Id

(* A command whose files did not change keeps what holds of it.            *)
LEMMA SameCommand ==
  ASSUME NEW c, CommandOK(c), UNCHANGED <<ticket, archive, past, drawn>>
  PROVE  CommandOK(c)'
BY DEF CommandOK, Shape, Fresh, Room, Untouched, Active, Live, Ready, Unblocked, Finished,
       Unfiled, Missing, Linkable, Filed

(* What is known of the files stays while they do.                         *)
LEMMA SameFiles ==
  ASSUME FilesOK, UNCHANGED <<ticket, archive, past, drawn>>
  PROVE  FilesOK'
BY DEF FilesOK, Undrawn, StatusOK, GapsOK, SameGap, GivenOnce, WithinLimits, Active, Live,
       BlockersFirst, Finished, LinksOK, Listed, Filed

-----------------------------------------------------------------------------
(* The steps.  A quiet one changes the command of its actor only.          *)
RunsOK(b) == cmd[b] # None => CommandOK(cmd[b])
CommandsOK == \A b \in Actor : RunsOK(b)

Inv ==
  TypeOK /\ CommandsOK /\ FilesOK /\ Distinct

(* The inductive invariant, part by part.                                  *)
LEMMA InvFacts ==
  TicketsInv <=> Inv
BY DEF TicketsInv, Inv, CommandsOK, RunsOK

(* What is to be shown of a command after a step.                          *)
LEMMA RunsAs ==
  ASSUME NEW b \in Actor, NEW c, c = cmd'[b], c # None => CommandOK(c)'
  PROVE  RunsOK(b)'
<1> SUFFICES ASSUME c # None PROVE (CommandOK(cmd[b]))'
  BY DEF RunsOK
<1>1. CommandOK(c)'
  OBVIOUS
<1> QED
  BY <1>1 DEF CommandOK, Shape, Fresh, Room, Untouched, Active, Live, Ready, Unblocked, Finished,
       Unfiled, Missing, Linkable, Filed

(* A step that changes no file keeps the invariant.                        *)
LEMMA QuietKeeps ==
  ASSUME Inv, TypeOK', NEW a \in Actor, UNCHANGED <<ticket, archive, past, drawn>>,
         \A b \in Actor \ {a} : cmd'[b] = cmd[b],
         NEW next, next = cmd'[a], next # None => CommandOK(next)',
         Creates(a)' => Creates(a) /\ next.id = cmd[a].id
  PROVE  Inv'
<1>1. ASSUME NEW b \in Actor, b # a
      PROVE  RunsOK(b)'
  <2>1. PICK c : c = cmd[b] /\ c = cmd'[b]
    BY <1>1
  <2>2. c # None => CommandOK(c)'
    BY <2>1, SameCommand DEF Inv, CommandsOK, RunsOK
  <2> QED
    BY <2>1, <2>2, RunsAs
<1>2. RunsOK(a)'
  BY RunsAs
<1>3. Distinct'
  BY DEF Inv, Distinct, Creates
<1> QED
  BY <1>1, <1>2, <1>3, SameFiles DEF Inv, CommandsOK

(* The variables whose types the rest of a step settles.                   *)
Rest ==
  /\ lock \in [ticket: Id, owner: Actor] \cup {None}
  /\ mine \in [Actor -> Id \cup {None}]
  /\ made \in [Id -> Origin \cup {None}]
  /\ commands \in 0 .. MaxCommands

(* The type invariant, the variables most steps leave alone apart.         *)
LEMMA RestFacts ==
  TypeOK <=> Rest /\ /\ ticket \in FileType /\ archive \in FileType
                     /\ drawn \in Id /\ cmd \in CmdType /\ past \in PastType
BY TypeFacts DEF Rest

(* The types after a step.                                                 *)
LEMMA TypesNext ==
  ASSUME Rest', ticket' \in FileType, archive' \in FileType, drawn' \in Id, cmd' \in CmdType,
         past' \in PastType
  PROVE  TypeOK'
BY DEF Rest, TypeOK, FileType, CmdType, PastType

(* A change to the file of i keeps the invariant if what its actor does    *)
(* next is sound.                                                          *)
LEMMA ChangeKeeps ==
  ASSUME Inv, TypeOK', FilesOK', NEW a \in Actor, NEW i \in Id, Changes(i),
         NEW next \in Command \cup {None}, Touch(a, i, next),
         next # None => CommandOK(next)',
         \A b \in Actor \ {a} : cmd[b] # None =>
           /\ cmd[b].at = "fill" /\ cmd[b].id # i /\ "linked" \in past'[cmd[b].id] =>
                "linked" \in past[cmd[b].id]
           /\ cmd[b].at = "link" /\ cmd[b].id = i => 
                \A p \in Id \cup {None} : HasParent(i, p) => HasParent(i, p)',
         next # None /\ next.at \in {"fill", "link"} =>
           (Creates(a) /\ next.id = cmd[a].id) \/ next.id > drawn
  PROVE  Inv'
<1>0. TypeOK /\ CommandsOK /\ Distinct
  BY DEF Inv
<1>T. /\ cmd'[a] = next
      /\ \A b \in Actor \ {a} : cmd'[b] = IF cmd[b] = None THEN None ELSE Older(cmd[b], i)
  BY <1>0, TouchDoes
<1>1. ASSUME NEW b \in Actor, b # a
      PROVE  RunsOK(b)'
  <2>1. PICK c : c = cmd[b]
    OBVIOUS
  <2>2. PICK d : d = cmd'[b]
    OBVIOUS
  <2>3. ASSUME c # None PROVE CommandOK(d)'
    <3>1. c \in Command /\ d = Older(c, i) /\ c.parent \in Id \cup {None}
      BY <1>0, <1>1, <1>T, <2>1, <2>2, <2>3, CmdAt, CommandFields
    <3>2. CommandOK(c)
      BY <1>0, <2>1, <2>3 DEF CommandsOK, RunsOK
    <3>3. /\ c.at = "fill" /\ c.id # i /\ "linked" \in past'[c.id] => "linked" \in past[c.id]
          /\ c.at = "link" /\ c.id = i /\ HasParent(i, c.parent) => HasParent(i, c.parent)'
      BY <1>1, <2>1, <2>3, <3>1
    <3>4. CommandOK(Older(c, i))'
      BY <1>0, <3>1, <3>2, <3>3, OlderCommand
    <3> QED
      BY <3>1, <3>4
  <2>4. c = None => d = None
    BY <1>1, <1>T, <2>1, <2>2
  <2> QED
    BY <2>2, <2>3, <2>4, RunsAs
<1>2. RunsOK(a)'
  BY <1>T, RunsAs
<1>3. Distinct'
  <2>1. \A b \in Actor \ {a} : Creates(b)' => Creates(b) /\ cmd'[b].id = cmd[b].id
    BY <1>0, <1>T, CmdAt, OlderFields DEF Creates
  <2>2. \A b \in Actor \ {a} : Creates(b) => cmd[b].id \in Id /\ cmd[b].id <= drawn
    BY <1>0, CmdAt, CommandFields DEF Creates, CommandsOK, RunsOK, CommandOK, Shape
  <2>3. Creates(a)' => (Creates(a) /\ cmd'[a].id = cmd[a].id) \/ cmd'[a].id > drawn
    BY <1>T DEF Creates
  <2>4. Creates(a)' => cmd'[a].id \in Id
    BY <1>T, CommandFields DEF Creates
  <2>5. drawn \in Id
    BY <1>0, TypeFacts
  <2>6. ASSUME NEW b \in Actor, b # a, Creates(b)', Creates(a)'
        PROVE  cmd'[a].id # cmd'[b].id
    <3>1. Creates(b) /\ cmd'[b].id = cmd[b].id /\ cmd[b].id <= drawn /\ cmd[b].id \in Id
      BY <2>1, <2>2, <2>6
    <3>2. CASE Creates(a) /\ cmd'[a].id = cmd[a].id
      BY <1>0, <2>6, <3>1, <3>2 DEF Distinct
    <3>3. CASE cmd'[a].id > drawn
      BY <2>4, <2>5, <2>6, <3>1, <3>3 DEF Id
    <3> QED
      BY <2>3, <2>6, <3>2, <3>3
  <2>7. \A b, d \in Actor : b # a /\ d # a /\ b # d /\ Creates(b)' /\ Creates(d)' =>
           cmd'[b].id # cmd'[d].id
    BY <1>0, <2>1 DEF Distinct
  <2> QED
    BY <2>6, <2>7 DEF Distinct
<1> QED
  BY <1>1, <1>2, <1>3 DEF Inv, CommandsOK

(* A sound write keeps the invariant.                                      *)
LEMMA WriteKeeps ==
  ASSUME Inv, Rest', NEW a \in Actor, cmd[a] # None, NEW i \in Id, NEW r \in File,
         Sound(cmd[a], i, r), i <= drawn,
         NEW next \in Command \cup {None}, Touch(a, i, next),
         FilesOK' /\ next # None => CommandOK(next)',
         next # None /\ next.at \in {"fill", "link"} => Creates(a) /\ next.id = cmd[a].id
  PROVE  Inv'
<1>0. TypeOK /\ CommandsOK /\ Distinct /\ FilesOK
  BY DEF Inv
<1>1. PICK c : c = cmd[a]
  OBVIOUS
<1>2. c \in Command /\ CommandOK(c) /\ Sound(c, i, r)
  BY <1>0, <1>1, CmdAt DEF CommandsOK, RunsOK
<1>3. FilesOK'
  BY <1>0, <1>2, WriteFiles
<1>4. /\ Changes(i)
      /\ ~Blank(c, i, r) => \A p \in Id \cup {None} : HasParent(i, p) => HasParent(i, p)'
  BY <1>0, <1>2, WriteChanges
<1>5. TypeOK'
  <2>1. ticket' \in FileType /\ archive' = archive /\ past' \in PastType /\ drawn' = drawn
    BY <1>0, <1>2, WriteBase DEF Sound, Writes
  <2>2. cmd' \in CmdType
    BY <1>0, TouchDoes
  <2> QED
    BY <1>0, <2>1, <2>2, RestFacts, TypesNext
<1>6. ASSUME NEW b \in Actor \ {a}, cmd[b] # None
      PROVE  /\ cmd[b].at = "fill" /\ cmd[b].id # i /\ "linked" \in past'[cmd[b].id] =>
                  "linked" \in past[cmd[b].id]
             /\ cmd[b].at = "link" /\ cmd[b].id = i =>
                  \A p \in Id \cup {None} : HasParent(i, p) => HasParent(i, p)'
  <2>1. cmd[b].at \in {"fill", "link"} /\ c.at \in {"fill", "link"} => cmd[b].id # c.id
    BY <1>0, <1>1, <1>6 DEF Distinct, Creates
  <2>2. cmd[b].id \in Id
    BY <1>0, <1>6, CmdAt, CommandFields
  <2>3. cmd[b].at = "fill" /\ cmd[b].id # i => past'[cmd[b].id] = past[cmd[b].id]
    BY <1>2, <2>1, <2>2 DEF Sound, Writes
  <2>4. cmd[b].at = "link" /\ cmd[b].id = i => ~Blank(c, i, r)
    BY <2>1 DEF Blank
  <2> QED
    BY <1>4, <2>3, <2>4
<1>7. next # None => CommandOK(next)'
  BY <1>3
<1> QED
  BY <1>3, <1>4, <1>5, <1>6, <1>7, ChangeKeeps

(* A new ticket keeps the invariant.                                       *)
LEMMA DrawKeeps ==
  ASSUME Inv, Rest', NEW a \in Actor, NEW i \in Id, NEW r \in File, NEW ms, Draws(i, r, ms),
         NEW next \in Command \cup {None}, Touch(a, i, next),
         FilesOK' /\ next # None => CommandOK(next)', next # None => next.id = i
  PROVE  Inv'
<1>0. TypeOK /\ CommandsOK /\ FilesOK
  BY DEF Inv
<1>1. FilesOK' /\ Changes(i) /\ i > drawn
  BY <1>0, DrawFiles, DrawChanges, DrawBase
<1>2. TypeOK'
  <2>1. cmd' \in CmdType
    BY <1>0, TouchDoes
  <2> QED
    BY <1>0, <2>1, DrawBase, RestFacts, TypesNext DEF Draws
<1>3. \A b \in Actor \ {a} : cmd[b] # None => cmd[b].id # i /\ past'[cmd[b].id] = past[cmd[b].id]
  <2>1. \A b \in Actor : cmd[b] # None => cmd[b].id \in Id /\ cmd[b].id <= drawn
    BY <1>0, CmdAt, CommandFields DEF CommandsOK, RunsOK, CommandOK, Shape
  <2>2. \A b \in Actor : cmd[b] # None => cmd[b].id # i
    BY <1>0, <1>1, <2>1, TypeFacts DEF Id
  <2> QED
    BY <1>0, <2>1, <2>2, DrawBase
<1> QED
  BY <1>1, <1>2, <1>3, ChangeKeeps

(* An archiving keeps the invariant.                                       *)
LEMMA MoveKeeps ==
  ASSUME Inv, Rest', NEW a \in Actor, NEW i \in Id, Moves(i), Touch(a, i, None)
  PROVE  Inv'
<1>0. TypeOK /\ CommandsOK /\ FilesOK
  BY DEF Inv
<1>1. /\ FilesOK' /\ Changes(i) /\ past' = past
      /\ \A p \in Id \cup {None} : HasParent(i, p) => HasParent(i, p)'
  BY <1>0, MoveFiles, MoveChanges DEF Moves
<1>2. TypeOK'
  <2>1. cmd' \in CmdType
    BY <1>0, TouchDoes
  <2> QED
    BY <1>0, <2>1, MoveBase, RestFacts, TypesNext DEF Moves
<1> QED
  BY <1>1, <1>2, ChangeKeeps

(* A command that read its ticket, or is about to release its lock, is     *)
(* sound whatever else it remembers.                                       *)
Reads(c) ==
  /\ c.op \in {"finish", "suspend", "resume", "cleanup", "do", "archive"}
  /\ c.at \in {"store", "rename", "release"}
  /\ c.at \in {"store", "rename"} => ticket[c.id] = c.copy
  /\ c.id <= drawn
  /\ c.parent # None => c.parent <= drawn

(* A command that has just read knows what it read.                        *)
LEMMA ReadsOK == \A c \in Command : Reads(c) => CommandOK(c)
BY DEF Reads, CommandOK, Shape, Fresh, Room, Ready, Unfiled, Linkable

(* The same after a step.                                                  *)
LEMMA ReadsOKNext == (\A c \in Command : Reads(c) => CommandOK(c))'
BY ReadsOK, PTL

(* A live ticket has an id that was drawn.                                 *)
LEMMA LiveDrawn ==
  ASSUME TypeOK, FilesOK
  PROVE  /\ \A i \in Live : i \in Id /\ i <= drawn /\ ticket[i] \in File
         /\ \A i \in Id : ticket[i] # None => i \in Live
<1>1. ASSUME NEW i \in Live
      PROVE  i \in Id /\ i <= drawn /\ ticket[i] \in File
  <2>1. i \in Id /\ ticket[i] # None /\ ticket[i] \in File \cup {None} /\ drawn \in Id
    BY <1>1, TypeFacts DEF Live, FileType
  <2>2. ~(i > drawn)
    BY <2>1 DEF FilesOK, Undrawn
  <2> QED
    BY <2>1, <2>2 DEF Id
<1> QED
  BY <1>1 DEF Live

(* A step that changes no file and starts no fill or link keeps the        *)
(* invariant.                                                              *)
LEMMA QuietStep ==
  ASSUME Inv, Rest', NEW a \in Actor, UNCHANGED <<ticket, archive, past, drawn>>,
         NEW next \in Command \cup {None}, Advance(a, next),
         next # None => CommandOK(next) /\ next.at \notin {"fill", "link"}
  PROVE  Inv'
<1>0. TypeOK
  BY DEF Inv
<1>1. /\ cmd' \in CmdType /\ next = cmd'[a]
      /\ \A b \in Actor \ {a} : cmd'[b] = cmd[b]
  BY <1>0, AdvanceDoes
<1>2. TypeOK'
  BY <1>0, <1>1, TypeFacts, TypesNext
<1>3. next # None => CommandOK(next)'
  BY SameCommand
<1>4. ~Creates(a)'
  BY <1>1 DEF Creates
<1> QED
  BY <1>1, <1>2, <1>3, <1>4, QuietKeeps

(* Choosing the next ticket keeps the invariant.                           *)
LEMMA ChooseKeeps ==
  ASSUME Inv, NEW a \in Actor, NEW i \in Id, Choose(a, i)
  PROVE  Inv'
<1> DEFINE c == New("next", "claim", i, ticket[i])
<1>0. TypeOK /\ FilesOK /\ Rest /\ Advance(a, c) /\ Begun(a) /\ i \in Candidates
      /\ UNCHANGED <<ticket, archive, drawn, lock, mine, made, past>>
  BY TypeFacts DEF Inv, Choose, Rest
<1>1. i \in Live /\ ticket[i] \in File /\ i <= drawn /\ ticket[i].status = "todo"
      /\ Resolved(i) /\ HasRoom(i)
  BY <1>0, LiveDrawn DEF Candidates
<1>2. /\ c \in Command /\ c.op = "next" /\ c.at = "claim" /\ c.id = i /\ c.copy = ticket[i]
      /\ c.parent = None /\ c.touched = {}
  BY <1>1, NewCommand DEF New
<1> HIDE DEF c
<1>3. CommandOK(c)
  <2>1. Room(c)
    <3>1. Untouched(c) = Active
      BY <1>2 DEF Untouched
    <3>2. {j \in Untouched(c) : LaneOf[ticket[j].type] = LaneOf[c.copy.type]}
            = InLane(LaneOf[ticket[i].type])
      BY <1>2, <3>1 DEF InLane
    <3> QED
      BY <1>1, <1>2, <3>1, <3>2 DEF Room, HasRoom
  <2>2. Ready(c)
    BY <1>1, <1>2 DEF Ready, Resolved, Unblocked, Finished, Live
  <2> QED
    BY <1>1, <1>2, <2>1, <2>2 DEF CommandOK, Shape, Fresh, Unfiled, Linkable
<1>4. Rest'
  BY <1>0, ConstantsAssumption DEF Rest, Begun
<1> QED
  BY <1>0, <1>2, <1>3, <1>4, QuietStep

(* An acquired lock has its type.                                          *)
LEMMA AcquiredTypes ==
  ASSUME TypeOK, NEW a \in Actor, NEW i \in Id, Acquired(a, i)
  PROVE  lock' \in [ticket: Id, owner: Actor] \cup {None} /\ mine' \in [Actor -> Id \cup {None}]
BY TypeFacts DEF Acquired

(* Claiming the chosen ticket's lock keeps the invariant.                  *)
LEMMA ClaimKeeps ==
  ASSUME Inv, NEW a \in Actor, Claim(a)
  PROVE  Inv'
<1> DEFINE next == [cmd[a] EXCEPT !.at = "start"]
<1>0. TypeOK /\ CommandsOK /\ Rest
  BY TypeFacts DEF Inv, Rest
<1>1. PICK c : c = cmd[a]
  OBVIOUS
<1>2. c \in Command /\ CommandOK(c) /\ c.at = "claim"
  BY <1>0, <1>1, CmdAt DEF CommandsOK, RunsOK, Claim, At
<1>3. /\ next \in Command /\ next.at = "start" /\ next.op = c.op /\ next.id = c.id
      /\ next.copy = c.copy /\ next.parent = c.parent /\ next.parentcopy = c.parentcopy
      /\ next.gaps = c.gaps /\ next.touched = c.touched
  BY <1>1, <1>2 DEF Command
<1>4. Rest' /\ Advance(a, next) /\ UNCHANGED <<ticket, archive, past, drawn>>
  BY <1>0, <1>1, <1>2, AcquiredTypes, CommandFields DEF Claim, Rest
<1> HIDE DEF next
<1>5. CommandOK(next)
  BY <1>2, <1>3
     DEF CommandOK, Shape, Fresh, Room, Untouched, Ready, Unfiled, Missing, Linkable
<1> QED
  BY <1>3, <1>4, <1>5, QuietStep

(* Taking a lock keeps the invariant.                                      *)
LEMMA TakeLockKeeps ==
  ASSUME Inv, NEW a \in Actor, NEW i \in Id, TakeLock(a, i)
  PROVE  Inv'
<1>0. TypeOK /\ CommandsOK /\ Rest /\ cmd[a] = None /\ cmd' = cmd
  BY TypeFacts DEF Inv, Rest, TakeLock, Begun, Idle
<1>1. Rest' /\ UNCHANGED <<ticket, archive, past, drawn>>
  BY <1>0, AcquiredTypes, ConstantsAssumption DEF TakeLock, Rest, Begun
<1>2. Advance(a, None)
  BY <1>0, TypeFacts DEF Advance, CmdType
<1> QED
  BY <1>1, <1>2, QuietStep

(* The commands that begin by reading the ticket i.                        *)
LEMMA BeginReads ==
  ASSUME Inv, NEW a \in Actor, Begun(a), NEW i \in Live,
         NEW op \in {"finish", "suspend", "resume", "cleanup", "do", "archive"},
         NEW step \in {"store", "rename"}, NEW s \in Status \cup {"keep"},
         Advance(a, [New(op, step, i, ticket[i]) EXCEPT !.status = s]),
         made' = made, lock' \in [ticket: Id, owner: Actor] \cup {None},
         mine' \in [Actor -> Id \cup {None}],
         UNCHANGED <<ticket, archive, past, drawn>>
  PROVE  Inv'
<1> DEFINE c == [New(op, step, i, ticket[i]) EXCEPT !.status = s]
<1>0. TypeOK /\ FilesOK /\ Rest
  BY TypeFacts DEF Inv, Rest
<1>1. i \in Id /\ i <= drawn /\ ticket[i] \in File
  BY <1>0, LiveDrawn
<1>2. c \in Command /\ c.op = op /\ c.at = step /\ c.id = i /\ c.copy = ticket[i] /\ c.parent = None
  BY <1>1 DEF New, Command
<1>3. Advance(a, c)
  OBVIOUS
<1> HIDE DEF c
<1>4. CommandOK(c)
  BY <1>1, <1>2, ReadsOK DEF Reads
<1>5. Rest'
  BY <1>0, ConstantsAssumption DEF Rest, Begun
<1> QED
  BY <1>2, <1>3, <1>4, <1>5, QuietStep

(* What an actor works on is a ticket or nothing.                          *)
LEMMA MineTyped ==
  ASSUME Inv, NEW a \in Actor
  PROVE  mine[a] \in Id \cup {None}
BY TypeFacts DEF Inv

(* Beginning a suspend keeps the invariant.                                *)
LEMMA BeginSuspendKeeps ==
  ASSUME Inv, NEW a \in Actor, BeginSuspend(a)
  PROVE  Inv'
<1>1. Rest
  BY TypeFacts DEF Inv, Rest
<1> QED
  BY <1>1, BeginReads DEF BeginSuspend, Rest, Status

(* Beginning a resume keeps the invariant.                                 *)
LEMMA BeginResumeKeeps ==
  ASSUME Inv, NEW a \in Actor, BeginResume(a)
  PROVE  Inv'
<1>1. /\ lock' \in [ticket: Id, owner: Actor] \cup {None}
      /\ mine' \in [Actor -> Id \cup {None}]
  BY MineTyped, AcquiredTypes DEF BeginResume, Inv
<1> QED
  BY <1>1, BeginReads DEF BeginResume, Status

(* Beginning a do keeps the invariant.                                     *)
LEMMA BeginDoKeeps ==
  ASSUME Inv, NEW a \in Actor, BeginDo(a)
  PROVE  Inv'
<1>1. Rest
  BY TypeFacts DEF Inv, Rest
<1> QED
  BY <1>1, BeginReads DEF BeginDo, Rest, Status

(* Beginning a cleanup keeps the invariant.                                *)
LEMMA BeginCleanupKeeps ==
  ASSUME Inv, NEW a \in Actor, NEW i \in Id, BeginCleanup(a, i)
  PROVE  Inv'
<1>1. Rest
  BY TypeFacts DEF Inv, Rest
<1> QED
  BY <1>1, BeginReads DEF BeginCleanup, Rest, Status

(* Beginning an archiving keeps the invariant.                             *)
LEMMA BeginArchiveKeeps ==
  ASSUME Inv, NEW a \in Actor, NEW i \in Id, BeginArchive(a, i)
  PROVE  Inv'
<1>1. Rest
  BY TypeFacts DEF Inv, Rest
<1>2. New("archive", "rename", i, ticket[i])
        = [New("archive", "rename", i, ticket[i]) EXCEPT !.status = "keep"]
  BY DEF New
<1>3. Advance(a, [New("archive", "rename", i, ticket[i]) EXCEPT !.status = "keep"])
  BY <1>2 DEF BeginArchive
<1> QED
  BY <1>1, <1>3, BeginReads DEF BeginArchive, Rest

(* Beginning a finish keeps the invariant.                                 *)
LEMMA BeginFinishKeeps ==
  ASSUME Inv, NEW a \in Actor, NEW gaps \in Detected, NEW status \in {"keep", "review", "done"},
         BeginFinish(a, gaps, status)
  PROVE  Inv'
<1>0. TypeOK /\ FilesOK /\ Rest
  BY TypeFacts DEF Inv, Rest
<1>1. PICK i : i = mine[a]
  OBVIOUS
<1>2. PICK todo : todo = Uncovered(i, gaps)
  OBVIOUS
<1>3. i \in Live /\ Begun(a) /\ UNCHANGED <<ticket, archive, drawn, lock, mine, made, past>>
      /\ status \in Status \cup {"keep"}
  BY <1>1 DEF BeginFinish, Status
<1>4. i \in Id /\ i <= drawn /\ ticket[i] \in File /\ i # None
  BY <1>0, <1>3, LiveDrawn, NoneAssumption
<1>5. CASE todo = {}
  <2> DEFINE c == [New("finish", "follow", i, ticket[i]) EXCEPT
                     !.at = "store", !.status = status]
  <2>1. Advance(a, c)
    BY <1>1, <1>2, <1>5 DEF BeginFinish
  <2>2. /\ c \in Command /\ c.op = "finish" /\ c.at = "store" /\ c.id = i /\ c.copy = ticket[i]
        /\ c.parent = None
    BY <1>3, <1>4 DEF New, Command
  <2> HIDE DEF c
  <2>3. CommandOK(c)
    BY <1>4, <2>2, ReadsOK DEF Reads
  <2>4. Rest'
    BY <1>0, <1>3, ConstantsAssumption DEF Rest, Begun
  <2> QED
    BY <1>3, <2>1, <2>2, <2>3, <2>4, QuietStep
<1>6. CASE todo # {}
  <2> DEFINE c == [New("finish", "follow", i, ticket[i]) EXCEPT
                     !.gaps = todo, !.status = status, !.parent = i]
  <2>1. Advance(a, c)
    BY <1>1, <1>2, <1>6 DEF BeginFinish
  <2>2. todo \subseteq Gap /\ todo \subseteq gaps
    BY <1>2 DEF Uncovered, Detected
  <2>3. /\ c \in Command /\ c.op = "finish" /\ c.at = "follow" /\ c.id = i /\ c.parent = i
        /\ c.gaps = todo
    BY <1>3, <1>4, <2>2 DEF New, Command
  <2> HIDE DEF c
  <2>4. \A g \in todo : Missing(c, g)
    BY <1>2, <2>3 DEF Missing, Uncovered
  <2>5. CommandOK(c)
    BY <1>4, <2>3, <2>4 DEF CommandOK, Shape, Fresh, Room, Ready, Unfiled, Linkable
  <2>6. Rest'
    BY <1>0, <1>3, ConstantsAssumption DEF Rest, Begun
  <2> QED
    BY <1>3, <2>1, <2>3, <2>5, <2>6, QuietStep
<1> QED
  BY <1>5, <1>6

(* Releasing the lock keeps the invariant.                                 *)
LEMMA ReleaseKeeps ==
  ASSUME Inv, NEW a \in Actor, Release(a)
  PROVE  Inv'
<1>1. Rest
  BY TypeFacts DEF Inv, Rest
<1> QED
  BY <1>1, QuietStep DEF Release, Rest

(* A command that stops half way keeps the invariant.                      *)
LEMMA StopKeeps ==
  ASSUME Inv, NEW a \in Actor, Stop(a)
  PROVE  Inv'
<1>1. Rest
  BY TypeFacts DEF Inv, Rest
<1> QED
  BY <1>1, QuietStep DEF Stop, Rest

(* An expiring lock keeps the invariant.                                   *)
LEMMA ExpiryKeeps ==
  ASSUME Inv, LockExpires
  PROVE  Inv'
<1>1. TypeOK'
  BY DEF Inv, TypeOK, LockExpires
<1>2. FilesOK'
  BY SameFiles DEF Inv, LockExpires
<1>3. Distinct'
  BY DEF Inv, Distinct, Creates, LockExpires
<1>4. ASSUME NEW b \in Actor
      PROVE  RunsOK(b)'
  <2>1. PICK c : c = cmd[b] /\ c = cmd'[b]
    BY DEF LockExpires
  <2>2. c # None => CommandOK(c)'
    BY <2>1, SameCommand DEF Inv, CommandsOK, RunsOK, LockExpires
  <2> QED
    BY <2>1, <2>2, RunsAs
<1> QED
  BY <1>1, <1>2, <1>3, <1>4 DEF Inv, CommandsOK

(* Stuttering keeps the invariant.                                         *)
LEMMA IdleKeeps ==
  ASSUME Inv, UNCHANGED vars
  PROVE  Inv'
<1>1. TypeOK'
  BY DEF Inv, TypeOK, vars
<1>2. FilesOK'
  BY SameFiles DEF Inv, vars
<1>3. Distinct'
  BY DEF Inv, Distinct, Creates, vars
<1>4. ASSUME NEW b \in Actor
      PROVE  RunsOK(b)'
  <2>1. PICK c : c = cmd[b] /\ c = cmd'[b]
    BY DEF vars
  <2>2. c # None => CommandOK(c)'
    BY <2>1, SameCommand DEF Inv, CommandsOK, RunsOK, vars
  <2> QED
    BY <2>1, <2>2, RunsAs
<1> QED
  BY <1>1, <1>2, <1>3, <1>4 DEF Inv, CommandsOK

-----------------------------------------------------------------------------
(* The steps that draw an id.                                              *)
LEMMA DrawCommand ==
  ASSUME TypeOK, FilesOK, NEW i \in Id, NEW kind \in Kind, Draws(i, Plain(kind, None), {}),
         NEW c \in Command,
         c.at = "fill", c.id = i, c.op \in {"create", "promote", "plan", "finish"},
         c.op \in {"create", "promote"} => c.copy.title = None,
         c.op \in {"promote", "plan"} => c.parent = None,
         c.op = "create" /\ c.parent # None =>
           c.parent \in Live /\ c.parentcopy = ticket[c.parent] /\ c.copy.parent = c.parent,
         c.op = "finish" =>
           /\ c.parent # None /\ c.parent <= drawn
           /\ c.copy.title \in Gap \ c.gaps /\ c.copy.parent = c.parent
           /\ Missing(c, c.copy.title) /\ \A g \in c.gaps : Missing(c, g)
  PROVE  CommandOK(c)'
<1>F. Plain(kind, None) \in File /\ c.parent \in Id \cup {None}
  BY CommandFields, PlainFile
<1>0. /\ drawn \in Nat /\ i \in Nat /\ drawn' = i /\ i > drawn
      /\ c.parent \in Id \cup {None} /\ (c.parent # None => c.parent \in Nat)
      /\ Plain(kind, None) \in File
  BY <1>F, TypeFacts DEF Id, Draws
<1>1. \A j \in Live : j # i /\ ~(j > i) /\ j \in Id /\ j <= drawn /\ ticket'[j] = ticket[j]
                      /\ ticket[j] # None
  BY <1>0, LiveDrawn, DrawBase, NoneAssumption DEF Id, Live
<1>2. \A j \in Live' : j = i \/ j \in Live
  BY <1>0, DrawBase DEF Live
<1>P. /\ ticket'[i] = Plain(kind, None) /\ ticket'[i] # None /\ ticket'[i].status = "todo"
      /\ ticket'[i].title = None /\ ticket'[i].parent = None /\ ticket'[i].children = {}
      /\ past'[i] = {}
  <2>1. ticket'[i] = Plain(kind, None) /\ past'[i] = {}
    BY <1>0, DrawBase
  <2>2. /\ Plain(kind, None) \in File
        /\ Plain(kind, None).status = "todo" /\ Plain(kind, None).title = None
        /\ Plain(kind, None).children = {} /\ Plain(kind, None).parent = None
    BY PlainFile
  <2>3. Plain(kind, None) # None
    BY <2>2, FileFields
  <2> QED
    BY <1>0, <2>1, <2>2, <2>3
<1>3. Shape(c)'
  <2>1. c.parent # None => c.parent <= drawn
    <3>1. CASE c.op = "create" /\ c.parent # None
      BY <1>1, <3>1
    <3> QED
      BY <3>1
  <2>2. c.parent # None => c.parent <= i /\ c.parent # i
    BY <1>0, <2>1
  <2>3. c.op = "create" /\ c.parent # None => c.parentcopy # None
    BY <1>1
  <2> QED
    BY <1>0, <2>2, <2>3 DEF Shape
<1>4. Fresh(c)'
  <2>1. c.op = "create" /\ c.parent # None => ticket'[c.parent] = c.parentcopy
    BY <1>1
  <2> QED
    BY <1>P, <2>1 DEF Fresh
<1>5. Unfiled(c)'
  <2>1. \A j \in Live' : ~(j > i)
    BY <1>0, <1>1, <1>2
  <2>2. ASSUME c.op = "finish", NEW g, Missing(c, g)
        PROVE  Missing(c, g)'
    BY <1>1, <1>2, <1>P, <2>2 DEF Missing
  <2> QED
    BY <2>1, <2>2 DEF Unfiled
<1>6. Room(c)' /\ Ready(c)' /\ Linkable(c)'
  BY DEF Room, Ready, Linkable
<1> QED
  BY <1>3, <1>4, <1>5, <1>6 DEF CommandOK

(* An allocation draws the next id.                                        *)
LEMMA AllocateDraws ==
  ASSUME Inv, NEW a \in Actor, NEW kind \in Kind, NEW next, Allocate(a, kind, next),
         UNCHANGED <<archive, past>>
  PROVE  /\ drawn + 1 \in Id /\ Touch(a, drawn + 1, next)
         /\ Plain(kind, None) \in File /\ Draws(drawn + 1, Plain(kind, None), {})
<1>1. drawn \in 1 .. MaxTickets /\ MaxTickets \in Nat /\ drawn < MaxTickets
  BY TypeFacts, ConstantsAssumption DEF Inv, Id, Allocate
<1>2. PICK i \in Id : i = drawn + 1
  BY <1>1 DEF Id
<1>3. past \in PastType /\ past[i] = {}
  BY <1>1, <1>2, TypeFacts DEF Inv, FilesOK, Undrawn
<1>4. past' = [past EXCEPT ![i] = {}]
  BY <1>3 DEF PastType
<1>5. /\ Plain(kind, None) \in File /\ Plain(kind, None).status = "todo"
      /\ Plain(kind, None).title = None
  BY PlainFile
<1> QED
  BY <1>2, <1>4, <1>5 DEF Allocate, Draws

(* Creating a ticket keeps the invariant.                                  *)
LEMMA BeginCreateKeeps ==
  ASSUME Inv, NEW a \in Actor, NEW kind \in Kind, NEW parent \in Id \cup {None},
         BeginCreate(a, kind, parent)
  PROVE  Inv'
<1> DEFINE pc == IF parent = None THEN None ELSE ticket[parent]
           c == [New("create", "fill", drawn + 1, Plain(kind, parent)) EXCEPT
                   !.parent = parent, !.parentcopy = pc]
<1>0. TypeOK /\ FilesOK /\ Rest
  BY TypeFacts DEF Inv, Rest
<1>1. Allocate(a, kind, c) /\ Begun(a) /\ Fits(kind, parent)
      /\ UNCHANGED <<archive, lock, mine, made, past>>
  BY DEF BeginCreate
<1>2. parent # None => parent \in Live /\ ticket[parent] \in File
  BY <1>0, <1>1, LiveDrawn DEF Fits, Kind
<1>3. /\ Plain(kind, parent) \in File /\ Plain(kind, parent).status = "todo"
      /\ Plain(kind, parent).title = None /\ Plain(kind, parent).parent = parent
  BY PlainFile
<1>4. drawn + 1 \in Id /\ Draws(drawn + 1, Plain(kind, None), {}) /\ Touch(a, drawn + 1, c)
      /\ Plain(kind, None) \in File
  BY <1>1, AllocateDraws
<1>5. pc \in File \cup {None} /\ (parent # None => pc = ticket[parent])
  BY <1>2
<1> HIDE DEF pc
<1>6. /\ c \in Command /\ c.op = "create" /\ c.at = "fill" /\ c.id = drawn + 1
      /\ c.copy = Plain(kind, parent) /\ c.parent = parent /\ c.parentcopy = pc
  BY <1>3, <1>4, <1>5 DEF New, Command
<1> HIDE DEF c
<1>7. PICK d \in Command : d = c
  BY <1>6
<1>8. PICK i \in Id : i = drawn + 1
  BY <1>4
<1>9. CommandOK(d)'
  BY <1>0, <1>2, <1>3, <1>4, <1>5, <1>6, <1>7, <1>8, DrawCommand
<1>10. Rest'
  BY <1>0, <1>1, ConstantsAssumption DEF Rest, Begun
<1> QED
  BY <1>4, <1>6, <1>7, <1>8, <1>9, <1>10, DrawKeeps

(* Promoting an intent keeps the invariant.                                *)
LEMMA BeginPromoteKeeps ==
  ASSUME Inv, NEW a \in Actor, BeginPromote(a)
  PROVE  Inv'
<1> DEFINE f == [Plain("task", None) EXCEPT !.type = "docs"]
           c == New("promote", "fill", drawn + 1, f)
<1>0. TypeOK /\ FilesOK /\ Rest
  BY TypeFacts DEF Inv, Rest
<1>1. Allocate(a, "task", c) /\ Begun(a) /\ UNCHANGED <<archive, lock, mine, made, past>>
  BY DEF BeginPromote
<1>2. "task" \in Kind
  BY DEF Kind
<1>3. f \in File /\ f.status = "todo" /\ f.title = None
  BY <1>2, PlainFile, ConstantsAssumption DEF File, Plain
<1>4. drawn + 1 \in Id /\ Draws(drawn + 1, Plain("task", None), {}) /\ Touch(a, drawn + 1, c)
      /\ Plain("task", None) \in File
  BY <1>1, <1>2, AllocateDraws
<1> HIDE DEF f
<1>5. /\ c \in Command /\ c.op = "promote" /\ c.at = "fill" /\ c.id = drawn + 1
      /\ c.copy = f /\ c.parent = None
  BY <1>3, <1>4 DEF New, Command
<1> HIDE DEF c
<1>6. PICK d \in Command : d = c
  BY <1>5
<1>7. PICK i \in Id : i = drawn + 1
  BY <1>4
<1>8. CommandOK(d)'
  BY <1>0, <1>2, <1>3, <1>4, <1>5, <1>6, <1>7, DrawCommand
<1>9. Rest'
  BY <1>0, <1>1, ConstantsAssumption DEF Rest, Begun
<1> QED
  BY <1>2, <1>4, <1>5, <1>6, <1>7, <1>8, <1>9, DrawKeeps

(* Planning a ticket under a new id keeps the invariant.                   *)
LEMMA BeginPlanKeeps ==
  ASSUME Inv, NEW a \in Actor, NEW r \in Planned, BeginPlan(a, r)
  PROVE  Inv'
<1> DEFINE c == New("plan", "fill", drawn + 1, r)
<1>0. TypeOK /\ FilesOK /\ Rest
  BY TypeFacts DEF Inv, Rest
<1>1. Allocate(a, r.kind, c) /\ Begun(a) /\ UNCHANGED <<archive, lock, mine, made, past>>
  BY DEF BeginPlan
<1>2. PICK f \in File : f = r
  BY SeedsAssumption
<1>3. PICK kind \in Kind : kind = f.kind
  BY FileFields
<1>4. drawn + 1 \in Id /\ Draws(drawn + 1, Plain(kind, None), {}) /\ Touch(a, drawn + 1, c)
      /\ Plain(kind, None) \in File
  BY <1>1, <1>2, <1>3, AllocateDraws
<1>5. /\ c \in Command /\ c.op = "plan" /\ c.at = "fill" /\ c.id = drawn + 1
      /\ c.copy = f /\ c.parent = None
  BY <1>2, <1>4 DEF New, Command
<1> HIDE DEF c
<1>6. PICK d \in Command : d = c
  BY <1>5
<1>7. PICK i \in Id : i = drawn + 1
  BY <1>4
<1>8. CommandOK(d)'
  BY <1>0, <1>4, <1>5, <1>6, <1>7, DrawCommand
<1>9. Rest'
  BY <1>0, <1>1, ConstantsAssumption DEF Rest, Begun
<1> QED
  BY <1>4, <1>5, <1>6, <1>7, <1>8, <1>9, DrawKeeps

(* plan under a given id writes as a command that read nothing.            *)
Planning(i, r) == [New("plan", "fill", i, r) EXCEPT !.touched = 1 .. drawn]

(* Such a command, and what is left of the step.                           *)
LEMMA PlanAsDoes ==
  ASSUME Inv, NEW a \in Actor, NEW i \in Id, NEW r \in Planned, PlanAs(a, i, r)
  PROVE  /\ r \in File
         /\ Planning(i, r) \in Command /\ Planning(i, r).op = "plan"
         /\ Planning(i, r).at = "fill" /\ Planning(i, r).id = i
         /\ Planning(i, r).parent = None /\ Planning(i, r).touched = 1 .. drawn
         /\ Save(a, Planning(i, r), i, r, {}, None) /\ Touch(a, i, None)
         /\ archive' = archive /\ made' = [made EXCEPT ![i] = "plan"]
         /\ Rest' /\ drawn \in Nat /\ i \in Nat
         /\ (i <= drawn /\ drawn' = drawn) \/ (i = drawn + 1 /\ drawn' = i)
<1>1. TypeOK /\ Rest /\ r \in File
  BY TypeFacts, SeedsAssumption DEF Inv, Rest
<1>2. drawn \in 1 .. MaxTickets /\ MaxTickets \in Nat /\ i \in 1 .. MaxTickets
  BY <1>1, TypeFacts, ConstantsAssumption DEF Id
<1>3. 1 .. drawn \subseteq Id
  BY <1>2 DEF Id
<1>4. /\ Planning(i, r) \in Command /\ Planning(i, r).op = "plan"
      /\ Planning(i, r).at = "fill" /\ Planning(i, r).id = i
      /\ Planning(i, r).parent = None /\ Planning(i, r).touched = 1 .. drawn
  BY <1>1, <1>3 DEF Planning, New, Command
<1>5. /\ Begun(a) /\ i <= drawn + 1
      /\ drawn' = IF i > drawn THEN i ELSE drawn
      /\ Save(a, Planning(i, r), i, r, {}, None)
      /\ made' = [made EXCEPT ![i] = "plan"]
      /\ UNCHANGED <<archive, lock, mine>>
  BY DEF PlanAs, Planning
<1>6. Rest'
  BY <1>1, <1>5, ConstantsAssumption DEF Rest, Begun, Origin
<1>7. (i <= drawn /\ drawn' = drawn) \/ (i = drawn + 1 /\ drawn' = i)
  BY <1>2, <1>5
<1>8. Touch(a, i, None)
  BY <1>5 DEF Save
<1> QED
  BY <1>1, <1>2, <1>4, <1>5, <1>6, <1>7, <1>8

(* Under a new id it is a new ticket.                                      *)
LEMMA PlanAsNew ==
  ASSUME Inv, NEW a \in Actor, NEW i \in Id, NEW r \in Planned, PlanAs(a, i, r), i > drawn
  PROVE  \E ms : "listed" \in ms /\ Draws(i, r, ms)
<1>1. PICK c \in Command : /\ c = Planning(i, r) /\ c.op = "plan" /\ c.touched = 1 .. drawn
                           /\ Save(a, c, i, r, {}, None)
  BY PlanAsDoes
<1>2. TypeOK /\ past \in PastType /\ past[i] = {} /\ ticket[i] = None /\ r \in File
      /\ i \notin 1 .. drawn /\ i \notin Live /\ i \notin Active
  BY PlanAsDoes, TypeFacts DEF Inv, FilesOK, Undrawn, Live, Active
<1> DEFINE ms == Marks(c, i, r)
<1>3. /\ ms \in SUBSET {"listed", "worked", "extra"} /\ "listed" \in ms
      /\ r.status # "todo" => "worked" \in ms
      /\ r.status = "active" => "extra" \in ms
  BY <1>1, <1>2 DEF Marks
<1>4. past' = [past EXCEPT ![i] = (IF r.status = "todo" THEN past[i] \ {"given"} ELSE past[i])
                                   \cup ms \cup {}]
      /\ ticket' = [ticket EXCEPT ![i] = r]
  BY <1>1 DEF Save
<1> HIDE DEF ms
<1>5. past' = [past EXCEPT ![i] = ms]
  BY <1>2, <1>4
<1>6. i = drawn + 1 /\ drawn' = i /\ archive' = archive
  BY PlanAsDoes
<1>7. Draws(i, r, ms)
  BY <1>3, <1>4, <1>5, <1>6 DEF Draws
<1> QED
  BY <1>3, <1>7

(* Over another it is a sound write.                                       *)
LEMMA PlanAsOver ==
  ASSUME Inv, NEW a \in Actor, NEW i \in Id, NEW r \in Planned, PlanAs(a, i, r), i <= drawn
  PROVE  /\ CommandOK(Planning(i, r)) /\ Sound(Planning(i, r), i, r)
         /\ {"stale", "listed"} \subseteq past'[i] /\ drawn' = drawn
<1>1. PICK c \in Command : /\ c = Planning(i, r) /\ c.op = "plan" /\ c.at = "fill" /\ c.id = i
                           /\ c.parent = None /\ c.touched = 1 .. drawn
                           /\ Save(a, c, i, r, {}, None)
  BY PlanAsDoes
<1>2. /\ TypeOK /\ FilesOK /\ archive' = archive /\ drawn' = drawn /\ r \in File
      /\ i \in c.touched
  BY <1>1, PlanAsDoes DEF Inv, Id
<1>3. Writes(c, i, r)
  BY <1>1, <1>2, SaveWrites
<1>4. Sound(c, i, r)
  BY <1>1, <1>2, <1>3 DEF Sound
<1>5. \A j \in Live : j \in c.touched
  BY <1>1, <1>2, LiveDrawn, PlanAsDoes DEF Id
<1>6. CommandOK(c)
  BY <1>1, <1>2, <1>5 DEF CommandOK, Shape, Fresh, Room, Ready, Unfiled, Linkable
<1> QED
  BY <1>1, <1>2, <1>3, <1>4, <1>6 DEF Writes

(* plan under a given id keeps the invariant.                              *)
LEMMA PlanAsKeeps ==
  ASSUME Inv, NEW a \in Actor, NEW i \in Id, NEW r \in Planned, PlanAs(a, i, r)
  PROVE  Inv'
<1>0. /\ TypeOK /\ FilesOK /\ CommandsOK /\ r \in File /\ Rest' /\ Touch(a, i, None)
      /\ drawn \in Nat /\ i \in Nat /\ archive' = archive
      /\ None \in Command \cup {None}
  BY PlanAsDoes DEF Inv
<1>1. CASE i > drawn
  <2>1. PICK ms : Draws(i, r, ms)
    BY <1>1, PlanAsNew
  <2> QED
    BY <1>0, <2>1, DrawKeeps
<1>2. CASE i <= drawn
  <2>1. PICK c \in Command : /\ c = Planning(i, r) /\ c.at = "fill" /\ c.id = i
    BY PlanAsDoes
  <2>2. CommandOK(c) /\ Sound(c, i, r) /\ Writes(c, i, r) /\ "stale" \in past'[i] /\ drawn' = drawn
    BY <1>2, <2>1, PlanAsOver DEF Sound
  <2>3. FilesOK' /\ Changes(i)
    BY <1>0, <1>2, <2>2, WriteFiles, WriteChanges
  <2>4. TypeOK'
    <3>1. ticket' \in FileType /\ past' \in PastType
      BY <1>0, <2>2, WriteBase DEF Writes
    <3>2. cmd' \in CmdType
      BY <1>0, TouchDoes
    <3> QED
      BY <1>0, <2>2, <3>1, <3>2, RestFacts, TypesNext
  <2>5. \A j \in Id \ {i} : past'[j] = past[j]
    BY <2>1, <2>2 DEF Writes
  <2>6. \A p \in Id \cup {None} : HasParent(i, p)'
    BY <2>2 DEF HasParent
  <2>7. \A b \in Actor : cmd[b] # None => cmd[b].id \in Id
    BY <1>0, CmdAt, CommandFields
  <2> QED
    BY <1>0, <2>3, <2>4, <2>5, <2>6, <2>7, ChangeKeeps
<1> QED
  BY <1>0, <1>1, <1>2

(* Allocating a follow-up keeps the invariant.                             *)
LEMMA AllocateFollowUpKeeps ==
  ASSUME Inv, NEW a \in Actor, NEW g \in Gap, AllocateFollowUp(a, g)
  PROVE  Inv'
<1> DEFINE f == [Plain("task", cmd[a].parent) EXCEPT !.title = g]
           c == [cmd[a] EXCEPT !.at = "fill", !.gaps = @ \ {g}, !.id = drawn + 1, !.copy = f]
<1>0. TypeOK /\ FilesOK /\ CommandsOK /\ Rest
  BY TypeFacts DEF Inv, Rest
<1>1. PICK e : e = cmd[a]
  OBVIOUS
<1>2. e \in Command /\ CommandOK(e) /\ e.at = "follow" /\ g \in e.gaps
  BY <1>0, <1>1, CmdAt DEF CommandsOK, RunsOK, AllocateFollowUp, At
<1>3. Allocate(a, "task", c) /\ UNCHANGED <<archive, lock, mine, made, past, commands>>
  BY DEF AllocateFollowUp
<1>4. /\ e.op = "finish" /\ e.parent # None /\ e.parent <= drawn /\ e.parent \in Id
      /\ \A h \in e.gaps : Missing(e, h)
      /\ e.gaps \subseteq Gap
  BY <1>2, CommandFields DEF CommandOK, Shape, Unfiled
<1>5. "task" \in Kind
  BY DEF Kind
<1>6. f \in File /\ f.status = "todo" /\ f.title = g /\ f.parent = e.parent
  BY <1>1, <1>4, <1>5, PlainFile DEF File, Plain
<1>7. drawn + 1 \in Id /\ Draws(drawn + 1, Plain("task", None), {}) /\ Touch(a, drawn + 1, c)
      /\ Plain("task", None) \in File
  BY <1>3, <1>5, AllocateDraws
<1> HIDE DEF f
<1>8. /\ c \in Command /\ c.op = "finish" /\ c.at = "fill" /\ c.id = drawn + 1
      /\ c.copy = f /\ c.parent = e.parent /\ c.gaps = e.gaps \ {g} /\ c.touched = e.touched
  BY <1>1, <1>2, <1>4, <1>6, <1>7 DEF Command
<1> HIDE DEF c
<1>9. PICK d \in Command : d = c
  BY <1>8
<1>10. PICK i \in Id : i = drawn + 1
  BY <1>7
<1>11. /\ d.copy.title \in Gap \ d.gaps
       /\ Missing(d, d.copy.title) /\ \A h \in d.gaps : Missing(d, h)
  BY <1>2, <1>4, <1>6, <1>8, <1>9 DEF Missing
<1>12. CommandOK(d)'
  BY <1>0, <1>4, <1>5, <1>6, <1>7, <1>8, <1>9, <1>10, <1>11, DrawCommand
<1>13. Rest'
  BY <1>0, <1>3 DEF Rest
<1> QED
  BY <1>5, <1>7, <1>8, <1>9, <1>10, <1>12, <1>13, DrawKeeps

-----------------------------------------------------------------------------
(* The steps that write a ticket.                                          *)
LEMMA OwnCommand ==
  ASSUME Inv, NEW a \in Actor, cmd[a] # None
  PROVE  /\ TypeOK /\ FilesOK /\ Rest
         /\ cmd[a] \in Command /\ CommandOK(cmd[a])
         /\ cmd[a].id \in Id /\ cmd[a].id <= drawn /\ cmd[a].copy \in File
<1>1. TypeOK /\ FilesOK /\ Rest /\ cmd[a] \in Command /\ CommandOK(cmd[a])
  BY TypeFacts, CmdAt DEF Inv, CommandsOK, RunsOK, Rest
<1> QED
  BY <1>1, CommandFields DEF CommandOK, Shape

(* Filling in an allocated ticket keeps the invariant.                     *)
LEMMA FillKeeps ==
  ASSUME Inv, NEW a \in Actor, Fill(a)
  PROVE  Inv'
<1> DEFINE next == IF cmd[a].parent = None THEN None ELSE [cmd[a] EXCEPT !.at = "link"]
<1>1. PICK c : c = cmd[a]
  OBVIOUS
<1>2. /\ TypeOK /\ FilesOK /\ Rest /\ c \in Command /\ CommandOK(c) /\ Shape(c) /\ Fresh(c)
      /\ c.id \in Id /\ c.id <= drawn /\ c.copy \in File /\ c # None
      /\ c.at = "fill" /\ c.op # "finish"
  BY <1>1, OwnCommand DEF Fill, At, CommandOK
<1>3. /\ Save(a, c, c.id, c.copy, {}, next) /\ archive' = archive /\ drawn' = drawn
      /\ made' = [made EXCEPT ![c.id] = c.op]
      /\ UNCHANGED <<lock, mine, commands>>
  BY <1>1 DEF Fill
<1>4. PICK i \in Id : i = c.id
  BY <1>2
<1>5. PICK r \in File : r = c.copy
  BY <1>2
<1>6. /\ c.op # "plan" => r.title = None
      /\ c.op \in {"create", "promote", "plan"}
      /\ i \notin c.touched => Blank(c, i, r)
  BY <1>2, <1>4, <1>5 DEF Shape, Fresh, Blank
<1>7. /\ c.parent # None => /\ c.op = "create" /\ c.parent \in Id /\ c.parent # c.id
                            /\ c.parentcopy # None /\ c.copy.parent = c.parent
                            /\ c.parent <= drawn
  BY <1>2, <1>6, CommandFields DEF Shape
<1>8. PICK n \in Command \cup {None} :
        /\ n = next
        /\ n # None => /\ c.parent # None /\ n.at = "link" /\ n.op = c.op /\ n.id = c.id
                       /\ n.copy = c.copy /\ n.parent = c.parent /\ n.parentcopy = c.parentcopy
                       /\ n.touched = c.touched /\ n.gaps = c.gaps
  <2>1. CASE c.parent = None
    BY <1>1, <2>1
  <2>2. CASE c.parent # None
    <3> DEFINE d == [c EXCEPT !.at = "link"]
    <3>1. /\ d \in Command /\ d.at = "link" /\ d.op = c.op /\ d.id = c.id
          /\ d.copy = c.copy /\ d.parent = c.parent /\ d.parentcopy = c.parentcopy
          /\ d.touched = c.touched /\ d.gaps = c.gaps
      BY <1>2 DEF Command
    <3>2. next = d
      BY <1>1, <2>2
    <3> HIDE DEF d, next
    <3> QED
      BY <2>2, <3>1, <3>2
  <2> QED
    BY <2>1, <2>2
<1> HIDE DEF next
<1>9. Save(a, c, i, r, {}, n) /\ Touch(a, i, n)
  BY <1>3, <1>4, <1>5, <1>8 DEF Save
<1>10. Writes(c, i, r)
  BY <1>1, <1>2, <1>3, <1>9, SaveWrites
<1>11. Sound(c, i, r)
  BY <1>2, <1>6, <1>10 DEF Sound, Shape
<1>12. ASSUME n # None PROVE CommandOK(n)'
  <2>1. /\ c.parent # None /\ n.at = "link" /\ n.op = "create" /\ n.id = i
        /\ n.copy = r /\ n.parent = c.parent /\ n.parentcopy = c.parentcopy
        /\ n.touched = c.touched /\ n.parent # i /\ n.parent \in Id
    BY <1>4, <1>5, <1>7, <1>8, <1>12
  <2>2. /\ ticket'[i] = r /\ i \in Live' /\ ticket'[n.parent] = ticket[n.parent] /\ r # None
        /\ drawn' = drawn
    BY <1>2, <1>3, <1>10, <2>1, WriteBase, FileFields
  <2>3. Shape(n)'
    BY <1>2, <1>4, <1>5, <1>7, <2>1, <2>2 DEF Shape
  <2>4. Fresh(n)'
    BY <1>2, <1>7, <2>1, <2>2 DEF Fresh
  <2>5. Linkable(n)'
    BY <1>5, <1>7, <2>1, <2>2 DEF Linkable, Filed
  <2>6. Room(n)' /\ Ready(n)' /\ Unfiled(n)'
    BY <2>1 DEF Room, Ready, Unfiled
  <2> QED
    BY <2>3, <2>4, <2>5, <2>6 DEF CommandOK
<1>13. Rest'
  BY <1>2, <1>3, <1>6 DEF Rest, Origin
<1>14. Creates(a) /\ (n # None => n.id = cmd[a].id)
  BY <1>1, <1>2, <1>8 DEF Creates
<1> QED
  BY <1>1, <1>2, <1>4, <1>9, <1>11, <1>12, <1>13, <1>14, WriteKeeps

(* Linking a child to its parent keeps the invariant.                      *)
LEMMA LinkKeeps ==
  ASSUME Inv, NEW a \in Actor, Link(a)
  PROVE  Inv'
<1>1. PICK c : c = cmd[a]
  OBVIOUS
<1>2. /\ TypeOK /\ FilesOK /\ Rest /\ c \in Command /\ CommandOK(c) /\ Shape(c) /\ Fresh(c)
      /\ c.id \in Id /\ c # None /\ c.at = "link"
  BY <1>1, OwnCommand DEF Link, At, CommandOK
<1>3. /\ c.op = "create" /\ c.parent \in Id /\ c.parent <= drawn /\ c.parent # c.id
      /\ c.parentcopy \in File
      /\ c.parent \notin c.touched => ticket[c.parent] = c.parentcopy
  BY <1>2, CommandFields DEF Shape, Fresh
<1>4. PICK i \in Id : i = c.parent
  BY <1>3
<1>5. PICK f \in File : f = c.parentcopy
  BY <1>3
<1>6. PICK r \in File : /\ r = ChildAdded(f, c.id)
                        /\ r.type = f.type /\ r.parent = f.parent /\ r.blockers = f.blockers
                        /\ r.title = f.title /\ r.status = f.status
                        /\ r.children = f.children \cup {c.id}
  BY <1>2, ChildFile
<1>7. PICK ms \in SUBSET {"stale", "listed", "worked", "reopened", "extra"} :
        /\ ms = Marks(c, i, f)
        /\ i \in c.touched => "stale" \in ms
        /\ f.status # "todo" => "worked" \in ms
        /\ i \in Live /\ ticket[i].status = "done" /\ f.status # "done" => "reopened" \in ms
        /\ /\ f.status = "active" /\ i \notin Active
           /\ c.op # "next" \/ Active \cap c.touched # {}
           => "extra" \in ms
  <2> DEFINE ms == Marks(c, i, f)
  <2>1. ms \subseteq {"stale", "listed", "worked", "reopened", "extra"}
    BY MarksTyped
  <2>2. /\ i \in c.touched => "stale" \in ms
        /\ f.status # "todo" => "worked" \in ms
        /\ i \in Live /\ ticket[i].status = "done" /\ f.status # "done" => "reopened" \in ms
        /\ /\ f.status = "active" /\ i \notin Active
           /\ c.op # "next" \/ Active \cap c.touched # {}
           => "extra" \in ms
    BY <1>1 DEF Marks
  <2> HIDE DEF ms
  <2> QED
    BY <2>1, <2>2 DEF ms
<1>8. /\ ticket' = [ticket EXCEPT ![i] = r]
      /\ past' = [past EXCEPT ![c.id] = @ \cup {"linked"}, ![i] = @ \cup ms]
      /\ Touch(a, i, None)
      /\ UNCHANGED <<archive, drawn, lock, mine, made, commands>>
  BY <1>1, <1>4, <1>5, <1>6, <1>7 DEF Link
<1>9. past \in PastType /\ ticket \in FileType
  BY <1>2, TypeFacts
<1>10. /\ past' \in PastType
       /\ past'[i] = past[i] \cup ms
       /\ past'[c.id] = past[c.id] \cup {"linked"}
       /\ \A j \in Id \ {i, c.id} : past'[j] = past[j]
  BY <1>2, <1>3, <1>4, <1>7, <1>8, <1>9 DEF PastType, Mark
<1>11. Writes(c, i, r)
  <2>1. /\ \A j \in Id : past[j] \ {"given"} \subseteq past'[j]
        /\ \A j \in Id \ {i} :
             past'[j] = past[j] \/ (c.at = "link" /\ j = c.id /\ past'[j] = past[j] \cup {"linked"})
    BY <1>2, <1>10
  <2>2. /\ "given" \in past'[i] => "given" \in past[i]
        /\ "regiven" \in past'[i] => "regiven" \in past[i]
        /\ "linked" \in past'[i] => "linked" \in past[i]
    BY <1>7, <1>10
  <2>3. /\ i \in c.touched => "stale" \in past'[i]
        /\ r.status # "todo" => "worked" \in past'[i]
        /\ i \in Live /\ ticket[i].status = "done" /\ r.status # "done" => "reopened" \in past'[i]
        /\ /\ r.status = "active" /\ i \notin Active
           /\ c.op # "next" \/ Active \cap c.touched # {}
           => "extra" \in past'[i]
    BY <1>6, <1>7, <1>10
  <2> QED
    BY <1>2, <1>3, <1>8, <1>10, <2>1, <2>2, <2>3 DEF Writes
<1>12. i \notin c.touched => Same(i, r) /\ r.status = ticket[i].status
  BY <1>3, <1>4, <1>5, <1>6, FileFields DEF Same
<1>13. Sound(c, i, r)
  BY <1>2, <1>3, <1>4, <1>6, <1>11, <1>12 DEF Sound
<1>14. Rest'
  BY <1>2, <1>8 DEF Rest
<1> QED
  BY <1>1, <1>2, <1>3, <1>4, <1>8, <1>13, <1>14, WriteKeeps

(* Starting the claimed ticket keeps the invariant.                        *)
LEMMA StartKeeps ==
  ASSUME Inv, NEW a \in Actor, Start(a)
  PROVE  Inv'
<1>1. PICK c : c = cmd[a]
  OBVIOUS
<1>2. /\ TypeOK /\ FilesOK /\ Rest /\ c \in Command /\ CommandOK(c) /\ Shape(c) /\ Fresh(c)
      /\ c.id \in Id /\ c.id <= drawn /\ c.copy \in File /\ c # None /\ c.at = "start"
  BY <1>1, OwnCommand DEF Start, At, CommandOK
<1>3. PICK i \in Id : i = c.id
  BY <1>2
<1>4. PICK r \in File : /\ r = Started(c.copy) /\ r.status = "active"
                        /\ r.type = c.copy.type /\ r.parent = c.copy.parent
                        /\ r.blockers = c.copy.blockers /\ r.title = c.copy.title
                        /\ r.children = c.copy.children
  <2>1. "active" \in Status
    BY DEF Status
  <2> QED
    BY <1>2, <2>1, StatusFile DEF Started
<1>5. PICK marks \in SUBSET {"given", "regiven", "repeated"} :
        /\ marks = {"given"} \cup (IF "given" \in past[i] THEN {"regiven"} ELSE {})
        /\ "regiven" \in marks => "given" \in past[i]
  <2> DEFINE marks == {"given"} \cup (IF "given" \in past[i] THEN {"regiven"} ELSE {})
  <2>1. marks \in SUBSET {"given", "regiven", "repeated"}
    OBVIOUS
  <2>2. "regiven" \in marks => "given" \in past[i]
    OBVIOUS
  <2> QED
    BY <2>1, <2>2
<1>6. /\ Save(a, c, i, r, marks, None)
      /\ UNCHANGED <<archive, drawn, lock, mine, made, commands>>
  BY <1>1, <1>3, <1>4, <1>5 DEF Start
<1>7. Writes(c, i, r)
  BY <1>1, <1>2, <1>4, <1>5, <1>6, SaveWrites
<1>8. i \notin c.touched => ticket[i] = c.copy /\ Same(i, r)
  BY <1>2, <1>3, <1>4, FileFields DEF Fresh, Same
<1>9. Sound(c, i, r)
  BY <1>2, <1>3, <1>4, <1>7, <1>8 DEF Sound, Shape
<1>10. Rest' /\ Touch(a, i, None)
  BY <1>2, <1>6 DEF Rest, Save
<1> QED
  BY <1>1, <1>2, <1>3, <1>9, <1>10, WriteKeeps

(* Storing a status keeps the invariant.                                   *)
LEMMA StoreKeeps ==
  ASSUME Inv, NEW a \in Actor, Store(a)
  PROVE  Inv'
<1>1. PICK c : c = cmd[a]
  OBVIOUS
<1>2. /\ TypeOK /\ FilesOK /\ Rest /\ c \in Command /\ CommandOK(c) /\ Shape(c) /\ Fresh(c)
      /\ c.id \in Id /\ c.id <= drawn /\ c.copy \in File /\ c # None /\ c.at = "store"
  BY <1>1, OwnCommand DEF Store, At, CommandOK
<1>3. PICK i \in Id : i = c.id
  BY <1>2
<1>4. PICK r \in File : /\ r = IF c.status = "keep" THEN c.copy ELSE [c.copy EXCEPT !.status = c.status]
                        /\ r.type = c.copy.type /\ r.parent = c.copy.parent
                        /\ r.blockers = c.copy.blockers /\ r.title = c.copy.title
                        /\ r.children = c.copy.children
  <2>1. c.status \in Status \cup {"keep"}
    BY <1>2, CommandFields
  <2>2. CASE c.status = "keep"
    BY <1>2, <2>2
  <2>3. CASE c.status # "keep"
    <3> DEFINE f == [c.copy EXCEPT !.status = c.status]
    <3>1. /\ f \in File /\ f.type = c.copy.type /\ f.parent = c.copy.parent
          /\ f.blockers = c.copy.blockers /\ f.title = c.copy.title
          /\ f.children = c.copy.children
      BY <1>2, <2>1, <2>3, StatusFile
    <3> HIDE DEF f
    <3> QED
      BY <2>3, <3>1 DEF f
  <2> QED
    BY <2>2, <2>3
<1>5. PICK n \in Command \cup {None} :
        /\ n = IF c.op \in {"finish", "suspend"} THEN [c EXCEPT !.at = "release"] ELSE None
        /\ n # None => /\ n.at = "release" /\ n.op = c.op /\ n.id = c.id /\ n.parent = c.parent
                       /\ c.op \in {"finish", "suspend"}
  <2> DEFINE d == [c EXCEPT !.at = "release"]
  <2>1. d \in Command /\ d.at = "release" /\ d.op = c.op /\ d.id = c.id /\ d.parent = c.parent
    BY <1>2 DEF Command
  <2> HIDE DEF d
  <2>2. CASE c.op \in {"finish", "suspend"}
    BY <2>1, <2>2 DEF d
  <2>3. CASE c.op \notin {"finish", "suspend"}
    BY <2>3
  <2> QED
    BY <2>2, <2>3
<1>6. /\ Save(a, c, i, r, {}, n)
      /\ UNCHANGED <<archive, drawn, lock, mine, made, commands>>
  BY <1>1, <1>3, <1>4, <1>5 DEF Store
<1>7. Writes(c, i, r)
  BY <1>1, <1>2, <1>6, SaveWrites
<1>8. i \notin c.touched => Same(i, r)
  BY <1>2, <1>3, <1>4, FileFields DEF Fresh, Same
<1>9. Sound(c, i, r)
  BY <1>2, <1>7, <1>8 DEF Sound, Shape
<1>10. ASSUME n # None PROVE CommandOK(n)'
  <2>1. Reads(n)'
    BY <1>2, <1>5, <1>6, <1>10 DEF Reads, Shape
  <2> QED
    BY <1>5, <1>10, <2>1, ReadsOKNext
<1>11. Rest' /\ Touch(a, i, n)
  BY <1>2, <1>6 DEF Rest, Save
<1>12. n # None => n.at = "release"
  BY <1>5
<1> QED
  BY <1>1, <1>2, <1>3, <1>9, <1>10, <1>11, <1>12, WriteKeeps

(* Moving a file to the archive keeps the invariant.                       *)
LEMMA RenameKeeps ==
  ASSUME Inv, NEW a \in Actor, Rename(a)
  PROVE  Inv'
<1>1. cmd[a] # None
  BY DEF Rename, At
<1>2. PICK i \in Id : i = cmd[a].id
  BY <1>1, OwnCommand
<1>3. Moves(i) /\ Touch(a, i, None) /\ UNCHANGED <<lock, mine, made, commands>>
  BY <1>2 DEF Rename, Moves
<1>4. Rest'
  BY <1>1, <1>3, OwnCommand DEF Rest
<1> QED
  BY <1>3, <1>4, MoveKeeps

(* Filling in a follow-up keeps the invariant.                             *)
LEMMA FillFollowUpKeeps ==
  ASSUME Inv, NEW a \in Actor, FillFollowUp(a)
  PROVE  Inv'
<1>1. PICK c : c = cmd[a]
  OBVIOUS
<1>2. /\ TypeOK /\ FilesOK /\ Rest /\ c \in Command /\ CommandOK(c) /\ Shape(c) /\ Fresh(c)
      /\ c.id \in Id /\ c.id <= drawn /\ c.copy \in File /\ c # None
      /\ c.at = "fill" /\ c.op = "finish" /\ Unfiled(c)
  BY <1>1, OwnCommand DEF FillFollowUp, At, CommandOK
<1>3. PICK i \in Id : i = c.id
  BY <1>2
<1>4. PICK r \in File : r = c.copy
  BY <1>2
<1>5. /\ c.parent \in Id /\ c.parent # i /\ c.parent <= drawn
      /\ r.title \in Gap \ c.gaps /\ r.parent = c.parent
      /\ c.gaps \subseteq Gap /\ c.touched \subseteq Id
      /\ i \notin c.touched => Blank(c, i, r)
  BY <1>2, <1>3, <1>4, CommandFields DEF Shape, Fresh, Blank
<1>6. PICK marks \in SUBSET {"given", "regiven", "repeated"} :
        /\ marks = IF {k \in c.touched : SameGap(k, r)} = {} THEN {} ELSE {"repeated"}
        /\ (\E k \in c.touched : SameGap(k, r)) => "repeated" \in marks
        /\ "given" \notin marks /\ "regiven" \notin marks
  <2> DEFINE m == IF {k \in c.touched : SameGap(k, r)} = {} THEN {} ELSE {"repeated"}
  <2>1. (\E k \in c.touched : SameGap(k, r)) => m = {"repeated"}
    OBVIOUS
  <2>2. m \in SUBSET {"given", "regiven", "repeated"} /\ "given" \notin m /\ "regiven" \notin m
    OBVIOUS
  <2>3. (\E k \in c.touched : SameGap(k, r)) => "repeated" \in m
    BY <2>1
  <2> QED
    BY <2>2, <2>3
<1> DEFINE more == [c EXCEPT !.at = "follow"]
           last == [c EXCEPT !.at = "store", !.id = c.parent, !.copy = ticket[c.parent],
                             !.touched = {}]
           next == IF c.gaps # {} THEN more ELSE IF c.parent \notin Live THEN None ELSE last
<1>7. /\ Save(a, c, i, r, marks, next) /\ archive' = archive /\ drawn' = drawn
      /\ made' = [made EXCEPT ![i] = c.op]
      /\ UNCHANGED <<lock, mine, commands>>
  BY <1>1, <1>3, <1>4, <1>6 DEF FillFollowUp
<1>8. /\ more \in Command /\ more.at = "follow" /\ more.op = "finish" /\ more.id = i
      /\ more.parent = c.parent /\ more.gaps = c.gaps /\ more.touched = c.touched
  BY <1>2, <1>3 DEF Command
<1>9. c.parent \in Live =>
        /\ last \in Command /\ last.at = "store" /\ last.op = "finish" /\ last.id = c.parent
        /\ last.copy = ticket[c.parent] /\ last.parent = c.parent
  <2>1. c.parent \in Live => ticket[c.parent] \in File
    BY <1>2, LiveDrawn
  <2> QED
    BY <1>2, <1>5, <2>1 DEF Command
<1> HIDE DEF more, last
<1>10. next \in Command \cup {None}
  BY <1>8, <1>9
<1>11. PICK n \in Command \cup {None} : n = next
  BY <1>10
<1>12. Save(a, c, i, r, marks, n) /\ Touch(a, i, n)
  BY <1>7, <1>11 DEF Save
<1>13. Writes(c, i, r) /\ marks \subseteq past'[i]
  BY <1>1, <1>2, <1>6, <1>7, <1>12, SaveWrites
<1>14. Sound(c, i, r)
  <2>1. (\E k \in c.touched : SameGap(k, r)) => "repeated" \in past'[i]
    BY <1>6, <1>13
  <2> QED
    BY <1>2, <1>3, <1>4, <1>5, <1>13, <2>1 DEF Sound
<1>15. /\ ticket'[i] = r /\ drawn' = drawn
       /\ \A j \in Id \ {i} : ticket'[j] = ticket[j] /\ (j \in Live' <=> j \in Live)
       /\ Live' \subseteq Id
  BY <1>2, <1>7, <1>13, WriteBase
<1>16. ASSUME n # None PROVE CommandOK(n)'
  <2>1. CASE c.gaps # {}
    <3>1. /\ n.at = "follow" /\ n.op = "finish" /\ n.id = i
          /\ n.parent = c.parent /\ n.gaps = c.gaps /\ n.touched = c.touched
      BY <1>8, <1>11, <2>1
    <3>2. \A g \in c.gaps : Missing(c, g)
      BY <1>2 DEF Unfiled
    <3>3. ASSUME NEW g \in c.gaps
          PROVE  Missing(n, g)'
      BY <1>5, <1>15, <3>1, <3>2, <3>3 DEF Missing
    <3>4. c.parent # None /\ i <= drawn'
      BY <1>2, <1>3, <1>5, <1>15, NoneAssumption
    <3>5. Shape(n)'
      BY <1>5, <1>15, <3>1, <3>4 DEF Shape
    <3> QED
      BY <3>1, <3>3, <3>5 DEF CommandOK, Fresh, Room, Ready, Unfiled, Linkable
  <2>2. CASE c.gaps = {} /\ c.parent \in Live
    <3>1. /\ n.at = "store" /\ n.op = "finish" /\ n.id = c.parent
          /\ n.copy = ticket[c.parent] /\ n.parent = c.parent
      BY <1>9, <1>11, <2>2
    <3>2. Reads(n)'
      BY <1>5, <1>15, <3>1 DEF Reads
    <3> QED
      BY <1>16, <3>2, ReadsOKNext
  <2>3. CASE c.gaps = {} /\ c.parent \notin Live
    BY <1>11, <1>16, <2>3
  <2> QED
    BY <2>1, <2>2, <2>3
<1>17. Rest'
  BY <1>2, <1>7 DEF Rest, Origin
<1>18. n # None => n.at \in {"follow", "store"}
  BY <1>8, <1>9, <1>11
<1> QED
  BY <1>1, <1>2, <1>3, <1>12, <1>14, <1>16, <1>17, <1>18, WriteKeeps

-----------------------------------------------------------------------------
(* The beginning, and every step.                                          *)
LEMMA InitHolds ==
  ASSUME Init
  PROVE  Inv
<1>1. PICK seeds \in Seeds :
        /\ ticket = [i \in Id |-> IF i \in DOMAIN seeds THEN seeds[i] ELSE None]
        /\ made = [i \in Id |-> IF i \in DOMAIN seeds THEN "seed" ELSE None]
        /\ past = [i \in Id |-> IF i \in DOMAIN seeds THEN {"listed"} ELSE {}]
        /\ drawn = Cardinality(DOMAIN seeds)
  BY DEF Init
<1>2. PICK n \in Id : seeds \in [1 .. n -> File]
  BY SeedsAssumption
<1>3. \A i \in 1 .. n : /\ seeds[i] \in File /\ seeds[i].status = "todo" /\ seeds[i].title = None
  BY <1>2, SeedsAssumption
<1>4. drawn = n
  BY <1>1, <1>2, FS_Interval DEF Id
<1>5. /\ archive = [i \in Id |-> None] /\ lock = None /\ mine = [a \in Actor |-> None]
      /\ cmd = [a \in Actor |-> None] /\ commands = 0
      /\ \A i \in Id : past[i] \subseteq {"listed"}
  BY <1>1 DEF Init
<1>6. TypeOK
  BY <1>1, <1>2, <1>3, <1>4, <1>5, ConstantsAssumption DEF TypeOK, Origin, Mark
<1>7. \A i \in Live : i \in 1 .. n /\ ticket[i] = seeds[i] /\ ticket[i].status = "todo"
                      /\ ticket[i].title = None
  BY <1>1, <1>2, <1>3 DEF Live
<1>8. FilesOK
  <2>1. Undrawn
    BY <1>1, <1>2, <1>4, <1>5 DEF Undrawn, Id
  <2>2. StatusOK /\ GapsOK /\ GivenOnce /\ BlockersFirst /\ LinksOK
    BY <1>5, <1>7 DEF StatusOK, GapsOK, GivenOnce, BlockersFirst, LinksOK, Live
  <2>3. Active = {}
    BY <1>7 DEF Active
  <2>4. WithinLimits
    BY <2>3, FS_EmptySet, ConstantsAssumption DEF WithinLimits
  <2> QED
    BY <2>1, <2>2, <2>4 DEF FilesOK
<1> QED
  BY <1>5, <1>6, <1>8 DEF Inv, CommandsOK, RunsOK, Distinct, Creates

(* Every step keeps the invariant.                                         *)
LEMMA StepKeeps ==
  ASSUME Inv, [Next]_vars
  PROVE  Inv'
<1>1. ASSUME NEW a \in Actor, CreateStep(a)
      PROVE  Inv'
  BY <1>1, BeginCreateKeeps, BeginPromoteKeeps, BeginPlanKeeps, PlanAsKeeps, FillKeeps, LinkKeeps
     DEF CreateStep
<1>2. ASSUME NEW a \in Actor, WorkStep(a)
      PROVE  Inv'
  <2>1. CASE \E i \in Id : Choose(a, i) \/ TakeLock(a, i) \/ BeginCleanup(a, i)
    BY <2>1, ChooseKeeps, TakeLockKeeps, BeginCleanupKeeps
  <2>2. CASE Claim(a) \/ Start(a) \/ FillFollowUp(a)
    BY <2>2, ClaimKeeps, StartKeeps, FillFollowUpKeeps
  <2>3. CASE \E gaps \in Detected, status \in {"keep", "review", "done"} :
               BeginFinish(a, gaps, status)
    BY <2>3, BeginFinishKeeps
  <2>4. CASE \E g \in Gap : AllocateFollowUp(a, g)
    BY <2>4, AllocateFollowUpKeeps
  <2>5. CASE BeginSuspend(a) \/ BeginResume(a) \/ BeginDo(a)
    BY <2>5, BeginSuspendKeeps, BeginResumeKeeps, BeginDoKeeps
  <2>6. CASE Store(a) \/ Release(a)
    BY <2>6, StoreKeeps, ReleaseKeeps
  <2> QED
    BY <1>2, <2>1, <2>2, <2>3, <2>4, <2>5, <2>6 DEF WorkStep
<1>3. ASSUME NEW a \in Actor, ArchiveStep(a)
      PROVE  Inv'
  BY <1>3, BeginArchiveKeeps, RenameKeeps DEF ArchiveStep
<1>4. ASSUME NEW a \in Actor, Stop(a)
      PROVE  Inv'
  BY <1>4, StopKeeps
<1> QED
  BY <1>1, <1>2, <1>3, <1>4, ExpiryKeeps, IdleKeeps DEF Next

-----------------------------------------------------------------------------
(* The hierarchy.  A ticket that init or plan filed, or that was saved     *)
(* from an old copy, may say anything.  The files and copies of any other  *)
(* are of one kind; what ticket-create files is under a ticket of a kind   *)
(* that fits.                                                              *)
Wild(i) == {"stale", "listed"} \cap past[i] # {}

HasKind(i, kind) ==
  /\ i \in Id
  /\ \/ Wild(i)
     \/ /\ ticket[i] # None \/ archive[i] # None
        /\ ticket[i] # None => ticket[i].kind = kind
        /\ archive[i] # None => archive[i].kind = kind

Fitting(r) ==
  r.parent # None =>
    /\ r.kind = "epic" => HasKind(r.parent, "intent")
    /\ r.kind = "task" => HasKind(r.parent, "intent") \/ HasKind(r.parent, "epic")

(* r is a copy of the ticket i, read at any time.                          *)
CopyOK(i, r) ==
  /\ HasKind(i, r.kind)
  /\ \/ Wild(i)
     \/ /\ made[i] = None => r.parent = None
        /\ made[i] = "create" => Fitting(r)
        /\ r.kind = "epic" => made[i] \in {None, "create"}

(* c is about to fill in its ticket.                                       *)
Filling(c) ==
  /\ c.op = "create" => c.copy.kind = "intent" \/ c.copy.parent # None
  /\ \/ Wild(c.id)
     \/ /\ made[c.id] = None /\ HasKind(c.id, c.copy.kind)
        /\ c.op = "create" => Fitting(c.copy)
        /\ c.op \notin {"create", "plan"} => c.copy.kind = "task"

Copies(c) ==
  /\ c.at = "fill" => Filling(c)
  /\ c.at # "fill" => CopyOK(c.id, c.copy)
  /\ c.op = "create" /\ c.parent # None => CopyOK(c.parent, c.parentcopy)

TopOK(i) ==
  /\ ticket[i] # None /\ made[i] = "create"
  /\ ticket[i].kind # "intent" /\ ticket[i].parent = None
  => Wild(i)

FileOK(i) ==
  /\ ticket[i] # None => CopyOK(i, ticket[i])
  /\ archive[i] # None => CopyOK(i, archive[i])
  /\ TopOK(i)

Hierarchy ==
  /\ \A i \in Id : FileOK(i) /\ (i > drawn => made[i] = None)
  /\ \A a \in Actor : cmd[a] # None => Copies(cmd[a])

(* Such a ticket has one kind.                                             *)
LEMMA OneKind ==
  ASSUME NEW i, NEW k, NEW l, HasKind(i, k), HasKind(i, l), ~Wild(i)
  PROVE  k = l
BY DEF HasKind

(* What a step keeps of all copies.                                        *)
WildKept == \A i \in Id : Wild(i) => Wild(i)'
KindsKept == \A i \in Id, k \in Kind : HasKind(i, k) => HasKind(i, k)'
CopiesKept == \A i \in Id, r \in File : CopyOK(i, r) => CopyOK(i, r)'

(* Anything is a copy of a ticket that may say anything.                   *)
LEMMA WildCopy ==
  ASSUME NEW i \in Id, NEW r, Wild(i)
  PROVE  CopyOK(i, r)
BY DEF CopyOK, HasKind

(* The same after a step.                                                  *)
LEMMA WildCopyNext ==
  ASSUME NEW i \in Id, NEW r, Wild(i)'
  PROVE  CopyOK(i, r)'
BY DEF CopyOK, HasKind

(* While tickets keep their kind, what fits does.                          *)
LEMMA FittingKept ==
  ASSUME KindsKept, NEW r \in File, Fitting(r)
  PROVE  Fitting(r)'
BY FileFields, "epic" \in Kind, "intent" \in Kind DEF KindsKept, Fitting, Kind

(* A copy stays one while its ticket is not filled in.                     *)
LEMMA CopyKept ==
  ASSUME KindsKept, WildKept, NEW i \in Id, NEW r \in File, CopyOK(i, r),
         made'[i] = made[i] \/ Wild(i)'
  PROVE  CopyOK(i, r)'
<1>1. CASE Wild(i)'
  BY <1>1, WildCopyNext
<1>2. CASE ~Wild(i)'
  <2>1. ~Wild(i) /\ made'[i] = made[i]
    BY <1>2 DEF WildKept
  <2>2. HasKind(i, r.kind)' /\ (Fitting(r) => Fitting(r)')
    BY FileFields, FittingKept DEF KindsKept, CopyOK
  <2> QED
    BY <2>1, <2>2 DEF CopyOK
<1> QED
  BY <1>1, <1>2

(* A copy of a placeholder is a copy of what is filled in.                 *)
LEMMA CopyFilled ==
  ASSUME KindsKept, WildKept, NEW i \in Id, NEW r \in File, CopyOK(i, r), NEW c, Filling(c),
         i = c.id, made'[i] = c.op, c.op # None, c.op = "plan" => Wild(i)'
  PROVE  CopyOK(i, r)'
<1>0. CASE Wild(i)'
  BY <1>0, WildCopyNext
<1>1. CASE ~Wild(i)'
  <2>0. ~Wild(i) /\ c.op # "plan"
    BY <1>1 DEF WildKept
  <2>1. HasKind(i, r.kind) /\ HasKind(i, c.copy.kind) /\ r.parent = None
    BY <2>0 DEF CopyOK, Filling
  <2>2. HasKind(i, r.kind)'
    BY <2>1, FileFields DEF KindsKept
  <2>3. r.kind = c.copy.kind
    BY <2>0, <2>1, OneKind
  <2>4. Fitting(r)'
    BY <2>1 DEF Fitting
  <2> QED
    BY <2>0, <2>1, <2>2, <2>3, <2>4 DEF CopyOK, Filling
<1> QED
  BY <1>0, <1>1

(* A command that was overtaken still has copies.                          *)
LEMMA CommandCopies ==
  ASSUME KindsKept, CopiesKept, WildKept, NEW c \in Command, Copies(c),
         c.at = "fill" => made'[c.id] = made[c.id] \/ Wild(c.id)',
         c.op = "create" /\ c.parent # None => c.parentcopy # None,
         NEW d, d.at = c.at, d.op = c.op, d.id = c.id, d.copy = c.copy,
         d.parent = c.parent, d.parentcopy = c.parentcopy
  PROVE  Copies(d)'
<1>1. /\ c.id \in Id /\ c.copy \in File /\ c.copy.kind \in Kind
      /\ c.parent \in Id \cup {None} /\ c.parentcopy \in File \cup {None}
  BY CommandFields, FileFields
<1>2. c.at = "fill" => Filling(d)'
  <2>1. SUFFICES ASSUME c.at = "fill" PROVE Filling(d)'
    OBVIOUS
  <2>2. Filling(c)
    BY <2>1 DEF Copies
  <2>3. Fitting(c.copy) => Fitting(c.copy)'
    BY <1>1, FittingKept
  <2>4. CASE Wild(c.id)'
    BY <2>2, <2>4 DEF Filling
  <2>5. CASE ~Wild(c.id)'
    <3>1. ~Wild(c.id) /\ made'[c.id] = made[c.id]
      BY <1>1, <2>1, <2>5 DEF WildKept
    <3> QED
      BY <1>1, <2>2, <2>3, <3>1 DEF Filling, KindsKept
  <2> QED
    BY <2>4, <2>5
<1>3. c.at # "fill" => CopyOK(d.id, d.copy)'
  BY <1>1 DEF Copies, CopiesKept
<1>4. d.op = "create" /\ d.parent # None => CopyOK(d.parent, d.parentcopy)'
  BY <1>1 DEF Copies, CopiesKept
<1> QED
  BY <1>2, <1>3, <1>4 DEF Copies

(* What is to be shown of a command's copies after a step.                 *)
LEMMA CopiesAs ==
  ASSUME NEW b \in Actor, NEW c, c = cmd'[b], c # None => Copies(c)'
  PROVE  (cmd[b] # None => Copies(cmd[b]))'
BY DEF Copies, CopyOK, Filling, Fitting, HasKind, Wild

(* Commands that go on beside a step keep their copies.                    *)
LEMMA HierarchyKeeps ==
  ASSUME Inv, Hierarchy, NEW a \in Actor, KindsKept, CopiesKept, WildKept,
         \A i \in Id : FileOK(i)' /\ (i > drawn' => made'[i] = None),
         \A b \in Actor \ {a} :
           \/ cmd'[b] = cmd[b]
           \/ cmd[b] # None /\ \E i \in Id : cmd'[b] = Older(cmd[b], i),
         \A b \in Actor \ {a} :
           At(b, "fill") => made'[cmd[b].id] = made[cmd[b].id] \/ Wild(cmd[b].id)',
         NEW next, next = cmd'[a], next # None => Copies(next)'
  PROVE  Hierarchy'
<1>1. ASSUME NEW b \in Actor, b # a
      PROVE  (cmd[b] # None => Copies(cmd[b]))'
  <2>1. PICK d : d = cmd'[b]
    OBVIOUS
  <2>2. CASE cmd[b] = None
    <3>1. d = None
      BY <1>1, <2>1, <2>2
    <3> QED
      BY <2>1, <3>1, CopiesAs
  <2>3. CASE cmd[b] # None
    <3>1. PICK c \in Command : c = cmd[b]
      BY <2>3, OwnCommand
    <3>2. /\ Copies(c)
          /\ c.at = "fill" => made'[c.id] = made[c.id] \/ Wild(c.id)'
          /\ c.op = "create" /\ c.parent # None => c.parentcopy # None
      <4>1. Copies(c) /\ (c.op = "create" /\ c.parent # None => c.parentcopy # None)
        BY <1>1, <2>3, <3>1, OwnCommand DEF Hierarchy, CommandOK, Shape
      <4>2. At(b, "fill") => made'[cmd[b].id] = made[cmd[b].id] \/ (Wild(cmd[b].id))'
        BY <1>1
      <4>3. (Wild(cmd[b].id))' => Wild(c.id)'
        BY <1>1, <3>1, OlderFields DEF Wild
      <4> QED
        BY <2>3, <3>1, <4>1, <4>2, <4>3 DEF At
    <3>3. /\ d.at = c.at /\ d.op = c.op /\ d.id = c.id /\ d.copy = c.copy
          /\ d.parent = c.parent /\ d.parentcopy = c.parentcopy
      BY <1>1, <2>1, <3>1, OlderFields
    <3>4. Copies(d)'
      BY <3>1, <3>2, <3>3, CommandCopies
    <3> QED
      BY <2>1, <3>4, CopiesAs
  <2> QED
    BY <2>2, <2>3
<1>2. (cmd[a] # None => Copies(cmd[a]))'
  BY CopiesAs
<1> QED
  BY <1>1, <1>2 DEF Hierarchy

(* A step that changes no file keeps the hierarchy.                        *)
LEMMA QuietHierarchy ==
  ASSUME Inv, Hierarchy, NEW a \in Actor,
         UNCHANGED <<ticket, archive, drawn, made, past>>,
         NEW next, Advance(a, next), next # None => Copies(next)
  PROVE  Hierarchy'
<1>1. /\ cmd'[a] = next
      /\ \A b \in Actor \ {a} : cmd'[b] = cmd[b]
  BY TypeFacts DEF Inv, Advance, CmdType
<1>2. KindsKept /\ CopiesKept /\ WildKept
  BY DEF KindsKept, CopiesKept, WildKept, HasKind, CopyOK, Fitting, Wild
<1>3. \A i \in Id : FileOK(i)' /\ (i > drawn' => made'[i] = None)
  BY DEF Hierarchy, FileOK, TopOK, CopyOK, Fitting, HasKind, Wild
<1>4. next # None => Copies(next)'
  BY DEF Copies, Filling, CopyOK, Fitting, HasKind, Wild
<1> QED
  BY <1>1, <1>2, <1>3, <1>4, HierarchyKeeps

(* A write of a copy keeps every ticket's kind.                            *)
LEMMA WriteKinds ==
  ASSUME TypeOK, NEW i \in Id, NEW r \in File, ticket' = [ticket EXCEPT ![i] = r],
         archive' = archive, WildKept, Wild(i)' \/ HasKind(i, r.kind)
  PROVE  KindsKept
<1>1. /\ ticket'[i] = r /\ r # None
      /\ \A j \in Id \ {i} : ticket'[j] = ticket[j]
  BY TypeFacts, FileFields DEF FileType
<1>2. ASSUME NEW j \in Id, NEW k \in Kind, HasKind(j, k)
      PROVE  HasKind(j, k)'
  <2>0. CASE Wild(j)'
    BY <2>0 DEF HasKind
  <2>1. CASE j = i /\ ~Wild(j)'
    <3>1. ~Wild(j) /\ HasKind(i, r.kind)
      BY <2>1 DEF WildKept
    <3>2. r.kind = k
      BY <1>2, <2>1, <3>1, OneKind
    <3> QED
      BY <1>1, <1>2, <2>1, <3>1, <3>2 DEF HasKind
  <2>2. CASE j # i /\ ~Wild(j)'
    <3>1. ~Wild(j)
      BY <2>2 DEF WildKept
    <3> QED
      BY <1>1, <1>2, <2>2, <3>1 DEF HasKind
  <2> QED
    BY <2>0, <2>1, <2>2
<1> QED
  BY <1>2 DEF KindsKept

(* A write keeps the hierarchy if it writes a copy, and marks it stale if  *)
(* it takes away a parent.                                                 *)
LEMMA SaveHierarchy ==
  ASSUME Inv, Hierarchy, NEW a \in Actor, NEW i \in Id, NEW r \in File,
         ticket' = [ticket EXCEPT ![i] = r], archive' = archive, drawn' = drawn,
         KindsKept, CopiesKept, WildKept, CopyOK(i, r)',
         \A j \in Id \ {i} : made'[j] = made[j],
         i <= drawn, TopOK(i)',
         \A b \in Actor \ {a} :
           At(b, "fill") => made'[cmd[b].id] = made[cmd[b].id] \/ Wild(cmd[b].id)',
         NEW next \in Command \cup {None}, Touch(a, i, next), next # None => Copies(next)'
  PROVE  Hierarchy'
<1>0. TypeOK /\ drawn \in Nat
  BY TypeFacts DEF Inv, Id
<1>1. /\ ticket'[i] = r
      /\ \A j \in Id \ {i} : ticket'[j] = ticket[j]
      /\ \A j \in Id : ticket[j] \in File \cup {None} /\ archive[j] \in File \cup {None}
  BY <1>0, TypeFacts DEF FileType
<1>2. /\ cmd'[a] = next
      /\ \A b \in Actor \ {a} :
           \/ cmd'[b] = cmd[b]
           \/ cmd[b] # None /\ \E j \in Id : cmd'[b] = Older(cmd[b], j)
  BY <1>0, TouchDoes
<1>3. ASSUME NEW j \in Id
      PROVE  FileOK(j)' /\ (j > drawn' => made'[j] = None)
  <2>1. archive[j] # None => CopyOK(j, archive[j])'
    BY <1>1 DEF Hierarchy, FileOK, CopiesKept
  <2>2. CASE j = i
    <3>1. FileOK(j)'
      BY <1>1, <2>1, <2>2 DEF FileOK
    <3> QED
      BY <1>0, <2>2, <3>1 DEF Id
  <2>3. CASE j # i
    <3>1. ticket[j] # None => CopyOK(j, ticket[j])'
      BY <1>1 DEF Hierarchy, FileOK, CopiesKept
    <3>2. TopOK(j)'
      BY <1>1, <2>3 DEF Hierarchy, FileOK, TopOK, WildKept
    <3> QED
      BY <1>1, <2>1, <2>3, <3>1, <3>2 DEF FileOK, Hierarchy
  <2> QED
    BY <2>2, <2>3
<1> QED
  BY <1>2, <1>3, HierarchyKeeps

(* A command that writes a ticket it had read keeps the hierarchy.         *)
LEMMA WriteHierarchy ==
  ASSUME Inv, Hierarchy, NEW a \in Actor, NEW i \in Id, NEW r \in File, i <= drawn,
         ticket' = [ticket EXCEPT ![i] = r], UNCHANGED <<archive, drawn, made>>,
         CopyOK(i, r), WildKept,
         \/ Wild(i)'
         \/ ticket[i] # None /\ r.parent = ticket[i].parent,
         NEW next \in Command \cup {None}, Touch(a, i, next),
         next # None => next.at # "fill" /\ next.op # "create" /\ CopyOK(next.id, next.copy)
  PROVE  Hierarchy'
<1>1. TypeOK /\ HasKind(i, r.kind) /\ r # None
  BY FileFields DEF Inv, CopyOK
<1>2. KindsKept
  BY <1>1, WriteKinds
<1>3. CopiesKept
  BY <1>2, CopyKept DEF CopiesKept
<1>4. TopOK(i)'
  <2>1. ticket'[i] = r
    BY <1>1, TypeFacts DEF FileType
  <2>2. CASE Wild(i)'
    BY <2>2 DEF TopOK
  <2>3. CASE ~Wild(i)'
    <3>1. ~Wild(i) /\ (ticket[i] # None => ticket[i].kind = r.kind)
      BY <1>1, <2>3 DEF HasKind, WildKept
    <3> QED
      BY <1>1, <2>1, <2>3, <3>1 DEF Hierarchy, FileOK, TopOK
  <2> QED
    BY <2>2, <2>3
<1>5. CopyOK(i, r)'
  BY <1>3 DEF CopiesKept
<1>6. next # None => Copies(next)'
  BY <1>3, CommandFields DEF Copies, CopiesKept
<1> QED
  BY <1>2, <1>3, <1>4, <1>5, <1>6, SaveHierarchy

(* A command that fills in its ticket keeps the hierarchy.                 *)
LEMMA FillHierarchy ==
  ASSUME Inv, Hierarchy, NEW a \in Actor, NEW c \in Command, c = cmd[a], c.at = "fill",
         NEW i \in Id, i = c.id, NEW r \in File, r = c.copy,
         ticket' = [ticket EXCEPT ![i] = r], UNCHANGED <<archive, drawn>>,
         made' = [made EXCEPT ![i] = c.op], Inv', WildKept, c.op = "plan" => Wild(i)',
         NEW next \in Command \cup {None}, Touch(a, i, next),
         KindsKept /\ CopiesKept /\ CopyOK(i, r)' /\ next # None => Copies(next)'
  PROVE  Hierarchy'
<1>0. c # None /\ At(a, "fill") /\ TypeOK /\ TypeOK'
  BY CommandFields DEF At, Inv
<1>1. /\ i <= drawn /\ Filling(c) /\ (Wild(i)' \/ HasKind(i, r.kind))
      /\ i \in Id /\ c.op # None /\ r # None
  <2>1. Filling(c)
    BY <1>0 DEF Hierarchy, Copies
  <2>2. c.op # None
    BY <1>0, OwnCommand, NoneAssumption DEF Origin, CommandOK, Shape
  <2> QED
    BY <1>0, <2>1, <2>2, OwnCommand, FileFields DEF Filling, WildKept
<1>2. /\ made'[i] = c.op
      /\ \A j \in Id \ {i} : made'[j] = made[j]
      /\ ticket'[i] = r
  BY <1>0, TypeFacts DEF FileType
<1>3. KindsKept
  BY <1>0, <1>1, WriteKinds
<1>4. CopiesKept
  BY <1>1, <1>2, <1>3, CopyKept, CopyFilled DEF CopiesKept
<1>5. CopyOK(i, r)'
  <2>0. CASE Wild(i)'
    BY <2>0, WildCopyNext
  <2>1. CASE ~Wild(i)'
    <3>0. ~Wild(i) /\ c.op # "plan" /\ HasKind(i, r.kind)
      BY <1>1, <2>1 DEF WildKept
    <3>1. HasKind(i, r.kind)'
      BY <1>3, <3>0, FileFields DEF KindsKept
    <3>2. c.op = "create" => Fitting(r)'
      BY <1>1, <1>3, <3>0, FittingKept DEF Filling
    <3> QED
      BY <1>1, <1>2, <3>0, <3>1, <3>2 DEF CopyOK, Filling
  <2> QED
    BY <2>0, <2>1
<1>6. TopOK(i)'
  BY <1>1, <1>2 DEF TopOK, Filling
<1>7. \A b \in Actor \ {a} : At(b, "fill") => made'[cmd[b].id] = made[cmd[b].id]
  <2>1. ASSUME NEW b \in Actor \ {a}, At(b, "fill")
        PROVE  made'[cmd[b].id] = made[cmd[b].id]
    <3>1. Creates(a) /\ Creates(b) /\ cmd[b].id # i
      BY <1>0, <2>1 DEF Creates, At, Inv, Distinct
    <3>2. cmd[b].id \in Id
      BY <2>1, OwnCommand DEF At
    <3> QED
      BY <1>2, <3>1, <3>2
  <2> QED
    BY <2>1
<1>8. next # None => Copies(next)'
  BY <1>3, <1>4, <1>5
<1> QED
  BY <1>1, <1>2, <1>3, <1>4, <1>5, <1>6, <1>7, <1>8, SaveHierarchy

(* A new ticket keeps the hierarchy.                                       *)
LEMMA DrawHierarchy ==
  ASSUME Inv, Hierarchy, NEW a \in Actor, NEW i \in Id, NEW r \in File, NEW ms, Draws(i, r, ms),
         \A j \in Id \ {i} : made'[j] = made[j], made'[i] # "create",
         HasKind(i, r.kind)' => CopyOK(i, r)',
         NEW next \in Command \cup {None}, Touch(a, i, next),
         KindsKept /\ CopiesKept /\ HasKind(i, r.kind)' /\ next # None => Copies(next)'
  PROVE  Hierarchy'
<1>0. TypeOK /\ FilesOK /\ drawn \in Nat /\ drawn' = i
  BY TypeFacts DEF Inv, Id, Draws
<1>1. /\ ticket'[i] = r /\ r # None /\ ticket[i] = None /\ archive[i] = None /\ i > drawn
      /\ archive' = archive /\ past[i] = {} /\ made[i] = None
      /\ \A j \in Id \ {i} : ticket'[j] = ticket[j] /\ past'[j] = past[j]
      /\ \A j \in Id : ticket[j] \in File \cup {None} /\ archive[j] \in File \cup {None}
  BY <1>0, DrawBase, TypeFacts DEF Live, FileType, Draws, Hierarchy
<1>2. WildKept /\ \A k : ~HasKind(i, k)
  BY <1>1 DEF WildKept, Wild, HasKind
<1>3. KindsKept
  BY <1>1, <1>2 DEF KindsKept, HasKind, Wild
<1>4. CopiesKept
  <2>1. ASSUME NEW j \in Id, NEW f \in File, CopyOK(j, f)
        PROVE  CopyOK(j, f)'
    <3>1. j # i
      BY <1>2, <2>1 DEF CopyOK
    <3> QED
      BY <1>2, <1>3, <2>1, <3>1, CopyKept
  <2> QED
    BY <2>1 DEF CopiesKept
<1>5. HasKind(i, r.kind)'
  BY <1>1 DEF HasKind
<1>6. ASSUME NEW j \in Id
      PROVE  FileOK(j)' /\ (j > drawn' => made'[j] = None)
  <2>1. CASE j = i
    BY <1>0, <1>1, <1>5, <2>1 DEF FileOK, TopOK, Id
  <2>2. CASE j # i
    <3>1. /\ ticket[j] # None => CopyOK(j, ticket[j])'
          /\ archive[j] # None => CopyOK(j, archive[j])'
      BY <1>1, <1>4 DEF Hierarchy, FileOK, CopiesKept
    <3>2. j > drawn' => made'[j] = None
      BY <1>0, <1>1, <2>2 DEF Hierarchy, Id
    <3>3. TopOK(j)'
      BY <1>1, <2>2 DEF Hierarchy, FileOK, TopOK, Wild
    <3> QED
      BY <1>1, <2>2, <3>1, <3>2, <3>3 DEF FileOK
  <2> QED
    BY <2>1, <2>2
<1>7. /\ cmd'[a] = next
      /\ \A b \in Actor \ {a} :
           \/ cmd'[b] = cmd[b]
           \/ cmd[b] # None /\ \E j \in Id : cmd'[b] = Older(cmd[b], j)
  BY <1>0, TouchDoes
<1>8. ASSUME NEW b \in Actor \ {a}, At(b, "fill")
      PROVE  made'[cmd[b].id] = made[cmd[b].id]
  <2>1. cmd[b].id \in Id /\ cmd[b].id <= drawn
    BY <1>8, OwnCommand DEF At
  <2> QED
    BY <1>0, <1>1, <2>1 DEF Id
<1> QED
  BY <1>2, <1>3, <1>4, <1>5, <1>6, <1>7, <1>8, HierarchyKeeps

(* Archiving keeps the hierarchy.                                          *)
LEMMA MoveHierarchy ==
  ASSUME Inv, Hierarchy, NEW a \in Actor, NEW i \in Id, Moves(i), made' = made,
         Touch(a, i, None)
  PROVE  Hierarchy'
<1>0. TypeOK
  BY DEF Inv
<1>1. /\ ticket'[i] = None /\ archive'[i] = ticket[i] /\ ticket[i] # None
      /\ drawn' = drawn /\ past' = past
      /\ \A j \in Id \ {i} : ticket'[j] = ticket[j] /\ archive'[j] = archive[j]
      /\ \A j \in Id : ticket[j] \in File \cup {None} /\ archive[j] \in File \cup {None}
  BY <1>0, TypeFacts DEF FileType, Moves, Live
<1>2. KindsKept /\ WildKept
  BY <1>1 DEF KindsKept, HasKind, WildKept, Wild
<1>3. CopiesKept
  BY <1>2, CopyKept DEF CopiesKept
<1>4. ASSUME NEW j \in Id
      PROVE  FileOK(j)' /\ (j > drawn' => made'[j] = None)
  <2>1. \A r \in File : r = ticket[j] \/ r = archive[j] => CopyOK(j, r)'
    BY <1>3, FileFields DEF Hierarchy, FileOK, CopiesKept
  <2>2. /\ ticket'[j] # None => ticket'[j] = ticket[j] /\ ticket[j] \in File
        /\ archive'[j] # None =>
             archive'[j] \in File /\ (archive'[j] = ticket[j] \/ archive'[j] = archive[j])
    BY <1>1
  <2>3. /\ ticket[j] # None => CopyOK(j, ticket[j])
        /\ archive[j] # None => CopyOK(j, archive[j])
        /\ TopOK(j)
        /\ j > drawn => made[j] = None
    BY DEF Hierarchy, FileOK
  <2>4. (ticket[j] # None => CopyOK(j, ticket[j]))'
    BY <2>1, <2>2
  <2>5. (archive[j] # None => CopyOK(j, archive[j]))'
    BY <2>1, <2>2
  <2>6. TopOK(j)'
    BY <1>1, <2>2, <2>3 DEF TopOK, Wild
  <2> QED
    BY <1>1, <2>3, <2>4, <2>5, <2>6 DEF FileOK
<1>5. /\ cmd'[a] = None
      /\ \A b \in Actor \ {a} :
           \/ cmd'[b] = cmd[b]
           \/ cmd[b] # None /\ \E j \in Id : cmd'[b] = Older(cmd[b], j)
  BY <1>0, TouchDoes
<1> QED
  BY <1>2, <1>3, <1>4, <1>5, HierarchyKeeps

(* What a command reads is a copy.                                         *)
LEMMA ReadCopies ==
  ASSUME Inv, Hierarchy, NEW i \in Live, NEW n, n.at # "fill", n.op # "create",
         n.id = i, n.copy = ticket[i]
  PROVE  Copies(n)
<1>1. i \in Id /\ ticket[i] # None
  BY DEF Live
<1> QED
  BY <1>1 DEF Copies, Hierarchy, FileOK

(* Steps that change no file.                                              *)
LEMMA QuietSteps ==
  ASSUME Inv, Hierarchy, NEW a \in Actor,
         \/ \E i \in Id : Choose(a, i) \/ BeginCleanup(a, i) \/ BeginArchive(a, i)
         \/ \E gaps \in Detected, status \in {"keep", "review", "done"} :
              BeginFinish(a, gaps, status)
         \/ BeginSuspend(a) \/ BeginResume(a) \/ BeginDo(a)
  PROVE  Hierarchy'
<1>1. ASSUME NEW i \in Id, Choose(a, i)
      PROVE  Hierarchy'
  <2>1. /\ i \in Live /\ Advance(a, New("next", "claim", i, ticket[i]))
        /\ UNCHANGED <<ticket, archive, drawn, made, past>>
    BY <1>1 DEF Choose, Candidates
  <2>2. Copies(New("next", "claim", i, ticket[i]))
    BY <2>1, ReadCopies DEF New
  <2> QED
    BY <2>1, <2>2, QuietHierarchy
<1>2. ASSUME NEW i \in Id, BeginCleanup(a, i)
      PROVE  Hierarchy'
  <2> DEFINE n == [New("cleanup", "store", i, ticket[i]) EXCEPT !.status = "todo"]
  <2>1. i \in Live /\ Advance(a, n) /\ UNCHANGED <<ticket, archive, drawn, made, past>>
    BY <1>2 DEF BeginCleanup
  <2>2. Copies(n)
    BY <2>1, ReadCopies DEF New
  <2> HIDE DEF n
  <2> QED
    BY <2>1, <2>2, QuietHierarchy
<1>3. ASSUME NEW i \in Id, BeginArchive(a, i)
      PROVE  Hierarchy'
  <2>1. /\ i \in Live /\ Advance(a, New("archive", "rename", i, ticket[i]))
        /\ UNCHANGED <<ticket, archive, drawn, made, past>>
    BY <1>3 DEF BeginArchive
  <2>2. Copies(New("archive", "rename", i, ticket[i]))
    BY <2>1, ReadCopies DEF New
  <2> QED
    BY <2>1, <2>2, QuietHierarchy
<1>4. ASSUME NEW gaps \in Detected, NEW status \in {"keep", "review", "done"},
             BeginFinish(a, gaps, status)
      PROVE  Hierarchy'
  <2> DEFINE i == mine[a]
             c == New("finish", "follow", i, ticket[i])
             todo == Uncovered(i, gaps)
             n == IF todo = {} THEN [c EXCEPT !.at = "store", !.status = status]
                  ELSE [c EXCEPT !.gaps = todo, !.status = status, !.parent = i]
  <2>1. i \in Live /\ Advance(a, n) /\ UNCHANGED <<ticket, archive, drawn, made, past>>
    BY <1>4 DEF BeginFinish
  <2>2. n.at # "fill" /\ n.op # "create" /\ n.id = i /\ n.copy = ticket[i]
    BY DEF New
  <2> HIDE DEF n
  <2>3. Copies(n)
    BY <2>1, <2>2, ReadCopies
  <2> QED
    BY <2>1, <2>3, QuietHierarchy
<1>5. CASE BeginSuspend(a)
  <2> DEFINE n == [New("suspend", "store", mine[a], ticket[mine[a]]) EXCEPT !.status = "paused"]
  <2>1. mine[a] \in Live /\ Advance(a, n) /\ UNCHANGED <<ticket, archive, drawn, made, past>>
    BY <1>5 DEF BeginSuspend
  <2>2. Copies(n)
    BY <2>1, ReadCopies DEF New
  <2> HIDE DEF n
  <2> QED
    BY <2>1, <2>2, QuietHierarchy
<1>6. CASE BeginResume(a)
  <2> DEFINE n == [New("resume", "store", mine[a], ticket[mine[a]]) EXCEPT !.status = "active"]
  <2>1. mine[a] \in Live /\ Advance(a, n) /\ UNCHANGED <<ticket, archive, drawn, made, past>>
    BY <1>6 DEF BeginResume
  <2>2. Copies(n)
    BY <2>1, ReadCopies DEF New
  <2> HIDE DEF n
  <2> QED
    BY <2>1, <2>2, QuietHierarchy
<1>7. CASE BeginDo(a)
  <2> DEFINE n == [New("do", "store", lock.ticket, ticket[lock.ticket]) EXCEPT !.status = "done"]
  <2>1. lock.ticket \in Live /\ Advance(a, n) /\ UNCHANGED <<ticket, archive, drawn, made, past>>
    BY <1>7 DEF BeginDo
  <2>2. Copies(n)
    BY <2>1, ReadCopies DEF New
  <2> HIDE DEF n
  <2> QED
    BY <2>1, <2>2, QuietHierarchy
<1> QED
  BY <1>1, <1>2, <1>3, <1>4, <1>5, <1>6, <1>7

(* Steps that change no file and no command.                               *)
LEMMA SameHierarchy ==
  ASSUME Hierarchy, UNCHANGED <<ticket, archive, drawn, cmd, made, past>>
  PROVE  Hierarchy'
<1>1. \A i \in Id : FileOK(i)' /\ (i > drawn' => made'[i] = None)
  BY DEF Hierarchy, FileOK, TopOK, CopyOK, Fitting, HasKind, Wild
<1>2. ASSUME NEW a \in Actor
      PROVE  (cmd[a] # None => Copies(cmd[a]))'
  <2>1. PICK c : c = cmd[a]
    OBVIOUS
  <2>2. c # None => Copies(c)
    BY <2>1 DEF Hierarchy
  <2>3. c # None => Copies(c)'
    BY <2>2 DEF Copies, Filling, CopyOK, Fitting, HasKind, Wild
  <2> QED
    BY <2>1, <2>3, CopiesAs
<1> QED
  BY <1>1, <1>2 DEF Hierarchy

(* Taking the lock for the ticket that was chosen changes no copy.         *)
LEMMA ClaimHierarchy ==
  ASSUME Inv, Hierarchy, NEW a \in Actor, Claim(a)
  PROVE  Hierarchy'
<1>1. PICK c : c = cmd[a]
  OBVIOUS
<1>2. c \in Command /\ c # None /\ c.at = "claim" /\ c.op = "next" /\ Copies(c)
  BY <1>1, OwnCommand DEF Claim, At, CommandOK, Shape, Hierarchy
<1> DEFINE n == [c EXCEPT !.at = "start"]
<1>3. n.at = "start" /\ n.op = "next" /\ n.id = c.id /\ n.copy = c.copy
  BY <1>2 DEF Command
<1>4. Advance(a, n) /\ UNCHANGED <<ticket, archive, drawn, made, past>>
  BY <1>1 DEF Claim
<1> HIDE DEF n
<1>5. Copies(n)
  BY <1>2, <1>3 DEF Copies
<1> QED
  BY <1>4, <1>5, QuietHierarchy

(* ticket-create files what fits its parent, and has read the parent.      *)
LEMMA CreateHierarchy ==
  ASSUME Inv, Hierarchy, NEW a \in Actor, NEW kind \in Kind, NEW parent \in Id \cup {None},
         BeginCreate(a, kind, parent)
  PROVE  Hierarchy'
<1> DEFINE pc == IF parent = None THEN None ELSE ticket[parent]
           c == [New("create", "fill", drawn + 1, Plain(kind, parent)) EXCEPT
                   !.parent = parent, !.parentcopy = pc]
<1>0. TypeOK /\ FilesOK
  BY DEF Inv
<1>1. Allocate(a, kind, c) /\ Fits(kind, parent) /\ UNCHANGED <<archive, made, past>>
  BY DEF BeginCreate
<1>2. parent # None => /\ parent \in Live /\ parent \in Id /\ ticket[parent] \in File
                       /\ CopyOK(parent, ticket[parent])
  BY <1>0, <1>1, LiveDrawn DEF Fits, Kind, Hierarchy, FileOK, Live
<1>3. Plain(kind, parent) \in File /\ Plain(kind, parent).parent = parent
      /\ Plain(kind, parent).kind = kind
  BY PlainFile DEF Plain
<1>4. PICK i \in Id : i = drawn + 1 /\ Draws(i, Plain(kind, None), {}) /\ Touch(a, i, c)
  BY <1>1, AllocateDraws
<1>5. pc \in File \cup {None} /\ (parent # None => pc = ticket[parent])
  BY <1>2
<1> HIDE DEF pc
<1>6. /\ c \in Command /\ c.op = "create" /\ c.at = "fill" /\ c.id = i
      /\ c.copy = Plain(kind, parent) /\ c.parent = parent /\ c.parentcopy = pc
  BY <1>3, <1>4, <1>5 DEF New, Command
<1> HIDE DEF c
<1>7. PICK d \in Command : d = c
  BY <1>6
<1>8. PICK f \in File : f = Plain(kind, parent) /\ f.parent = parent /\ f.kind = kind
  BY <1>3
<1>9. PICK p \in File \cup {None} : p = pc
  BY <1>5
<1>10. /\ d.op = "create" /\ d.at = "fill" /\ d.id = i /\ d.copy = f
      /\ d.parent = parent /\ d.parentcopy = p
  BY <1>6, <1>7, <1>8, <1>9
<1>11. Fitting(f) /\ (f.kind = "intent" \/ f.parent # None)
  BY <1>1, <1>2, <1>8, NoneAssumption DEF Fits, Fitting, CopyOK, Kind, Live
<1>12. made[i] = None
  <2>1. i > drawn
    BY <1>0, <1>4, TypeFacts DEF Id
  <2> QED
    BY <2>1 DEF Hierarchy
<1>13. ASSUME KindsKept, CopiesKept, HasKind(i, kind)'
       PROVE  Copies(d)'
  <2>1. Fitting(f)'
    BY <1>11, <1>13, FittingKept
  <2>2. Filling(d)'
    BY <1>1, <1>8, <1>10, <1>11, <1>12, <1>13, <2>1 DEF Filling
  <2>3. parent # None => p \in File /\ CopyOK(parent, p)
    BY <1>2, <1>5, <1>9
  <2>4. parent # None => CopyOK(parent, p)'
    BY <1>13, <2>3 DEF CopiesKept
  <2> QED
    BY <1>10, <2>2, <2>4 DEF Copies
<1>P. Plain(kind, None) \in File /\ Plain(kind, None).kind = kind
      /\ Plain(kind, None).parent = None
  BY PlainFile DEF Plain
<1>14. PICK g \in File : g = Plain(kind, None) /\ g.kind = kind /\ g.parent = None
  BY <1>P
<1>15. HasKind(i, kind)' => CopyOK(i, g)'
  BY <1>1, <1>12, <1>14, NoneAssumption DEF CopyOK, Origin
<1> QED
  BY <1>1, <1>4, <1>7, <1>12, <1>13, <1>14, <1>15, DrawHierarchy, NoneAssumption DEF Origin

(* Other commands draw an id for a task, but for plan.                     *)
LEMMA OtherHierarchy ==
  ASSUME Inv, Hierarchy, NEW a \in Actor, NEW c \in Command, NEW kind \in Kind,
         Allocate(a, kind, c), UNCHANGED <<archive, made, past>>, c.at = "fill",
         c.op # "create", c.id = drawn + 1, c.copy.kind = kind,
         c.op # "plan" => kind = "task"
  PROVE  Hierarchy'
<1>0. TypeOK /\ FilesOK
  BY DEF Inv
<1>1. PICK i \in Id : i = drawn + 1 /\ Draws(i, Plain(kind, None), {}) /\ Touch(a, i, c)
  BY <1>0, AllocateDraws
<1>2. made[i] = None
  <2>1. i > drawn
    BY <1>0, <1>1, TypeFacts DEF Id
  <2> QED
    BY <2>1 DEF Hierarchy
<1>3. ASSUME HasKind(i, kind)'
      PROVE  Copies(c)'
  BY <1>1, <1>2, <1>3 DEF Copies, Filling
<1>P. Plain(kind, None) \in File /\ Plain(kind, None).kind = kind
      /\ Plain(kind, None).parent = None
  BY PlainFile DEF Plain
<1>4. PICK g \in File : g = Plain(kind, None) /\ g.kind = kind /\ g.parent = None
  BY <1>P
<1>5. HasKind(i, kind)' => CopyOK(i, g)'
  BY <1>2, <1>4, NoneAssumption DEF CopyOK, Origin
<1> QED
  BY <1>0, <1>1, <1>2, <1>3, <1>4, <1>5, DrawHierarchy, NoneAssumption DEF Origin

(* The draws of promote, plan and finish.                                  *)
LEMMA TaskDraws ==
  ASSUME Inv, Hierarchy, NEW a \in Actor,
         \/ BeginPromote(a)
         \/ \E r \in Planned : BeginPlan(a, r)
         \/ \E g \in Gap : AllocateFollowUp(a, g)
  PROVE  Hierarchy'
<1>0. /\ "task" \in Kind /\ None \in Id \cup {None} /\ TypeOK
      /\ \A next : Allocate(a, "task", next) /\ UNCHANGED <<archive, past>>
           => drawn + 1 \in Id
  BY AllocateDraws DEF Kind, Inv
<1>1. CASE BeginPromote(a)
  <2> DEFINE f == [Plain("task", None) EXCEPT !.type = "docs"]
             c == New("promote", "fill", drawn + 1, f)
  <2>1. Allocate(a, "task", c) /\ UNCHANGED <<archive, made, past>>
    BY <1>1 DEF BeginPromote
  <2>2. f \in File /\ f.kind = "task"
    BY <1>0, PlainFile, ConstantsAssumption DEF File, Plain
  <2>3. drawn + 1 \in Id
    BY <1>0, <2>1
  <2> HIDE DEF f
  <2>4. c \in Command /\ c.op = "promote" /\ c.at = "fill" /\ c.id = drawn + 1 /\ c.copy = f
    BY <2>2, <2>3 DEF New, Command
  <2> HIDE DEF c
  <2> QED
    BY <1>0, <2>1, <2>2, <2>4, OtherHierarchy
<1>2. ASSUME NEW r \in Planned, BeginPlan(a, r)
      PROVE  Hierarchy'
  <2> DEFINE c == New("plan", "fill", drawn + 1, r)
  <2>1. Allocate(a, r.kind, c) /\ UNCHANGED <<archive, made, past>>
    BY <1>2 DEF BeginPlan
  <2>2. PICK f \in File : f = r /\ f.kind \in Kind
    BY SeedsAssumption, FileFields
  <2>3. PICK kind \in Kind : kind = f.kind
    BY <2>2
  <2>4. drawn + 1 \in Id
    BY <2>1, <2>2, AllocateDraws
  <2>5. c \in Command /\ c.op = "plan" /\ c.at = "fill" /\ c.id = drawn + 1 /\ c.copy = f
    BY <2>2, <2>4 DEF New, Command
  <2> HIDE DEF c
  <2> QED
    BY <2>1, <2>2, <2>3, <2>5, OtherHierarchy
<1>3. ASSUME NEW g \in Gap, AllocateFollowUp(a, g)
      PROVE  Hierarchy'
  <2>1. PICK e : e = cmd[a]
    OBVIOUS
  <2>2. e \in Command /\ e.op = "finish" /\ e.parent \in Id
    BY <1>3, <2>1, OwnCommand, CommandFields DEF AllocateFollowUp, At, CommandOK, Shape
  <2> DEFINE f == [Plain("task", e.parent) EXCEPT !.title = g]
             c == [e EXCEPT !.at = "fill", !.gaps = @ \ {g}, !.id = drawn + 1, !.copy = f]
  <2>3. Allocate(a, "task", c) /\ UNCHANGED <<archive, made, past>>
    BY <1>3, <2>1 DEF AllocateFollowUp
  <2>4. f \in File /\ f.kind = "task"
    BY <1>0, <2>2, PlainFile DEF File, Plain
  <2>5. drawn + 1 \in Id
    BY <1>0, <2>3
  <2> HIDE DEF f
  <2>6. c \in Command /\ c.op = "finish" /\ c.at = "fill" /\ c.id = drawn + 1 /\ c.copy = f
    BY <2>2, <2>4, <2>5 DEF Command
  <2> HIDE DEF c
  <2> QED
    BY <1>0, <2>3, <2>4, <2>6, OtherHierarchy
<1> QED
  BY <1>1, <1>2, <1>3

(* A save keeps what may say anything, and one from an old copy or by plan *)
(* adds to it.                                                             *)
LEMMA SaveStale ==
  ASSUME TypeOK, NEW a \in Actor, NEW c, NEW i \in Id, NEW r, NEW marks, NEW next,
         Save(a, c, i, r, marks, next)
  PROVE  WildKept /\ (i \in c.touched \/ c.op = "plan" => Wild(i)')
<1>1. past \in PastType
  BY TypeFacts
<1>2. i \in c.touched \/ c.op = "plan" => {"stale", "listed"} \cap Marks(c, i, r) # {}
  BY DEF Marks
<1>3. past' = [past EXCEPT ![i] = (IF r.status = "todo" THEN past[i] \ {"given"} ELSE past[i])
                                   \cup Marks(c, i, r) \cup marks]
  BY DEF Save
<1>4. /\ \A j \in Id : past[j] \ {"given"} \subseteq past'[j]
      /\ Marks(c, i, r) \subseteq past'[i]
  BY <1>1, <1>3 DEF PastType
<1>5. WildKept
  BY <1>4 DEF WildKept, Wild
<1> QED
  BY <1>2, <1>4, <1>5 DEF Wild

(* plan under a given id files a ticket that may say anything.             *)
LEMMA PlanAsHierarchy ==
  ASSUME Inv, Hierarchy, NEW a \in Actor, NEW i \in Id, NEW r \in Planned, PlanAs(a, i, r)
  PROVE  Hierarchy'
<1>0. /\ TypeOK /\ TypeOK' /\ r \in File /\ Touch(a, i, None) /\ archive' = archive
      /\ made' = [made EXCEPT ![i] = "plan"] /\ Save(a, Planning(i, r), i, r, {}, None)
      /\ Planning(i, r).op = "plan" /\ drawn \in Nat /\ i \in Nat
  BY PlanAsKeeps, PlanAsDoes DEF Inv
<1>1. WildKept /\ Wild(i)'
  BY <1>0, SaveStale
<1>2. /\ ticket' = [ticket EXCEPT ![i] = r]
      /\ made'[i] = "plan" /\ \A j \in Id \ {i} : made'[j] = made[j]
  BY <1>0, TypeFacts DEF Save
<1>3. CopyOK(i, r)' /\ TopOK(i)'
  BY <1>1, <1>2, WildCopyNext DEF TopOK
<1>4. CASE i > drawn
  <2>1. PICK ms : Draws(i, r, ms)
    BY <1>4, PlanAsNew
  <2> QED
    BY <1>0, <1>2, <1>3, <2>1, DrawHierarchy
<1>5. CASE i <= drawn
  <2>1. KindsKept
    BY <1>0, <1>1, <1>2, WriteKinds
  <2>2. ASSUME NEW j \in Id, NEW f \in File, CopyOK(j, f)
        PROVE  CopyOK(j, f)'
    <3>1. made'[j] = made[j] \/ Wild(j)'
      BY <1>1, <1>2
    <3> QED
      BY <1>1, <2>1, <2>2, <3>1, CopyKept
  <2>3. CopiesKept
    BY <2>2 DEF CopiesKept
  <2>4. ASSUME NEW b \in Actor \ {a}, At(b, "fill")
        PROVE  made'[cmd[b].id] = made[cmd[b].id] \/ Wild(cmd[b].id)'
    <3>1. PICK j \in Id : j = cmd[b].id
      BY <2>4, OwnCommand DEF At
    <3>2. made'[j] = made[j] \/ Wild(j)'
      BY <1>1, <1>2
    <3>3. PICK d : d = cmd'[b]
      OBVIOUS
    <3>4. d.id = j
      BY <1>0, <2>4, <3>1, <3>3, CmdAt, TouchDoes, OlderFields DEF At
    <3> QED
      BY <3>1, <3>2, <3>3, <3>4 DEF Wild
  <2>5. drawn' = drawn
    BY <1>5, PlanAsOver
  <2> QED
    BY <1>0, <1>1, <1>2, <1>3, <1>5, <2>1, <2>3, <2>4, <2>5, SaveHierarchy
<1> QED
  BY <1>0, <1>4, <1>5

(* Setting a status changes neither kind nor parent.                       *)
LEMMA StatusKind ==
  ASSUME NEW f \in File, NEW s \in Status
  PROVE  LET r == [f EXCEPT !.status = s]
         IN  r \in File /\ r.kind = f.kind /\ r.parent = f.parent
BY DEF File

(* Adding a child changes neither kind nor parent.                         *)
LEMMA ChildKind ==
  ASSUME NEW f \in File, NEW i \in Id
  PROVE  ChildAdded(f, i).kind = f.kind /\ ChildAdded(f, i).parent = f.parent
BY DEF File, ChildAdded

(* A command that writes its copy, with any status, keeps the hierarchy.   *)
LEMMA CopyHierarchy ==
  ASSUME Inv, Hierarchy, NEW a \in Actor, NEW c \in Command, c = cmd[a],
         c.at \in {"start", "store"}, NEW r \in File, r.kind = c.copy.kind,
         r.parent = c.copy.parent, NEW marks, NEW next \in Command \cup {None},
         Save(a, c, c.id, r, marks, next), UNCHANGED <<archive, drawn, made>>,
         next # None => /\ next.at # "fill" /\ next.op # "create"
                        /\ next.id = c.id /\ next.copy = c.copy
  PROVE  Hierarchy'
<1>1. /\ TypeOK /\ c # None /\ Fresh(c) /\ c.id \in Id /\ c.id <= drawn /\ c.copy \in File
  BY CommandFields, OwnCommand DEF CommandOK
<1>2. CopyOK(c.id, c.copy)
  BY <1>1 DEF Hierarchy, Copies
<1>3. CopyOK(c.id, r)
  BY <1>2 DEF CopyOK, Fitting
<1>4. WildKept /\ (c.id \in c.touched => Wild(c.id)')
  BY <1>1, SaveStale
<1>5. c.id \notin c.touched => ticket[c.id] # None /\ r.parent = ticket[c.id].parent
  BY <1>1, FileFields DEF Fresh
<1>6. ticket' = [ticket EXCEPT ![c.id] = r] /\ Touch(a, c.id, next)
  BY DEF Save
<1>7. PICK i \in Id : i = c.id
  BY <1>1
<1> QED
  BY <1>1, <1>2, <1>3, <1>4, <1>5, <1>6, <1>7, WriteHierarchy

(* Starting and storing write the copy with another status.                *)
LEMMA StoreHierarchy ==
  ASSUME Inv, Hierarchy, NEW a \in Actor, Start(a) \/ Store(a)
  PROVE  Hierarchy'
<1>1. PICK c : c = cmd[a]
  OBVIOUS
<1>2. c \in Command /\ c # None /\ Shape(c) /\ c.copy \in File /\ c.status \in Status \cup {"keep"}
  BY <1>1, OwnCommand, CommandFields DEF Start, Store, At, CommandOK
<1>3. CASE Start(a)
  <2>1. PICK r \in File : /\ r = Started(c.copy)
                          /\ r.kind = c.copy.kind /\ r.parent = c.copy.parent
    <3>1. "active" \in Status
      BY DEF Status
    <3> QED
      BY <1>2, <3>1, StatusKind DEF Started
  <2>2. PICK marks : marks = {"given"} \cup (IF "given" \in past[c.id] THEN {"regiven"} ELSE {})
    OBVIOUS
  <2>3. /\ Save(a, c, c.id, r, marks, None) /\ UNCHANGED <<archive, drawn, made>>
        /\ c.at = "start"
    BY <1>1, <1>3, <2>1, <2>2 DEF Start, At
  <2> QED
    BY <1>1, <1>2, <2>1, <2>3, CopyHierarchy
<1>4. CASE Store(a)
  <2>1. PICK r \in File : /\ r = IF c.status = "keep" THEN c.copy ELSE [c.copy EXCEPT !.status = c.status]
                          /\ r.kind = c.copy.kind /\ r.parent = c.copy.parent
    <3>1. CASE c.status = "keep"
      BY <1>2, <3>1
    <3>2. CASE c.status # "keep"
      <4> DEFINE f == [c.copy EXCEPT !.status = c.status]
      <4>1. f \in File /\ f.kind = c.copy.kind /\ f.parent = c.copy.parent
        BY <1>2, <3>2, StatusKind
      <4> HIDE DEF f
      <4> QED
        BY <3>2, <4>1 DEF f
    <3> QED
      BY <3>1, <3>2
  <2>2. PICK n \in Command \cup {None} :
          /\ n = IF c.op \in {"finish", "suspend"} THEN [c EXCEPT !.at = "release"] ELSE None
          /\ n # None => /\ n.at # "fill" /\ n.op # "create" /\ n.id = c.id /\ n.copy = c.copy
    <3> DEFINE d == [c EXCEPT !.at = "release"]
    <3>1. d \in Command /\ d.at = "release" /\ d.op = c.op /\ d.id = c.id /\ d.copy = c.copy
      BY <1>2 DEF Command
    <3> HIDE DEF d
    <3>2. CASE c.op \in {"finish", "suspend"}
      BY <3>1, <3>2 DEF d
    <3>3. CASE c.op \notin {"finish", "suspend"}
      BY <3>3
    <3> QED
      BY <3>2, <3>3
  <2>3. /\ Save(a, c, c.id, r, {}, n) /\ UNCHANGED <<archive, drawn, made>> /\ c.at = "store"
    BY <1>1, <1>4, <2>1, <2>2 DEF Store, At
  <2> QED
    BY <1>1, <1>2, <2>1, <2>2, <2>3, CopyHierarchy
<1> QED
  BY <1>3, <1>4

(* Linking writes the parent's copy, with one more child.                  *)
LEMMA LinkHierarchy ==
  ASSUME Inv, Hierarchy, NEW a \in Actor, Link(a)
  PROVE  Hierarchy'
<1>1. PICK c : c = cmd[a]
  OBVIOUS
<1>2. /\ TypeOK /\ c \in Command /\ Shape(c) /\ Fresh(c) /\ c.id \in Id /\ c # None
      /\ c.at = "link" /\ Copies(c)
  BY <1>1, OwnCommand DEF Link, At, CommandOK, Hierarchy
<1>3. /\ c.op = "create" /\ c.parent # None /\ c.parent \in Id /\ c.parent <= drawn
      /\ c.parentcopy \in File
      /\ c.parent \notin c.touched => ticket[c.parent] = c.parentcopy
  BY <1>2, CommandFields DEF Shape, Fresh
<1>4. PICK i \in Id : i = c.parent
  BY <1>3
<1>5. PICK r \in File : /\ r = ChildAdded(c.parentcopy, c.id)
                        /\ r.kind = c.parentcopy.kind /\ r.parent = c.parentcopy.parent
  BY <1>2, <1>3, ChildFile, ChildKind
<1>6. CopyOK(i, r)
  BY <1>2, <1>3, <1>4, <1>5 DEF Copies, CopyOK, Fitting
<1>7. PICK ms : ms = Marks(c, i, c.parentcopy) /\ (i \in c.touched => "stale" \in ms)
  <2> DEFINE ms == Marks(c, i, c.parentcopy)
  <2>1. i \in c.touched => "stale" \in ms
    BY <1>1 DEF Marks
  <2> HIDE DEF ms
  <2> QED
    BY <2>1 DEF ms
<1>8. /\ ticket' = [ticket EXCEPT ![i] = r]
      /\ past' = [past EXCEPT ![c.id] = @ \cup {"linked"}, ![i] = @ \cup ms]
      /\ Touch(a, i, None) /\ UNCHANGED <<archive, drawn, made>>
  BY <1>1, <1>4, <1>5, <1>7 DEF Link
<1>9. WildKept /\ (i \in c.touched => Wild(i)')
  <2>1. past \in PastType
    BY <1>2, TypeFacts
  <2> QED
    BY <1>2, <1>7, <1>8, <2>1 DEF PastType, WildKept, Wild
<1>10. i \notin c.touched => ticket[i] # None /\ r.parent = ticket[i].parent
  BY <1>3, <1>4, <1>5, FileFields
<1> QED
  BY <1>3, <1>4, <1>6, <1>8, <1>9, <1>10, WriteHierarchy

(* Filling in a ticket files what fits.                                    *)
LEMMA FilledHierarchy ==
  ASSUME Inv, Hierarchy, NEW a \in Actor, Fill(a)
  PROVE  Hierarchy'
<1> DEFINE next == IF cmd[a].parent = None THEN None ELSE [cmd[a] EXCEPT !.at = "link"]
<1>1. PICK c : c = cmd[a]
  OBVIOUS
<1>2. /\ TypeOK /\ c \in Command /\ Shape(c) /\ c # None /\ c.at = "fill" /\ c.op # "finish"
      /\ c.id \in Id /\ c.copy \in File /\ Copies(c)
  BY <1>1, OwnCommand DEF Fill, At, CommandOK, Hierarchy
<1>3. /\ Save(a, c, c.id, c.copy, {}, next) /\ UNCHANGED <<archive, drawn>>
      /\ made' = [made EXCEPT ![c.id] = c.op]
  BY <1>1 DEF Fill
<1>4. PICK i \in Id : i = c.id
  BY <1>2
<1>5. PICK r \in File : r = c.copy
  BY <1>2
<1>6. c.parent # None => c.op = "create" /\ c.parent \in Id /\ c.parentcopy \in File
  BY <1>2, CommandFields DEF Shape
<1>7. PICK n \in Command \cup {None} :
        /\ n = next
        /\ n # None => /\ c.parent # None /\ n.at = "link" /\ n.id = i
                       /\ n.copy = r /\ n.parent = c.parent /\ n.parentcopy = c.parentcopy
  <2>1. CASE c.parent = None
    BY <1>1, <2>1
  <2>2. CASE c.parent # None
    <3> DEFINE d == [c EXCEPT !.at = "link"]
    <3>1. /\ d \in Command /\ d.at = "link" /\ d.id = c.id /\ d.copy = c.copy
          /\ d.parent = c.parent /\ d.parentcopy = c.parentcopy
      BY <1>2 DEF Command
    <3>2. next = d
      BY <1>1, <2>2
    <3> HIDE DEF d, next
    <3> QED
      BY <1>4, <1>5, <2>2, <3>1, <3>2
  <2> QED
    BY <2>1, <2>2
<1> HIDE DEF next
<1>8. /\ Save(a, c, i, r, {}, n) /\ Touch(a, i, n) /\ ticket' = [ticket EXCEPT ![i] = r]
      /\ WildKept /\ (c.op = "plan" => Wild(i)')
  <2>1. Save(a, c, i, r, {}, n)
    BY <1>3, <1>4, <1>5, <1>7
  <2> QED
    BY <1>2, <2>1, SaveStale DEF Save
<1>9. ASSUME CopiesKept, CopyOK(i, r)', n # None
      PROVE  Copies(n)'
  <2>1. CopyOK(c.parent, c.parentcopy)
    BY <1>2, <1>6, <1>7, <1>9 DEF Copies
  <2>2. CopyOK(c.parent, c.parentcopy)'
    BY <1>6, <1>7, <1>9, <2>1 DEF CopiesKept
  <2> QED
    BY <1>7, <1>9, <2>2 DEF Copies
<1>10. Inv'
  BY FillKeeps
<1> QED
  BY <1>1, <1>2, <1>3, <1>4, <1>5, <1>8, <1>9, <1>10, FillHierarchy

(* Filling in a follow-up files a task.                                    *)
LEMMA FollowUpHierarchy ==
  ASSUME Inv, Hierarchy, NEW a \in Actor, FillFollowUp(a)
  PROVE  Hierarchy'
<1>1. PICK c : c = cmd[a]
  OBVIOUS
<1>2. /\ TypeOK /\ FilesOK /\ c \in Command /\ Shape(c) /\ c # None /\ c.at = "fill"
      /\ c.op = "finish" /\ c.id \in Id /\ c.copy \in File /\ c.parent \in Id
  BY <1>1, OwnCommand, CommandFields DEF FillFollowUp, At, CommandOK, Shape
<1>3. PICK i \in Id : i = c.id
  BY <1>2
<1>4. PICK r \in File : r = c.copy
  BY <1>2
<1>5. PICK marks : marks = IF {k \in c.touched : SameGap(k, c.copy)} = {} THEN {} ELSE {"repeated"}
  OBVIOUS
<1> DEFINE more == [c EXCEPT !.at = "follow"]
           last == [c EXCEPT !.at = "store", !.id = c.parent, !.copy = ticket[c.parent],
                             !.touched = {}]
           next == IF c.gaps # {} THEN more ELSE IF c.parent \notin Live THEN None ELSE last
<1>6. /\ Save(a, c, i, r, marks, next) /\ UNCHANGED <<archive, drawn>>
      /\ made' = [made EXCEPT ![i] = c.op]
  BY <1>1, <1>3, <1>4, <1>5 DEF FillFollowUp
<1>7. more \in Command /\ more.at = "follow" /\ more.op = "finish" /\ more.id = i /\ more.copy = r
  BY <1>2, <1>3, <1>4 DEF Command
<1>8. c.parent \in Live =>
        /\ last \in Command /\ last.at = "store" /\ last.op = "finish" /\ last.id = c.parent
        /\ last.copy = ticket[c.parent] /\ last.copy \in File
  <2>1. c.parent \in Live => ticket[c.parent] \in File
    BY <1>2, LiveDrawn
  <2> QED
    BY <1>2, <2>1 DEF Command
<1> HIDE DEF more, last
<1>9. PICK n \in Command \cup {None} :
        /\ n = next
        /\ n # None => /\ n.at # "fill" /\ n.op # "create" /\ n.id \in Id /\ n.copy \in File
                       /\ (n.id = i /\ n.copy = r) \/ CopyOK(n.id, n.copy)
  <2>1. CASE c.gaps # {}
    BY <1>7, <2>1
  <2>2. CASE c.gaps = {} /\ c.parent \in Live
    <3>1. CopyOK(c.parent, ticket[c.parent])
      BY <1>2, <2>2 DEF Hierarchy, FileOK, Live
    <3> QED
      BY <1>2, <1>8, <2>2, <3>1
  <2>3. CASE c.gaps = {} /\ c.parent \notin Live
    BY <2>3
  <2> QED
    BY <2>1, <2>2, <2>3
<1> HIDE DEF next
<1>10. /\ Save(a, c, i, r, marks, n) /\ Touch(a, i, n) /\ ticket' = [ticket EXCEPT ![i] = r]
       /\ WildKept
  <2>1. Save(a, c, i, r, marks, n)
    BY <1>6, <1>9
  <2> QED
    BY <1>2, <2>1, SaveStale DEF Save
<1>11. ASSUME CopiesKept, CopyOK(i, r)', n # None
       PROVE  Copies(n)'
  <2>1. CopyOK(n.id, n.copy)'
    BY <1>9, <1>11 DEF CopiesKept
  <2> QED
    BY <1>9, <1>11, <2>1 DEF Copies
<1>12. Inv'
  BY FillFollowUpKeeps
<1> QED
  BY <1>1, <1>2, <1>3, <1>4, <1>6, <1>10, <1>11, <1>12, FillHierarchy

(* Every step keeps the hierarchy.                                         *)
LEMMA HierarchyStep ==
  ASSUME Inv, Hierarchy, [Next]_vars
  PROVE  Hierarchy'
<1>1. ASSUME NEW a \in Actor, CreateStep(a)
      PROVE  Hierarchy'
  BY <1>1, CreateHierarchy, TaskDraws, PlanAsHierarchy, FilledHierarchy, LinkHierarchy DEF CreateStep
<1>2. ASSUME NEW a \in Actor, WorkStep(a)
      PROVE  Hierarchy'
  <2>1. CASE \E i \in Id : Choose(a, i) \/ BeginCleanup(a, i)
    BY <2>1, QuietSteps
  <2>2. CASE \E i \in Id : TakeLock(a, i)
    BY <2>2, SameHierarchy DEF TakeLock
  <2>3. CASE Claim(a) \/ Start(a) \/ Store(a) \/ FillFollowUp(a)
    BY <2>3, ClaimHierarchy, StoreHierarchy, FollowUpHierarchy
  <2>4. CASE \E gaps \in Detected, status \in {"keep", "review", "done"} :
               BeginFinish(a, gaps, status)
    BY <2>4, QuietSteps
  <2>5. CASE \E g \in Gap : AllocateFollowUp(a, g)
    BY <2>5, TaskDraws
  <2>6. CASE BeginSuspend(a) \/ BeginResume(a) \/ BeginDo(a)
    BY <2>6, QuietSteps
  <2>7. CASE Release(a)
    <3>1. Advance(a, None) /\ UNCHANGED <<ticket, archive, drawn, made, past>>
      BY <2>7 DEF Release
    <3> QED
      BY <3>1, QuietHierarchy
  <2> QED
    BY <1>2, <2>1, <2>2, <2>3, <2>4, <2>5, <2>6, <2>7 DEF WorkStep
<1>3. ASSUME NEW a \in Actor, ArchiveStep(a)
      PROVE  Hierarchy'
  <2>1. CASE \E i \in Id : BeginArchive(a, i)
    BY <2>1, QuietSteps
  <2>2. CASE Rename(a)
    <3>1. cmd[a] # None
      BY <2>2 DEF Rename, At
    <3>2. PICK i \in Id : i = cmd[a].id
      BY <3>1, OwnCommand
    <3>3. Moves(i) /\ Touch(a, i, None) /\ made' = made
      BY <2>2, <3>2 DEF Rename, Moves
    <3> QED
      BY <3>3, MoveHierarchy
  <2> QED
    BY <1>3, <2>1, <2>2 DEF ArchiveStep
<1>4. ASSUME NEW a \in Actor, Stop(a)
      PROVE  Hierarchy'
  <2>1. Advance(a, None) /\ UNCHANGED <<ticket, archive, drawn, made, past>>
    BY <1>4 DEF Stop
  <2> QED
    BY <2>1, QuietHierarchy
<1>5. CASE LockExpires \/ UNCHANGED vars
  BY <1>5, SameHierarchy DEF LockExpires, vars
<1> QED
  BY <1>1, <1>2, <1>3, <1>4, <1>5 DEF Next

(* At the start every ticket is a seed.                                    *)
LEMMA HierarchyInit ==
  ASSUME Init
  PROVE  Hierarchy
<1>1. PICK seeds \in Seeds :
        /\ ticket = [i \in Id |-> IF i \in DOMAIN seeds THEN seeds[i] ELSE None]
        /\ made = [i \in Id |-> IF i \in DOMAIN seeds THEN "seed" ELSE None]
        /\ past = [i \in Id |-> IF i \in DOMAIN seeds THEN {"listed"} ELSE {}]
        /\ drawn = Cardinality(DOMAIN seeds)
        /\ archive = [i \in Id |-> None] /\ cmd = [a \in Actor |-> None]
  BY DEF Init
<1>2. PICK n \in Id : seeds \in [1 .. n -> File]
  BY SeedsAssumption
<1>3. drawn = n
  BY <1>1, <1>2, FS_Interval DEF Id
<1>4. ASSUME NEW i \in Id
      PROVE  FileOK(i) /\ (i > drawn => made[i] = None)
  <2>1. CASE i \in 1 .. n
    <3>1. Wild(i) /\ archive[i] = None
      BY <1>1, <1>2, <2>1 DEF Wild
    <3> QED
      BY <1>3, <2>1, <3>1, WildCopy DEF FileOK, TopOK, Id
  <2>2. CASE i \notin 1 .. n
    <3>1. ticket[i] = None /\ made[i] = None /\ archive[i] = None
      BY <1>1, <1>2, <2>2
    <3> QED
      BY <3>1 DEF FileOK, TopOK
  <2> QED
    BY <2>1, <2>2
<1> QED
  BY <1>1, <1>4 DEF Hierarchy

-----------------------------------------------------------------------------
(* Where the chain of parents ends.  What f says of n rounds of it:        *)
Round(f, n, i) ==
  IF n = 0 \/ i \notin Live \/ ticket[i].kind = "intent" \/ ticket[i].parent = None
  THEN i ELSE f[n - 1][ticket[i].parent]
Climbs(f) == f = [n \in 0 .. 20 |-> [i \in Id |-> Round(f, n, i)]]
UpTo(f, k) == f = [n \in 0 .. k |-> [i \in Id |-> Round(f, n, i)]]

(* The recursion of Climb is a definition: there is such a function.       *)
LEMMA ClimbExists == \E f : Climbs(f)
<1> DEFINE P(k) == \E f : UpTo(f, k)
<1>1. P(0)
  <2> DEFINE f == [n \in 0 .. 0 |-> [i \in Id |-> i]]
  <2>1. \A n \in 0 .. 0 : [i \in Id |-> Round(f, n, i)] = [i \in Id |-> i]
    BY DEF Round
  <2>2. UpTo(f, 0)
    BY <2>1 DEF UpTo
  <2> QED
    BY <2>2
<1>2. ASSUME NEW k \in 0 .. 19, P(k)
      PROVE  P(k + 1)
  <2>1. PICK f : UpTo(f, k)
    BY <1>2
  <2> DEFINE g == [n \in 0 .. (k + 1) |-> [i \in Id |-> Round(f, n, i)]]
  <2>2. ASSUME NEW n \in 0 .. k
        PROVE  g[n] = f[n]
    BY <2>1 DEF UpTo
  <2>3. ASSUME NEW n \in 0 .. (k + 1), NEW i \in Id
        PROVE  Round(g, n, i) = Round(f, n, i)
    <3>1. CASE n = 0
      BY <3>1 DEF Round
    <3>2. CASE n # 0
      <4>1. n - 1 \in 0 .. k
        BY <3>2
      <4>2. g[n - 1] = f[n - 1]
        BY <2>2, <4>1
      <4> HIDE DEF g
      <4> QED
        BY <4>2 DEF Round
    <3> QED
      BY <3>1, <3>2
  <2>4. UpTo(g, k + 1)
    BY <2>3 DEF UpTo
  <2> QED
    BY <2>4
<1> HIDE DEF P
<1>3. P(1) /\ P(2) /\ P(3) /\ P(4) /\ P(5) /\ P(6) /\ P(7) /\ P(8) /\ P(9) /\ P(10)
  BY <1>1, <1>2
<1>4. P(20)
  BY <1>2, <1>3
<1>5. PICK f : UpTo(f, 20)
  BY <1>4 DEF P
<1> QED
  BY <1>5 DEF UpTo, Climbs

(* What Climb does in a round.                                             *)
LEMMA ClimbRound ==
  ASSUME NEW n \in 0 .. 20, NEW i \in Id
  PROVE  Climb[n][i] = Round(Climb, n, i)
<1> DEFINE P(f) == Climbs(f)
<1>1. Climb = CHOOSE f : P(f)
  BY DEF Climb, Climbs, Round
<1>2. \E f : P(f)
  BY ClimbExists
<1> HIDE DEF P
<1>3. P(CHOOSE f : P(f))
  BY <1>2
<1> USE DEF P
<1>4. Climbs(Climb)
  BY <1>1, <1>3
<1>5. Climb = [m \in 0 .. 20 |-> [j \in Id |-> Round(Climb, m, j)]]
  BY <1>4 DEF Climbs
<1> QED
  BY <1>5

(* A round goes to the parent, or stays.                                   *)
LEMMA ClimbStep ==
  ASSUME NEW n \in 1 .. 20, NEW i \in Id
  PROVE  /\ i \in Live /\ ticket[i].kind # "intent" /\ ticket[i].parent # None
            => Climb[n][i] = Climb[n - 1][ticket[i].parent]
         /\ i \notin Live \/ ticket[i].kind = "intent" \/ ticket[i].parent = None
            => Climb[n][i] = i
BY ClimbRound DEF Round

(* What excuses a chain, and what a chain is made of.                      *)
Excused(j) == archive[j] # None \/ made[j] = None \/ Wild(j)
Ends(j) == (j \in Live /\ ticket[j].kind = "intent") \/ Excused(j)

(* A ticket that ends its own chain, if it may.                            *)
LEMMA EndsHere ==
  ASSUME TypeOK, Hierarchy, NEW i \in Id, NEW k \in Kind, HasKind(i, k),
         \/ k = "intent" \/ (k = "epic" /\ ticket[i].parent = None) \/ i \notin Live
         \/ (made[i] = "create" /\ ticket[i].parent = None)
  PROVE  Ends(i)
<1>0. CASE Wild(i)
  BY <1>0 DEF Ends, Excused
<1>1. CASE i \notin Live /\ ~Wild(i)
  BY <1>1 DEF Ends, Excused, Live, HasKind
<1>2. CASE i \in Live /\ ~Wild(i)
  <2>1. ticket[i] # None /\ ticket[i].kind = k /\ CopyOK(i, ticket[i]) /\ TopOK(i)
    BY <1>2 DEF Live, HasKind, Hierarchy, FileOK
  <2> QED
    BY <1>2, <2>1 DEF Ends, Excused, CopyOK, TopOK
<1> QED
  BY <1>0, <1>1, <1>2

(* What is known of every ticket there is makes the chains end so.         *)
LEMMA HierarchyRooted ==
  ASSUME TypeOK, FilesOK, Hierarchy
  PROVE  Rooted
<1> SUFFICES ASSUME NEW i \in Live, made[i] = "create"
             PROVE  \/ Climb[20][i] \in Live /\ ticket[Climb[20][i]].kind = "intent"
                    \/ \E n \in 0 .. 20 : Excused(Climb[n][i])
  BY DEF Rooted, Top, Chain, Excused, Wild
<1>0. /\ i \in Id /\ ticket[i] \in File /\ ticket[i].kind \in Kind /\ CopyOK(i, ticket[i])
      /\ HasKind(i, ticket[i].kind) /\ TopOK(i)
      /\ ticket[i].parent \in Id \cup {None} /\ (~Wild(i) => Fitting(ticket[i]))
  BY LiveDrawn, FileFields DEF Hierarchy, FileOK, Live, CopyOK
<1>E. ASSUME NEW n \in 0 .. 20, NEW j, j = Climb[n][i], Excused(j) \/ (n = 20 /\ Ends(j))
      PROVE  \/ Climb[20][i] \in Live /\ ticket[Climb[20][i]].kind = "intent"
             \/ \E m \in 0 .. 20 : Excused(Climb[m][i])
  BY <1>E DEF Ends
<1>W. CASE Wild(i)
  <2>1. Climb[0][i] = i
    BY <1>0, ClimbRound DEF Round
  <2>2. Excused(i)
    BY <1>W DEF Excused
  <2> QED
    BY <1>E, <2>1, <2>2
<1>1. CASE ~Wild(i) /\ (ticket[i].kind = "intent" \/ ticket[i].parent = None)
  <2>1. Climb[20][i] = i
    BY <1>0, <1>1, ClimbStep
  <2> QED
    BY <1>0, <1>1, <1>E, <2>1, EndsHere
<1>2. CASE ~Wild(i) /\ ticket[i].kind # "intent" /\ ticket[i].parent # None
  <2>1. PICK p \in Id : p = ticket[i].parent
    BY <1>0, <1>2
  <2>2. \A n \in 1 .. 20 : Climb[n][i] = Climb[n - 1][p]
    BY <1>0, <1>2, <2>1, ClimbStep
  <2>3. HasKind(p, "intent") \/ HasKind(p, "epic")
    BY <1>0, <1>2, <2>1 DEF Fitting, Kind
  <2>W. CASE Wild(p)
    <3>1. Climb[0][p] = p /\ Climb[1][i] = Climb[0][p]
      BY <2>2, ClimbRound DEF Round
    <3>2. Excused(p)
      BY <2>W DEF Excused
    <3> QED
      BY <1>E, <3>1, <3>2
  <2>4. CASE ~Wild(p) /\ (p \notin Live \/ HasKind(p, "intent") \/ ticket[p].parent = None)
    <3>1. Climb[19][p] = p /\ Climb[20][i] = Climb[19][p]
      BY <2>2, <2>4, ClimbStep DEF HasKind, Live
    <3>2. Ends(p)
      BY <2>3, <2>4, EndsHere DEF Kind
    <3> QED
      BY <1>E, <3>1, <3>2
  <2>5. CASE ~Wild(p) /\ p \in Live /\ HasKind(p, "epic") /\ ticket[p].parent # None
    <3>1. /\ ticket[p] \in File /\ ticket[p].kind = "epic" /\ CopyOK(p, ticket[p])
          /\ ticket[p].parent \in Id \cup {None}
      BY <2>5, LiveDrawn, FileFields DEF HasKind, Hierarchy, FileOK, Live
    <3>2. PICK q \in Id : q = ticket[p].parent
      BY <2>5, <3>1
    <3>3. \A n \in 1 .. 20 : Climb[n][p] = Climb[n - 1][q]
      BY <2>5, <3>1, <3>2, ClimbStep
    <3>4. HasKind(q, "intent")
      BY <2>5, <3>1, <3>2 DEF CopyOK, Fitting
    <3>5. Climb[2][i] = Climb[1][p] /\ Climb[1][p] = Climb[0][q] /\ Climb[0][q] = q
      BY <2>2, <3>3, ClimbRound DEF Round
    <3>6. CASE Wild(q)
      <4>1. Excused(q)
        BY <3>6 DEF Excused
      <4> QED
        BY <1>E, <3>5, <4>1
    <3>7. CASE ~Wild(q)
      <4>1. Climb[18][q] = q
        BY <3>4, <3>7, ClimbStep DEF HasKind, Live
      <4>2. Climb[20][i] = q
        BY <2>2, <3>3, <4>1
      <4>3. Ends(q)
        BY <3>4, EndsHere DEF Kind
      <4> QED
        BY <1>E, <4>2, <4>3
    <3> QED
      BY <3>6, <3>7
  <2> QED
    BY <2>3, <2>4, <2>5, <2>W
<1> QED
  BY <1>1, <1>2, <1>W

-----------------------------------------------------------------------------
(* The theorems.                                                           *)

(* Whatever is done with the tickets, however commands overlap or stop,    *)
(* the inductive invariant holds.                                          *)
THEOREM TicketsInvariant == Spec => []TicketsInv
<1>1. Init => Inv
  BY InitHolds
<1>2. Inv /\ [Next]_vars => Inv'
  BY StepKeeps
<1> QED
  BY <1>1, <1>2, InvFacts, PTL DEF Spec

(* Every variable keeps its type.                                          *)
THEOREM TicketTypes == Spec => []TypeOK
<1>1. TicketsInv => TypeOK
  BY DEF TicketsInv
<1> QED
  BY <1>1, TicketsInvariant, PTL

(* next (claim_and_start of dispatch.py) gives a ticket out once, unless   *)
(* cleanup took it back or somebody saved an old copy of it, whoever else  *)
(* was choosing and however the lock expired.                              *)
THEOREM GivenOutOnce == Spec => []GivenOnce
<1>1. TicketsInv => GivenOnce
  BY DEF TicketsInv, FilesOK
<1> QED
  BY <1>1, TicketsInvariant, PTL

(* choose_next_ticket keeps the active tickets within the global limit and *)
(* the limit of each lane, but for those that resume, an old copy or       *)
(* overlapping nexts made active.                                          *)
THEOREM LimitsRespected == Spec => []WithinLimits
<1>1. TicketsInv => WithinLimits
  BY DEF TicketsInv, FilesOK
<1> QED
  BY <1>1, TicketsInvariant, PTL

(* What blocks a ticket that next gave out is done or archived, unless it  *)
(* was opened again.                                                       *)
THEOREM BlockersDone == Spec => []BlockersFirst
<1>1. TicketsInv => BlockersFirst
  BY DEF TicketsInv, FilesOK
<1> QED
  BY <1>1, TicketsInvariant, PTL

(* A child that ticket-create wrote into its parent stays there, archived  *)
(* or not, unless somebody saved an old copy of either.                    *)
THEOREM ChildrenKept == Spec => []ChildrenLinked
<1>1. TicketsInv => ChildrenLinked
  <2> SUFFICES ASSUME TicketsInv, NEW i \in Id, "linked" \in past[i]
               PROVE  LET p == (IF i \in Live THEN ticket[i] ELSE archive[i]).parent
                      IN  Listed(i, p)
    BY DEF ChildrenLinked, Listed
  <2>1. CASE "stale" \in past[i]
    BY <2>1 DEF Listed
  <2>2. CASE "stale" \notin past[i]
    <3>1. /\ Filed(i) # None
          /\ \A p \in Id \cup {None} : p = Filed(i).parent => Listed(i, p)
      BY <2>2 DEF TicketsInv, FilesOK, LinksOK
    <3>2. Filed(i) \in File
      BY <3>1, TypeFacts DEF TicketsInv, Filed, FileType
    <3>3. Filed(i).parent \in Id \cup {None}
      BY <3>2, FileFields
    <3> QED
      BY <3>1, <3>3 DEF Filed
  <2> QED
    BY <2>1, <2>2
<1> QED
  BY <1>1, TicketsInvariant, PTL

(* create_follow_ups files no second open ticket of one title for a        *)
(* parent, unless two commands overlapped or the first was taken up.       *)
THEOREM FollowUpsFiledOnce == Spec => []FollowUpsOnce
<1>1. TicketsInv => FollowUpsOnce
  BY DEF TicketsInv, FilesOK, GapsOK, FollowUpsOnce
<1> QED
  BY <1>1, TicketsInvariant, PTL

(* A ticket that ticket-create filed under a parent resolves to an intent  *)
(* (resolve_intent_root), whatever plan lists, unless its chain of parents *)
(* goes through one that was archived, that is an unfilled placeholder,    *)
(* that somebody saved an old copy of, or that init or plan filed.         *)
THEOREM ResolvesToIntent == Spec => []Rooted
<1>1. Init => Inv /\ Hierarchy
  BY InitHolds, HierarchyInit
<1>2. Inv /\ Hierarchy /\ [Next]_vars => Inv' /\ Hierarchy'
  BY StepKeeps, HierarchyStep
<1>3. Inv /\ Hierarchy => Rooted
  BY HierarchyRooted DEF Inv
<1> QED
  BY <1>1, <1>2, <1>3, PTL DEF Spec

=============================================================================

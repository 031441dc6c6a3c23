----------------------------- MODULE TopicHead -----------------------------
(***************************************************************************)
(* The head pointers of the ledger's topics, exo/kernel/ledger.py.  One    *)
(* JSON file holds the head of every topic, a line of the log.  Submitting *)
(* an intent and cas_head run under the submit lock: they read the head,   *)
(* and rewrite the whole file with the topic's new head.  head() may do    *)
(* the same outside the lock: a topic without an entry gets one, for its   *)
(* last intent.  A write truncates the file first; a truncated file reads  *)
(* as one without entries.  Other records join the log without the lock.   *)
(***************************************************************************)
EXTENDS Naturals, Sequences, FiniteSetsExt

CONSTANTS
  Process,   \* processes that use the ledger
  Topic,     \* topic ids
  Attempts,  \* the max_attempts a caller may ask for
  MaxIntents, \* bound: intents in the log
  MaxOthers, \* bound: other records in the log
  MaxMoves,  \* bound: cas_head calls and crashes
  AnyHead,   \* expected_head None: the submitter does not care
  NoTask,    \* the process does nothing with heads
  NoProcess  \* the submit lock is free

ASSUME ConstantsAssumption ==
  /\ Attempts \subseteq Nat \ {0}
  /\ MaxIntents \in Nat /\ MaxOthers \in Nat /\ MaxMoves \in Nat
  /\ AnyHead \notin Nat /\ NoProcess \notin Process

VARIABLES
  log,   \* the ledger log: the topic, parent and so on of each line
  heads, \* the head of each topic in the heads file, 0 without an entry
  guard, \* the holder of the submit lock
  task,  \* the call each process is in
  upset, \* history: what other than submissions has moved a topic's head
  moves  \* cas_head calls and crashes so far

vars == <<log, heads, guard, task, upset, moves>>

Line == 0 .. MaxIntents + MaxOthers
Heads == [Topic -> Line]

(* An intent has the intent at the head as its parent (0 if there is none, *)
(* or if the caller named the parents: given), and the line it was told it *)
(* has (0 before it was told).  Nothing here depends on other records' data.*)
Record == [type: {"intent"}, topic: Topic, given: BOOLEAN, parent: Line, told: Line]
            \cup [type: {"other"}]

(* A call: the head it found and expects, the change it makes to the heads *)
(* file (ref, image), and whether that is its own or a missing entry.      *)
(* late is history: the topics that a call under the lock wrote since this *)
(* one looked.                                                             *)
Task == [op: {"submit", "cas", "head"}, topic: Topic,
         step: {"look", "find", "compare", "count", "load",
                "truncate", "write"},
         expected: Line \cup {AnyHead}, attempts: Nat, found: Line, ref: Line, image: Heads,
         own: BOOLEAN, late: SUBSET Topic]

Cause == {"cas", "crash", "reader"}

ASSUME NullAssumption == NoTask \notin Task

TypeOK ==
  /\ log \in Seq(Record)
  /\ heads \in Heads
  /\ guard \in Process \cup {NoProcess}
  /\ task \in [Process -> Task \cup {NoTask}]
  /\ upset \in [Topic -> SUBSET Cause]
  /\ moves \in 0 .. MaxMoves

NoHeads == [t \in Topic |-> 0]

Init ==
  /\ log = <<>>
  /\ heads = NoHeads
  /\ guard = NoProcess
  /\ task = [p \in Process |-> NoTask]
  /\ upset = [t \in Topic |-> {}]
  /\ moves = 0

-----------------------------------------------------------------------------
Intents == {n \in 1 .. Len(log) : log[n].type = "intent"}

(* _find_latest_topic_head; the mutant overlooks the topic. *)
LatestMutant(t) == Max({0} \cup Intents)
Latest(t) == Max({0} \cup {n \in Intents : log[n].topic = t})

(* _intent_id_from_cursor: the intent at a head, if there is one there. *)
IntentAt(n) == IF n \in Intents THEN n ELSE 0

(* The lines of the log, counted; the mutant counts from the next one. *)
LineCountMutant == Len(log) + 1
LineCount == Len(log)

At(p, step) == task[p] # NoTask /\ task[p].step = step

(* submit and cas_head take the submit lock; the mutant submits without.   *)
LockedMutant(p) == task[p].op = "cas"
Locked(p) == task[p].op \in {"submit", "cas"}

Release(p) == guard' = IF guard = p THEN NoProcess ELSE guard
Return(p) == task' = [task EXCEPT ![p] = NoTask]

Begin(p, op, t, expected, attempts) ==
  /\ task[p] = NoTask
  /\ task' = [task EXCEPT ![p] =
       [op |-> op, topic |-> t, step |-> "look", expected |-> expected,
        attempts |-> attempts, found |-> 0, ref |-> 0, image |-> NoHeads, own |-> FALSE, late |-> {}]]
  /\ UNCHANGED <<log, heads, guard, upset>>

(* The submissions that may yet append an intent. *)
Submitters == {p \in Process : task[p] # NoTask /\ task[p].op = "submit" /\ ~task[p].own}

BeginSubmit(p, t, expected, attempts) ==
  /\ Cardinality(Intents) + Cardinality(Submitters) < MaxIntents
  /\ Begin(p, "submit", t, expected, attempts)
  /\ UNCHANGED moves

BeginCas(p, t, expected, attempts) ==
  /\ moves < MaxMoves
  /\ moves' = moves + 1
  /\ Begin(p, "cas", t, expected, attempts)

BeginHead(p, t) ==
  /\ Begin(p, "head", t, AnyHead, 1)
  /\ UNCHANGED moves

-----------------------------------------------------------------------------
(* head(): the entry in the file, ... *)
Look(p) ==
  LET t == task[p].topic
  IN  /\ At(p, "look")
      /\ IF Locked(p) THEN guard = NoProcess /\ guard' = p ELSE UNCHANGED guard
      /\ IF heads[t] # 0 /\ task[p].op = "head" THEN Return(p)
         ELSE task' = [task EXCEPT ![p] =
           IF heads[t] = 0 THEN [@ EXCEPT !.step = "find"]
           ELSE [@ EXCEPT !.step = "compare", !.found = heads[t]]]
      /\ UNCHANGED <<log, heads, upset, moves>>

(* ... or, without one, the last intent in the log, to be written down. *)
Find(p) ==
  LET last == Latest(task[p].topic)
  IN  /\ At(p, "find")
      /\ IF last = 0 /\ task[p].op = "head" THEN Return(p)
         ELSE task' = [task EXCEPT ![p] =
           IF last = 0 THEN [@ EXCEPT !.step = "compare", !.found = 0]
           ELSE [@ EXCEPT !.step = "load", !.found = last, !.ref = last]]
      /\ UNCHANGED <<log, heads, guard, upset, moves>>

(* _load_heads and one changed entry; _write_heads opens and writes. *)
Load(p) ==
  /\ At(p, "load")
  /\ task' = [task EXCEPT ![p] =
       [@ EXCEPT !.step = "truncate",
                 !.image = [heads EXCEPT ![task[p].topic] = task[p].ref]]]
  /\ UNCHANGED <<log, heads, guard, upset, moves>>

Truncate(p) ==
  /\ At(p, "truncate")
  /\ heads' = NoHeads
  /\ task' = [task EXCEPT ![p].step = "write"]
  /\ UNCHANGED <<log, guard, upset, moves>>

(* A submission or cas that wrote a missing entry goes on to compare; one  *)
(* that wrote its own, and head(), are done.                               *)
WriteFound(p) ==
  /\ At(p, "write") /\ ~task[p].own
  /\ heads' = task[p].image
  /\ upset' = [t \in Topic |-> IF t \in task[p].late THEN upset[t] \cup {"reader"}
                                                     ELSE upset[t]]
  /\ IF task[p].op = "head" THEN Return(p)
     ELSE task' = [task EXCEPT ![p].step = "compare"]
  /\ UNCHANGED <<log, guard, moves>>

WriteOwn(p) ==
  LET t == task[p].topic
  IN  /\ At(p, "write") /\ task[p].own
      /\ heads' = task[p].image
      /\ upset' = IF task[p].op = "cas" THEN [upset EXCEPT ![t] = @ \cup {"cas"}] ELSE upset
      /\ task' = [q \in Process |->
           IF q = p \/ task[q] = NoTask THEN NoTask
           ELSE IF task[q].op = "head" THEN [task[q] EXCEPT !.late = @ \cup {t}]
           ELSE task[q]]
      /\ Release(p)
      /\ UNCHANGED <<log, moves>>

-----------------------------------------------------------------------------
(* Comparing heads is local to the process and joined to what follows it.   *)
(* Both calls expect a head.  On a conflict they give up the lock and, if  *)
(* they may, try again with the head they found as the expected one, which *)
(* for a submission that found none means any.                             *)
Conflict(p) ==
  LET k == task[p]
  IN  k.found # k.expected /\ (k.op = "submit" => k.expected # AnyHead)

CompareFails(p) ==
  LET k == task[p]
  IN  /\ At(p, "compare") /\ Conflict(p)
      /\ task' = [task EXCEPT ![p] =
           IF k.attempts = 1 THEN NoTask
           ELSE [@ EXCEPT !.step = "look", !.attempts = k.attempts - 1,
                          !.expected = IF k.op = "submit" /\ k.found = 0
                                       THEN AnyHead ELSE k.found]]
      /\ Release(p)
      /\ UNCHANGED <<log, heads, upset, moves>>

(* cas_head loads the heads again and changes the entry to its caller's    *)
(* ref, which may be any.                                                  *)
CasLoad(p, new) ==
  LET k == task[p]
  IN  /\ At(p, "compare") /\ ~Conflict(p) /\ k.op = "cas"
      /\ task' = [task EXCEPT ![p] =
           [@ EXCEPT !.step = "truncate", !.expected = AnyHead, !.attempts = 1,
                     !.own = TRUE,
                     !.image = [heads EXCEPT ![k.topic] = new]]]
      /\ UNCHANGED <<log, heads, guard, upset, moves>>

(* append_record: one write appends the line, then the lines are counted,  *)
(* with those that others have appended meanwhile.                         *)
AppendIntent(p, given) ==
  LET k == task[p]
  IN  /\ At(p, "compare") /\ ~Conflict(p) /\ k.op = "submit"
      /\ log' = Append(log, [type |-> "intent", topic |-> k.topic, given |-> given,
                             parent |-> IF given THEN 0 ELSE IntentAt(k.found),
                             told |-> 0])
      /\ task' = [task EXCEPT ![p] =
           [@ EXCEPT !.step = "count", !.expected = AnyHead, !.attempts = 1,
                     !.found = 0, !.ref = Len(log) + 1, !.own = TRUE]]
      /\ UNCHANGED <<heads, guard, upset, moves>>

Count(p) ==
  /\ At(p, "count")
  /\ log' = [log EXCEPT ![task[p].ref].told = LineCount]
  /\ task' = [task EXCEPT ![p] = [@ EXCEPT !.step = "load", !.ref = LineCount]]
  /\ UNCHANGED <<heads, guard, upset, moves>>

(* A decision, an execution record or an ack, of whoever. *)
AppendOther ==
  /\ Len(log) < Cardinality(Intents) + MaxOthers
  /\ log' = Append(log, [type |-> "other"])
  /\ UNCHANGED <<heads, guard, task, upset, moves>>

(* A process dies, and its lock with it: an intent it appended may be left *)
(* out of the heads, the file may be left empty.                           *)
Crash(p) ==
  /\ task[p] # NoTask /\ moves < MaxMoves
  /\ moves' = moves + 1
  /\ upset' = IF task[p].op = "submit" /\ task[p].own
              THEN [upset EXCEPT ![task[p].topic] = @ \cup {"crash"}] ELSE upset
  /\ Return(p)
  /\ Release(p)
  /\ UNCHANGED <<log, heads>>

Next ==
  \/ \E p \in Process, t \in Topic :
       \/ BeginHead(p, t) \/ BeginSubmit(p, t, AnyHead, 1)
       \/ \E n \in Attempts, e \in 1 .. Len(log) : BeginSubmit(p, t, e, n)
       \/ \E n \in Attempts, e \in 0 .. Len(log) : BeginCas(p, t, e, n)
  \/ \E p \in Process :
       \/ Look(p) \/ Find(p) \/ Load(p) \/ Truncate(p) \/ WriteFound(p) \/ WriteOwn(p)
       \/ CompareFails(p) \/ Count(p) \/ Crash(p)
       \/ \E new \in 0 .. Len(log) : CasLoad(p, new)
       \/ \E given \in BOOLEAN : AppendIntent(p, given)
  \/ AppendOther

Spec == Init /\ [][Next]_vars

-----------------------------------------------------------------------------
(* A parent is an earlier intent of the same topic, whatever two topics    *)
(* that share the file do to each other's heads, so that the implicit      *)
(* parents never make the cycle intent_causal_order refuses.  Only         *)
(* cas_head can point a topic at a line of another.                        *)
ParentsPrecede ==
  \A n \in Intents :
    log[n].parent # 0 /\ "cas" \notin upset[log[n].topic] =>
      /\ log[n].parent < n
      /\ log[log[n].parent].topic = log[n].topic

(* No update of a head is lost among submissions: unless one is between    *)
(* its intent and its head, no head in the file is behind the last intent  *)
(* of its topic.  It takes a cas_head, a crash in that gap, or a head()    *)
(* that looked before the submission wrote the head and wrote after it.    *)
Behind(t) == heads[t] # 0 /\ heads[t] < Latest(t)

Submitting(t) ==
  \E p \in Process : task[p] # NoTask /\ task[p].own
                     /\ task[p].op = "submit" /\ task[p].topic = t

HeadsKeepUp ==
  \A t \in Topic : ~Submitting(t) /\ upset[t] = {} => ~Behind(t)

(* Submissions to a topic form a chain: each has its predecessor as parent *)
(* unless its caller named others.  The chain breaks, without forking,     *)
(* after a submission that was told a wrong line.                          *)
Predecessor(m, n) ==
  m < n /\ log[m].topic = log[n].topic
  /\ \A k \in Intents : m < k /\ k < n => log[k].topic # log[n].topic

Chained ==
  \A m, n \in Intents :
    Predecessor(m, n) /\ ~log[n].given /\ upset[log[n].topic] = {}
    => \/ log[n].parent = m
       \/ log[n].parent = 0 /\ log[m].told # m
=============================================================================

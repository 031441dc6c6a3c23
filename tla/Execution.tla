----------------------------- MODULE Execution -----------------------------
(***************************************************************************)
(* Execution of intents through the control ledger: the syscalls check,    *)
(* decide_override, begin and commit (exo/control/syscalls.py), the ledger *)
(* records they read and append (exo/kernel/ledger.py), the workers that   *)
(* poll a topic (exo/orchestrator/worker.py) and run_task                  *)
(* (exo/orchestrator/engine.py).  The log is append-only and one write     *)
(* appends one line, but begin and commit read the log first and append    *)
(* later, without a lock; only check holds one, the decision lock.  The    *)
(* line of a record stands for its random id.  One topic is modelled; its  *)
(* head pointer, which orders submissions, is left out.                    *)
(***************************************************************************)
EXTENDS Integers, Sequences, FiniteSets

CONSTANTS
  Worker,     \* processes running exo worker-poll or worker-loop
  Client,     \* processes calling the syscalls through the CLI or MCP
  Intent,     \* intent ids
  Policy,     \* the outcomes governance may decide
  Overriding, \* the outcomes an override may record
  Status,     \* the statuses an execution may end with
  Limit,      \* the most records a poll reads
  MaxOps,     \* bound: overrides, client commands, failures and crashes
  WorkerKey,  \* stands for the idempotency key intent:<id>:decision:<id>
  NoTask,     \* the process works on no intent
  NoProcess   \* nobody holds the decision lock

Process == Worker \cup Client
Executable == {"ALLOW", "SANDBOX"}
Key == {WorkerKey} \cup Client

ASSUME ConstantsAssumption ==
  /\ Worker \cap Client = {}
  /\ Policy \subseteq {"ALLOW", "DENY", "ESCALATE"}
  /\ Overriding \subseteq {"ALLOW", "DENY", "ESCALATE", "SANDBOX"}
  /\ "FAIL" \in Status
  /\ Limit \in Nat \ {0}
  /\ MaxOps \in Nat
  /\ NoProcess \notin Process

VARIABLES
  log,     \* .exo/logs/ledger.log.jsonl
  decider, \* the holder of the decision lock
  task,    \* what each process does for one intent
  poll,    \* where each worker is in the topic
  failed,  \* history: the intents some process failed to check
  ops      \* overrides, client commands, failures and crashes so far

vars == <<log, decider, task, poll, failed, ops>>

(* Ledger records.  In since and read a record keeps, as history, how long *)
(* the log was when the process took up the intent and when the call that  *)
(* appended the record read the log.                                       *)
Record ==
  [type: {"IntentSubmitted"}, intent: Intent]
    \cup
  [type: {"DecisionRecorded"}, intent: Intent, by: {"policy", "override"},
   outcome: Policy \cup Overriding]
    \cup
  [type: {"ExecutionBegun"}, decision: Nat, key: Key, by: Process,
   since: Nat, read: Nat]
    \cup
  [type: {"ExecutionResult"}, effect: Nat, status: Status, read: Nat]

Step == {"resolve", "check", "record", "begin", "append", "execute", "result"}

Task == [step: Step, intent: Intent, since: Nat, decision: Nat, key: Key,
         effect: Nat, status: Status, read: Nat]

(* A worker's position: the cursor in memory and in its file; during a     *)
(* poll, the cursor it will have after it and the intents still to see.    *)
Poll == [cursor: Nat, file: Nat, polling: BOOLEAN, reached: Nat,
         todo: Seq(Intent)]

ASSUME NullAssumption == NoTask \notin Task

TypeOK ==
  /\ log \in Seq(Record)
  /\ decider \in Process \cup {NoProcess}
  /\ task \in [Process -> Task \cup {NoTask}]
  /\ poll \in [Worker -> Poll]
  /\ failed \subseteq Intent
  /\ ops \in 0..MaxOps

Init ==
  /\ log = <<>>
  /\ decider = NoProcess
  /\ task = [p \in Process |-> NoTask]
  /\ poll = [w \in Worker |-> [cursor |-> 0, file |-> 0, polling |-> FALSE,
                               reached |-> 0, todo |-> <<>>]]
  /\ failed = {}
  /\ ops = 0

-----------------------------------------------------------------------------
(* read_records: lines of the log by record type and by what they are for. *)
Lines == 1..Len(log)
Submissions(i) ==
  {n \in Lines : log[n].type = "IntentSubmitted" /\ log[n].intent = i}
Decisions(i) ==
  {n \in Lines : log[n].type = "DecisionRecorded" /\ log[n].intent = i}
Effects(d) ==
  {n \in Lines : log[n].type = "ExecutionBegun" /\ log[n].decision = d}
Results(e) ==
  {n \in Lines : log[n].type = "ExecutionResult" /\ log[n].effect = e}

(* _infer_related_intent_id: the results that belong to an intent. *)
ResultsFor(i) ==
  UNION {Results(e) : e \in UNION {Effects(d) : d \in Decisions(i)}}

(* The decision rows of an intent are read in order and the last is taken. *)
Latest(i) ==
  CHOOSE d \in Decisions(i) : \A n \in Decisions(i) : n <= d

Operation ==
  /\ ops < MaxOps
  /\ ops' = ops + 1

Append1(record) == log' = Append(log, record)

(* Work on the intent goes on under decision d if d permits it; run_task   *)
(* goes on under ALLOW only.                                               *)
Permits(p, outcome) ==
  outcome \in (IF p \in Worker THEN Executable ELSE {"ALLOW"})

Under(p, d, outcome) ==
  task' = [task EXCEPT ![p] =
    IF Permits(p, outcome) THEN [@ EXCEPT !.step = "begin", !.decision = d]
                              ELSE NoTask]

GoTo(p, step) == task' = [task EXCEPT ![p].step = step]

At(p, step) == task[p] # NoTask /\ task[p].step = step

-----------------------------------------------------------------------------
(* poll_once reads the records after its cursor, at most Limit of them.    *)
(* Only those of intents make it act, so they are what the cursor counts   *)
(* here, and a batch of Limit records holds any number of intents up to    *)
(* Limit.  A poll without a new intent changes nothing.  The mutant of     *)
(* Queue mistakes records for ids; that of NextCursor continues behind     *)
(* whatever the log holds when the poll ends.                              *)
QueueMutant == SelectSeq(log, LAMBDA r : r.type = "IntentSubmitted")
Submitted == {n \in Lines : log[n].type = "IntentSubmitted"}
UpTo(n) == Cardinality({m \in Submitted : m <= n})
Queue ==
  [k \in 1..Cardinality(Submitted) |->
     log[CHOOSE n \in Submitted : UpTo(n) = k].intent]

NextCursorMutant(w) == Len(Queue)
NextCursor(w) == poll[w].reached

StartPoll(w) ==
  /\ ~poll[w].polling
  /\ \E last \in poll[w].cursor + 1 .. Len(Queue) :
       /\ last - poll[w].cursor <= Limit
       /\ poll' = [poll EXCEPT ![w] =
            [@ EXCEPT !.polling = TRUE, !.reached = last,
                      !.todo = SubSeq(Queue, poll[w].cursor + 1, last)]]
  /\ UNCHANGED <<log, decider, task, failed, ops>>

FinishPoll(w) ==
  /\ poll[w].polling
  /\ poll[w].todo = <<>>
  /\ task[w] = NoTask
  /\ poll' = [poll EXCEPT ![w] =
       [@ EXCEPT !.polling = FALSE, !.cursor = NextCursor(w), !.reached = 0]]
  /\ UNCHANGED <<log, decider, task, failed, ops>>

(* worker-poll writes the cursor file after its poll, worker-loop when its *)
(* iterations are over.                                                    *)
SaveCursor(w) ==
  /\ ~poll[w].polling
  /\ poll[w].file # poll[w].cursor
  /\ poll' = [poll EXCEPT ![w].file = poll[w].cursor]
  /\ UNCHANGED <<log, decider, task, failed, ops>>

(* _intent_has_result: the worker skips what has been executed; the mutant *)
(* looks no further than the decision.                                     *)
AlreadyExecutedMutant(i) == FALSE
AlreadyExecuted(i) == ResultsFor(i) # {}

Examine(w) ==
  LET i == Head(poll[w].todo)
  IN  /\ poll[w].polling
      /\ poll[w].todo # <<>>
      /\ task[w] = NoTask
      /\ poll' = [poll EXCEPT ![w].todo = Tail(@)]
      /\ task' = [task EXCEPT ![w] =
           IF AlreadyExecuted(i) THEN NoTask
           ELSE [step |-> "resolve", intent |-> i, since |-> Len(log),
                 decision |-> 0, key |-> WorkerKey, effect |-> 0,
                 status |-> "FAIL", read |-> 0]]
      /\ UNCHANGED <<log, decider, failed, ops>>

(* _resolve_decision: the latest decision of the intent, or a check. *)
Resolve(w) ==
  LET i == task[w].intent
  IN  /\ At(w, "resolve")
      /\ IF Decisions(i) # {}
         THEN Under(w, Latest(i), log[Latest(i)].outcome)
         ELSE GoTo(w, "check")
      /\ UNCHANGED <<log, decider, poll, failed, ops>>

-----------------------------------------------------------------------------
(* check, under the decision lock, looks for a decision again; its mutant  *)
(* relies on the look its caller took.                                     *)
DecidedMutant(i) == FALSE
Decided(i) == Decisions(i) # {}

CheckRead(p) ==
  LET i == task[p].intent
  IN  /\ At(p, "check")
      /\ decider = NoProcess
      /\ IF Decided(i)
         THEN /\ Under(p, Latest(i), log[Latest(i)].outcome)
              /\ UNCHANGED decider
         ELSE /\ GoTo(p, "record")
              /\ decider' = p
      /\ UNCHANGED <<log, poll, failed, ops>>

(* check_action decides by the governance of the moment.                   *)
CheckRecord(p) ==
  /\ At(p, "record")
  /\ \E outcome \in Policy :
       /\ Append1([type |-> "DecisionRecorded", intent |-> task[p].intent,
                   by |-> "policy", outcome |-> outcome])
       /\ Under(p, Len(log) + 1, outcome)
  /\ decider' = NoProcess
  /\ UNCHANGED <<poll, failed, ops>>

(* The governance lock cannot be loaded, or the decision not be recorded:  *)
(* check raises, and a worker notes a failure and goes on behind it.       *)
CheckFails(p) ==
  /\ At(p, "record")
  /\ Operation
  /\ failed' = failed \cup {task[p].intent}
  /\ task' = [task EXCEPT ![p] = NoTask]
  /\ decider' = NoProcess
  /\ UNCHANGED <<log, poll>>

(* execution_begun reads the log.  The effect id is new, so only the       *)
(* idempotency key can collide; the mutant does not look at it.            *)
ClaimedMutant(d, key) == FALSE
Claimed(d, key) == \E e \in Effects(d) : log[e].key = key

BeginRead(p) ==
  LET k == task[p]
  IN  /\ At(p, "begin")
      /\ task' = [task EXCEPT ![p] =
           IF Claimed(k.decision, k.key) THEN NoTask
           ELSE [@ EXCEPT !.step = "append", !.read = Len(log)]]
      /\ UNCHANGED <<log, decider, poll, failed, ops>>

BeginAppend(p) ==
  LET k == task[p]
  IN  /\ At(p, "append")
      /\ Append1([type |-> "ExecutionBegun", decision |-> k.decision,
                  key |-> k.key, by |-> p, since |-> k.since, read |-> k.read])
      /\ task' = [task EXCEPT ![p] =
           [@ EXCEPT !.step = "execute", !.effect = Len(log) + 1,
                     !.since = 0, !.read = 0]]
      /\ UNCHANGED <<decider, poll, failed, ops>>

(* The executor has run and ended in some status, FAIL for an exception;   *)
(* execution_result reads the log: a result that exists is returned or     *)
(* refused as immutable.                                                   *)
Settled(e, status) == Results(e) # {}

CommitRead(p) ==
  /\ At(p, "execute")
  /\ \E status \in Status :
       task' = [task EXCEPT ![p] =
         IF Settled(@.effect, status) THEN NoTask
         ELSE [@ EXCEPT !.step = "result", !.status = status, !.read = Len(log)]]
  /\ UNCHANGED <<log, decider, poll, failed, ops>>

CommitAppend(p) ==
  LET k == task[p]
  IN  /\ At(p, "result")
      /\ Append1([type |-> "ExecutionResult", effect |-> k.effect,
                  status |-> k.status, read |-> k.read])
      /\ task' = [task EXCEPT ![p] = NoTask]
      /\ UNCHANGED <<decider, poll, failed, ops>>

-----------------------------------------------------------------------------
SubmitIntent(i) ==
  /\ Submissions(i) = {}
  /\ Append1([type |-> "IntentSubmitted", intent |-> i])
  /\ UNCHANGED <<decider, task, poll, failed, ops>>

(* decide_override, which takes no lock, asks for an intent on record, a    *)
(* capability and a rationale.                                             *)
Overridable(i) == Submissions(i) # {}

Override(i, outcome) ==
  /\ Operation
  /\ Overridable(i)
  /\ Append1([type |-> "DecisionRecorded", intent |-> i, by |-> "override",
              outcome |-> outcome])
  /\ UNCHANGED <<decider, task, poll, failed>>

Command(c, step, i, d, key, e, since) ==
  /\ task[c] = NoTask
  /\ Operation
  /\ task' = [task EXCEPT ![c] =
       [step |-> step, intent |-> i, since |-> since, decision |-> d,
        key |-> key, effect |-> e, status |-> "FAIL", read |-> 0]]

(* run_task submits an intent of its own, which workers of the topic see   *)
(* too, and goes on to check and to begin with a key of its own.           *)
RunTask(c, i) ==
  /\ Submissions(i) = {}
  /\ Command(c, "check", i, 0, c, 0, Len(log) + 1)
  /\ Append1([type |-> "IntentSubmitted", intent |-> i])
  /\ UNCHANGED <<decider, poll, failed>>

(* The begin syscall, for any executable decision the client knows of. *)
ClientBegin(c, d, key) ==
  /\ log[d].type = "DecisionRecorded"
  /\ log[d].outcome \in Executable
  /\ Command(c, "begin", log[d].intent, d, key, 0, Len(log))
  /\ UNCHANGED <<log, decider, poll, failed>>

(* The commit syscall, for any effect the client knows of. *)
ClientCommit(c, e) ==
  /\ log[e].type = "ExecutionBegun"
  /\ Command(c, "execute", log[log[e].decision].intent, log[e].decision,
             log[e].key, e, 0)
  /\ UNCHANGED <<log, decider, poll, failed>>

(* A process dies; the decision lock goes with it, and a worker starts     *)
(* again from its cursor file.                                             *)
Crash(p) ==
  /\ \/ task[p] # NoTask
     \/ p \in Worker /\ (poll[p].polling \/ poll[p].cursor # poll[p].file)
  /\ Operation
  /\ task' = [task EXCEPT ![p] = NoTask]
  /\ decider' = IF decider = p THEN NoProcess ELSE decider
  /\ poll' = [w \in Worker |->
       IF w = p THEN [cursor |-> poll[w].file, file |-> poll[w].file,
                      polling |-> FALSE, reached |-> 0, todo |-> <<>>]
                ELSE poll[w]]
  /\ UNCHANGED <<log, failed>>

PollStep(w) ==
  StartPoll(w) \/ Examine(w) \/ Resolve(w) \/ FinishPoll(w)

TaskStep(p) ==
  \/ CheckRead(p) \/ CheckRecord(p) \/ BeginRead(p) \/ BeginAppend(p)
  \/ CommitRead(p) \/ CommitAppend(p)

Next ==
  \/ \E w \in Worker : PollStep(w) \/ SaveCursor(w)
  \/ \E p \in Process : TaskStep(p) \/ CheckFails(p) \/ Crash(p)
  \/ \E i \in Intent : SubmitIntent(i)
  \/ \E i \in Intent, outcome \in Overriding : Override(i, outcome)
  \/ \E c \in Client, i \in Intent : RunTask(c, i)
  \/ \E c \in Client, d \in Lines, key \in Key : ClientBegin(c, d, key)
  \/ \E c \in Client, e \in Lines : ClientCommit(c, e)

Spec == Init /\ [][Next]_vars

(* A worker loop keeps polling, and a process that took up an intent goes  *)
(* on unless it crashes.                                                   *)
Fairness ==
  /\ \A w \in Worker : WF_vars(PollStep(w))
  /\ \A p \in Process : WF_vars(TaskStep(p))

FairSpec == Spec /\ Fairness
-----------------------------------------------------------------------------
Begun == {n \in Lines : log[n].type = "ExecutionBegun"}
IntentOf(e) == log[log[e].decision].intent

(* check decides an intent at most once, however many processes check it   *)
(* at a time.                                                              *)
OneCheckDecision ==
  \A i \in Intent : \A m, n \in Decisions(i) :
    log[m].by = "policy" /\ log[n].by = "policy" => m = n

(* Two executions of one decision under one idempotency key, and two       *)
(* results of one effect, arise only from calls that overlap: the later    *)
(* one read the log before the earlier one appended.                       *)
DuplicatesOverlap ==
  /\ \A m, n \in Begun :
       /\ m < n
       /\ log[m].decision = log[n].decision
       /\ log[m].key = log[n].key
       => log[n].read < m
  /\ \A e \in Begun : \A m, n \in Results(e) : m < n => log[n].read < m

(* A worker executes no intent that had a result when it took the intent   *)
(* up, and executes it under no decision that had been overridden by then. *)
FreshWork ==
  \A e \in Begun :
    log[e].by \in Worker /\ log[e].key = WorkerKey =>
      /\ \A n \in ResultsFor(IntentOf(e)) : n > log[e].since
      /\ \A d \in Decisions(IntentOf(e)) :
           d > log[e].decision => d > log[e].since

(* What has become of an intent once a worker passed it: it was begun, or  *)
(* a decision did not permit it.                                           *)
Handled(i) ==
  \E d \in Decisions(i) : log[d].outcome \notin Executable \/ Effects(d) # {}

(* A worker's cursor file never moves past an intent that nobody has       *)
(* handled, so that after a crash at any point the worker sees it again;   *)
(* the one exception is an intent whose check failed.                      *)
NothingSkipped ==
  \A w \in Worker : \A n \in 1..poll[w].file :
    Handled(Queue[n]) \/ Queue[n] \in failed

(* Every intent submitted to the topic is eventually begun or turned down, *)
(* although workers crash, poll at different moments and read the log in   *)
(* batches, unless its check fails.                                        *)
EventuallyHandled ==
  \A i \in Intent : Submissions(i) # {} ~> Handled(i) \/ i \in failed
=============================================================================

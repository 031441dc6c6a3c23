-------------------------- MODULE ExecutionProofs --------------------------
(* Theorems about the execution of intents, for any number of workers,     *)
(* clients and intents, any policy and any length of the log.              *)
EXTENDS Execution, TLAPS, SequenceTheorems, FiniteSetTheorems, WellFoundedInduction

-----------------------------------------------------------------------------
(* The inductive invariant.                                                *)

(* What a record refers to is an earlier line of the right type, and it    *)
(* was written after the looks it remembers.                               *)
LogOK ==
  \A n \in Lines :
    /\ log[n].type = "ExecutionBegun" =>
         /\ log[n].decision \in Lines /\ log[n].decision < n
         /\ log[log[n].decision].type = "DecisionRecorded"
         /\ log[n].since < n /\ log[n].read < n
    /\ log[n].type = "ExecutionResult" =>
         /\ log[n].effect \in Lines /\ log[n].effect < n
         /\ log[log[n].effect].type = "ExecutionBegun"
         /\ log[n].read < n

(* A process works under a decision of its intent and for an effect of     *)
(* that decision, and what it found when it last read the log has not been *)
(* overtaken by a line it could have seen.                                 *)
TaskOK(p) ==
  LET k == task[p]
  IN  k # NoTask =>
        /\ k.since <= Len(log) /\ k.read <= Len(log)
        /\ k.step \in {"begin", "append", "execute", "result"} =>
             k.decision \in Decisions(k.intent)
        /\ k.step \in {"execute", "result"} => k.effect \in Effects(k.decision)
        /\ k.step = "append" =>
             \A e \in Effects(k.decision) : log[e].key = k.key => e > k.read
        /\ k.step = "result" => \A n \in Results(k.effect) : n > k.read
        /\ p \in Worker /\ k.step \in {"resolve", "check", "record", "begin", "append"} =>
             \A n \in ResultsFor(k.intent) : n > k.since
        /\ p \in Worker /\ k.step \in {"begin", "append"} =>
             \A d \in Decisions(k.intent) : d > k.decision => d > k.since

(* Who is about to record a decision of the policy holds the decision      *)
(* lock, and there is no such decision yet.                                *)
CheckOK ==
  \A p \in Process :
    At(p, "record") =>
      /\ decider = p
      /\ \A n \in Decisions(task[p].intent) : log[n].by # "policy"

(* Every place of the queue is taken by a submission.                      *)
QueueOK ==
  \A k \in 1 .. Cardinality(Submitted) : \E n \in Submitted : UpTo(n) = k

(* What has become of an intent behind a worker's cursor.                  *)
Passed(i) == Handled(i) \/ i \in failed

(* A worker holds the rest of the batch it read, and has passed what lies  *)
(* before that rest, except for the intent it works on.                    *)
PollOK(w) ==
  LET p == poll[w]
  IN  /\ p.file <= Len(Queue) /\ p.cursor <= Len(Queue)
      /\ \A n \in 1 .. Len(Queue) :
           n <= p.file \/ n <= p.cursor => Passed(Queue[n])
      /\ p.polling =>
           /\ p.cursor + Len(p.todo) <= p.reached
           /\ p.reached <= Len(Queue)
           /\ \A k \in 1 .. Len(p.todo) :
                p.todo[k] = Queue[p.reached - Len(p.todo) + k]
           /\ \A n \in 1 .. p.reached - Len(p.todo) :
                \/ Passed(Queue[n])
                \/ task[w] # NoTask /\ task[w].intent = Queue[n]

ExecInv ==
  /\ TypeOK
  /\ QueueOK
  /\ LogOK
  /\ \A p \in Process : TaskOK(p)
  /\ CheckOK

-----------------------------------------------------------------------------
(* A set of lines that is not empty has a last one.                        *)
LEMMA MaxExists ==
  ASSUME NEW N \in Nat, NEW S \in SUBSET (0 .. N), S # {}
  PROVE  \E x \in S : \A y \in S : y <= x
<1> DEFINE Above(n) == {m \in 0 .. N : m > n}
           T == {Above(n) : n \in S}
<1>1. IsWellFoundedOn(StrictSubsetOrdering(0 .. N), SUBSET (0 .. N))
  <2>1. IsFiniteSet(0 .. N)
    BY FS_Interval
  <2>2. FiniteSubsetsOf(0 .. N) = SUBSET (0 .. N)
    BY <2>1, FS_Subset DEF FiniteSubsetsOf
  <2>3. IsWellFoundedOn(StrictSubsetOrdering(0 .. N), FiniteSubsetsOf(0 .. N))
    BY FS_StrictSubsetOrderingWellFounded
  <2> QED
    BY <2>2, <2>3
<1>2. T # {} /\ T \subseteq SUBSET (0 .. N)
  OBVIOUS
<1>3. PICK U \in T : \A V \in T : <<V, U>> \notin StrictSubsetOrdering(0 .. N)
  <2> HIDE DEF T
  <2> QED
    BY <1>1, <1>2, WFMin
<1>4. PICK x \in S : U = Above(x)
  BY <1>3
<1>5. ASSUME NEW y \in S, ~(y <= x)
      PROVE  FALSE
  <2>1. Above(y) \subseteq Above(x)
    BY <1>5
  <2>2. y \in Above(x) /\ y \notin Above(y)
    BY <1>5
  <2>3. <<Above(y), Above(x)>> \in StrictSubsetOrdering(0 .. N)
    BY <2>1, <2>2 DEF StrictSubsetOrdering
  <2> QED
    BY <1>3, <1>4, <2>3
<1> QED
  BY <1>5

(* The latest decision of an intent is one of its decisions, and no other  *)
(* comes after it.                                                         *)
LEMMA LatestIsLast ==
  ASSUME log \in Seq(Record), NEW i, Decisions(i) # {}
  PROVE  Latest(i) \in Decisions(i) /\ \A n \in Decisions(i) : n <= Latest(i)
<1>1. Len(log) \in Nat /\ Decisions(i) \in SUBSET (0 .. Len(log))
  BY DEF Decisions, Lines
<1>2. \E x \in Decisions(i) : \A y \in Decisions(i) : y <= x
  BY <1>1, MaxExists
<1> QED
  BY <1>2 DEF Latest

-----------------------------------------------------------------------------
(* The log only grows.                                                     *)
Grown ==
  /\ Lines \subseteq Lines'
  /\ Len(log) <= Len(log')
  /\ \A n \in Lines : log'[n] = log[n]

(* What a step does to the log: nothing, or one more line.                 *)
LEMMA Appending ==
  ASSUME log \in Seq(Record), NEW r \in Record, Append1(r)
  PROVE  /\ log' \in Seq(Record)
         /\ Len(log) \in Nat
         /\ Len(log') = Len(log) + 1
         /\ Lines' = Lines \cup {Len(log) + 1}
         /\ log'[Len(log) + 1] = r
         /\ Grown
BY DEF Append1, Lines, Grown

(* A step that leaves the ledger alone adds no line to it.                 *)
LEMMA Keeping ==
  ASSUME log \in Seq(Record), log' = log
  PROVE  Grown /\ Lines' = Lines
BY DEF Lines, Grown

(* Older lines are about what they were about before.                      *)
LEMMA OldLines ==
  ASSUME log \in Seq(Record), log' \in Seq(Record), LogOK, LogOK', Grown
  PROVE  /\ \A i : Decisions(i)' \cap Lines = Decisions(i)
         /\ \A d : Effects(d)' \cap Lines = Effects(d)
         /\ \A e : Results(e)' \cap Lines = Results(e)
         /\ \A i : ResultsFor(i)' \cap Lines = ResultsFor(i)
<1>1. \A i : Decisions(i)' \cap Lines = Decisions(i)
  BY DEF Grown, Decisions
<1>2. \A d : Effects(d)' \cap Lines = Effects(d)
  BY DEF Grown, Effects
<1>3. \A e : Results(e)' \cap Lines = Results(e)
  BY DEF Grown, Results
<1>4. ASSUME NEW i, NEW n \in ResultsFor(i)' \cap Lines
      PROVE  n \in ResultsFor(i)
  <2>1. PICK d, e : /\ d \in Decisions(i)' /\ e \in Effects(d)'
                    /\ n \in Results(e)'
    BY <1>4 DEF ResultsFor
  <2>2. n \in Results(e)
    BY <1>3, <1>4, <2>1
  <2>3. e \in Lines /\ e \in Effects(d)
    BY <1>2, <2>1, <2>2 DEF LogOK, Results
  <2>4. d \in Lines /\ d \in Decisions(i)
    BY <1>1, <2>1, <2>3 DEF LogOK, Effects
  <2> QED
    BY <2>2, <2>3, <2>4 DEF ResultsFor
<1>5. ASSUME NEW i, NEW n \in ResultsFor(i)
      PROVE  n \in ResultsFor(i)' \cap Lines
  BY <1>1, <1>2, <1>3, <1>5 DEF ResultsFor
<1> QED
  BY <1>1, <1>2, <1>3, <1>4, <1>5

-----------------------------------------------------------------------------
(* What the lines of a log and the steps of a task are.                    *)
LEMMA RecordFacts ==
  ASSUME log \in Seq(Record), NEW n \in Lines
  PROVE  /\ log[n] \in Record
         /\ n \in Nat \ {0} /\ n <= Len(log) /\ Len(log) \in Nat
         /\ log[n].type = "IntentSubmitted" => log[n].intent \in Intent
         /\ log[n].type = "DecisionRecorded" =>
              /\ log[n].intent \in Intent
              /\ log[n].outcome \in Policy \cup Overriding
         /\ log[n].type = "ExecutionBegun" =>
              log[n].decision \in Nat /\ log[n].key \in Key
BY DEF Lines, Record

(* A process at a step has a task.                                         *)
LEMMA TaskFacts ==
  ASSUME task \in [Process -> Task \cup {NoTask}], NEW p \in Process,
         task[p] # NoTask
  PROVE  /\ task[p] \in Task /\ task[p].intent \in Intent
         /\ task[p].since \in Nat /\ task[p].read \in Nat
         /\ task[p].decision \in Nat /\ task[p].effect \in Nat
         /\ task[p].key \in Key /\ task[p].status \in Status
BY DEF Task

(* A record of a task with some of its fields changed.                     *)
LEMMA Updates ==
  ASSUME NEW t \in Task, NEW n \in Nat
  PROVE  /\ \A step \in Step : [t EXCEPT !.step = step] \in Task
         /\ [t EXCEPT !.step = "begin", !.decision = n] \in Task
         /\ [t EXCEPT !.step = "append", !.read = n] \in Task
         /\ [t EXCEPT !.step = "execute", !.effect = n, !.since = 0, !.read = 0] \in Task
         /\ \A status \in Status :
              [t EXCEPT !.step = "result", !.status = status, !.read = n] \in Task
BY DEF Task, Step

(* Others is what a step of p leaves alone of the tasks.                   *)
Tasks == [Process -> Task \cup {NoTask}]
Others(p) == \A q \in Process \ {p} : task'[q] = task[q]
SameWork(p) ==
  /\ task'[p].intent = task[p].intent
  /\ task'[p].key = task[p].key

(* Going on under a decision, or giving the intent up.                     *)
LEMMA UnderDoes ==
  ASSUME task \in Tasks, NEW p \in Process, task[p] # NoTask,
         NEW d \in Nat, NEW outcome, Under(p, d, outcome)
  PROVE  /\ task' \in Tasks /\ Others(p)
         /\ task'[p] # NoTask <=> Permits(p, outcome)
         /\ Permits(p, outcome) =>
              /\ SameWork(p) /\ task'[p].step = "begin"
              /\ task'[p].decision = d /\ task'[p].since = task[p].since
              /\ task'[p].read = task[p].read
<1> DEFINE t == [task[p] EXCEPT !.step = "begin", !.decision = d]
<1>1. t \in Task
  BY Updates DEF Tasks
<1>2. task' = [task EXCEPT ![p] = IF Permits(p, outcome) THEN t ELSE NoTask]
  BY DEF Under, Tasks
<1>3. /\ t.step = "begin" /\ t.decision = d /\ t.since = task[p].since
      /\ t.read = task[p].read /\ t.intent = task[p].intent /\ t.key = task[p].key
  BY DEF Tasks, Task
<1> HIDE DEF t
<1>4. task'[p] = IF Permits(p, outcome) THEN t ELSE NoTask
  BY <1>2 DEF Tasks
<1>5. task' \in Tasks /\ Others(p)
  BY <1>1, <1>2 DEF Tasks, Others
<1> QED
  BY <1>1, <1>3, <1>4, <1>5, NullAssumption DEF SameWork

(* Going on to the next step of a check.                                   *)
LEMMA GoToDoes ==
  ASSUME task \in Tasks, NEW p \in Process, task[p] # NoTask,
         NEW step \in Step, GoTo(p, step)
  PROVE  /\ task' \in Tasks /\ Others(p)
         /\ task'[p] # NoTask /\ SameWork(p) /\ task'[p].step = step
         /\ task'[p].since = task[p].since /\ task'[p].read = task[p].read
<1> DEFINE t == [task[p] EXCEPT !.step = step]
<1>1. t \in Task
  BY Updates DEF Tasks
<1>2. task' = [task EXCEPT ![p] = t]
  BY DEF GoTo
<1>3. /\ t.step = step /\ t.since = task[p].since /\ t.read = task[p].read
      /\ t.intent = task[p].intent /\ t.key = task[p].key
  BY DEF Tasks, Task
<1> HIDE DEF t
<1>4. task'[p] = t /\ task' \in Tasks /\ Others(p)
  BY <1>1, <1>2 DEF Tasks, Others
<1> QED
  BY <1>1, <1>3, <1>4, NullAssumption DEF SameWork

(* Begin: the look at the log, and the line.                               *)
LEMMA BeginReadDoes ==
  ASSUME task \in Tasks, log \in Seq(Record), NEW p \in Process, BeginRead(p)
  PROVE  /\ task' \in Tasks /\ Others(p) /\ task[p] # NoTask
         /\ Claimed(task[p].decision, task[p].key) => task'[p] = NoTask
         /\ ~Claimed(task[p].decision, task[p].key) =>
              /\ task'[p] # NoTask /\ SameWork(p) /\ task'[p].step = "append"
              /\ task'[p].decision = task[p].decision
              /\ task'[p].since = task[p].since
              /\ task'[p].read = Len(log)
<1> DEFINE t == [task[p] EXCEPT !.step = "append", !.read = Len(log)]
<1>1. task[p] \in Task /\ task[p] # NoTask /\ Len(log) \in Nat
  BY DEF BeginRead, At, Tasks
<1>2. t \in Task
  BY <1>1, Updates
<1>3. task' = [task EXCEPT ![p] =
                 IF Claimed(task[p].decision, task[p].key) THEN NoTask ELSE t]
  BY DEF BeginRead, Tasks
<1>4. /\ t.step = "append" /\ t.since = task[p].since /\ t.read = Len(log)
      /\ t.intent = task[p].intent /\ t.key = task[p].key
      /\ t.decision = task[p].decision
  BY <1>1 DEF Task
<1> HIDE DEF t
<1>5. /\ task'[p] = IF Claimed(task[p].decision, task[p].key) THEN NoTask ELSE t
      /\ task' \in Tasks /\ Others(p)
  BY <1>2, <1>3 DEF Tasks, Others
<1> QED
  BY <1>1, <1>2, <1>4, <1>5, NullAssumption DEF SameWork

(* A run that begins is executing, its execution to be the next line.      *)
LEMMA BeginAppendDoes ==
  ASSUME task \in Tasks, log \in Seq(Record), NEW p \in Process, BeginAppend(p)
  PROVE  /\ task' \in Tasks /\ Others(p) /\ task[p] # NoTask
         /\ task'[p] # NoTask /\ SameWork(p) /\ task'[p].step = "execute"
         /\ task'[p].decision = task[p].decision
         /\ task'[p].effect = Len(log) + 1
         /\ task'[p].since = 0 /\ task'[p].read = 0
<1> DEFINE t == [task[p] EXCEPT !.step = "execute", !.effect = Len(log) + 1,
                                !.since = 0, !.read = 0]
<1>1. task[p] \in Task /\ task[p] # NoTask /\ Len(log) + 1 \in Nat
  BY DEF BeginAppend, At, Tasks
<1>2. t \in Task
  BY <1>1, Updates
<1>3. task' = [task EXCEPT ![p] = t]
  BY DEF BeginAppend, Tasks
<1>4. /\ t.step = "execute" /\ t.since = 0 /\ t.read = 0
      /\ t.intent = task[p].intent /\ t.key = task[p].key
      /\ t.decision = task[p].decision /\ t.effect = Len(log) + 1
  BY <1>1 DEF Task
<1> HIDE DEF t
<1>5. task'[p] = t /\ task' \in Tasks /\ Others(p)
  BY <1>2, <1>3 DEF Tasks, Others
<1> QED
  BY <1>1, <1>2, <1>4, <1>5, NullAssumption DEF SameWork

(* Commit: the look at the log.                                            *)
LEMMA CommitReadDoes ==
  ASSUME task \in Tasks, log \in Seq(Record), NEW p \in Process, CommitRead(p)
  PROVE  /\ task' \in Tasks /\ Others(p) /\ task[p] # NoTask
         /\ task'[p] # NoTask =>
              /\ Results(task[p].effect) = {}
              /\ SameWork(p) /\ task'[p].step = "result"
              /\ task'[p].decision = task[p].decision
              /\ task'[p].effect = task[p].effect
              /\ task'[p].since = task[p].since
              /\ task'[p].read = Len(log)
<1>1. PICK status \in Status :
        task' = [task EXCEPT ![p] =
          IF Settled(@.effect, status) THEN NoTask
          ELSE [@ EXCEPT !.step = "result", !.status = status, !.read = Len(log)]]
  BY DEF CommitRead
<1> DEFINE t == [task[p] EXCEPT !.step = "result", !.status = status,
                                !.read = Len(log)]
<1>2. task[p] \in Task /\ task[p] # NoTask /\ Len(log) \in Nat
  BY DEF CommitRead, At, Tasks
<1>3. t \in Task
  BY <1>2, Updates
<1>4. task' = [task EXCEPT ![p] =
                 IF Results(task[p].effect) # {} THEN NoTask ELSE t]
  BY <1>1 DEF Tasks, Settled
<1>5. /\ t.step = "result" /\ t.since = task[p].since /\ t.read = Len(log)
      /\ t.intent = task[p].intent /\ t.key = task[p].key
      /\ t.decision = task[p].decision /\ t.effect = task[p].effect
  BY <1>2 DEF Task
<1> HIDE DEF t
<1>6. /\ task'[p] = IF Results(task[p].effect) # {} THEN NoTask ELSE t
      /\ task' \in Tasks /\ Others(p)
  BY <1>3, <1>4 DEF Tasks, Others
<1> QED
  BY <1>2, <1>3, <1>5, <1>6, NullAssumption DEF SameWork

-----------------------------------------------------------------------------
(* The queue is a sequence of intents, one for each submission.            *)
LEMMA SubmittedFinite ==
  ASSUME log \in Seq(Record)
  PROVE  /\ IsFiniteSet(Submitted) /\ Cardinality(Submitted) \in Nat
         /\ \A n : {m \in Submitted : m <= n} \subseteq Submitted
<1>1. IsFiniteSet(1 .. Len(log))
  BY FS_Interval
<1>2. Submitted \subseteq 1 .. Len(log)
  BY DEF Submitted, Lines
<1> QED
  BY <1>1, <1>2, FS_Subset, FS_CardinalityType

QueueFacts ==
  /\ Queue \in Seq(Intent)
  /\ Len(Queue) = Cardinality(Submitted) /\ Len(Queue) \in Nat
  /\ \A k \in 1 .. Len(Queue) :
       Queue[k] = log[CHOOSE n \in Submitted : UpTo(n) = k].intent

(* The intents of the ledger, in order, are a sequence of topics.          *)
LEMMA QueueIsSeq ==
  log \in Seq(Record) /\ QueueOK => QueueFacts
<1> SUFFICES ASSUME log \in Seq(Record), QueueOK
             PROVE  QueueFacts
  OBVIOUS
<1> DEFINE N == Cardinality(Submitted)
           line(k) == CHOOSE n \in Submitted : UpTo(n) = k
<1>1. N \in Nat
  BY SubmittedFinite
<1>2. \A k \in 1 .. N : line(k) \in Submitted
  BY DEF QueueOK
<1>3. \A k \in 1 .. N : log[line(k)].intent \in Intent
  BY <1>2, RecordFacts DEF Submitted
<1>4. Queue = [k \in 1 .. N |-> log[line(k)].intent]
  BY DEF Queue
<1> HIDE DEF N, line
<1>5. Queue \in [1 .. N -> Intent]
  BY <1>3, <1>4
<1>6. Queue \in Seq(Intent) /\ Len(Queue) = N
  BY <1>1, <1>5
<1> QED
  BY <1>1, <1>4, <1>6 DEF N, line, QueueFacts

(* A submission is added to the queue at its end, and nothing else changes *)
(* the queue.                                                              *)
LEMMA QueueKept ==
  ASSUME log \in Seq(Record), QueueOK, log' = log
  PROVE  QueueOK' /\ Queue' = Queue
BY DEF QueueOK, Queue, Submitted, UpTo, Lines

(* An appended line leaves the queued intents where they were.             *)
LEMMA QueueGrows ==
  ASSUME log \in Seq(Record), QueueOK, NEW r \in Record, Append1(r)
  PROVE  /\ QueueOK' /\ Len(Queue) <= Len(Queue')
         /\ \A k \in 1 .. Len(Queue) : Queue'[k] = Queue[k]
<1> DEFINE card == Cardinality(Submitted)
<1>0. PICK N : N = Len(log) + 1
  OBVIOUS
<1>1. /\ log' \in Seq(Record) /\ Lines' = Lines \cup {N} /\ N \notin Lines
      /\ N \in Nat /\ log'[N] = r /\ \A n \in Lines : log'[n] = log[n] /\ n < N
      /\ Lines \subseteq Nat
  BY <1>0, Appending DEF Lines, Grown
<1>2. IsFiniteSet(Submitted) /\ card \in Nat /\ Submitted \subseteq Lines
  BY SubmittedFinite DEF Submitted
<1>3. /\ r.type = "IntentSubmitted" => Submitted' = Submitted \cup {N}
      /\ r.type # "IntentSubmitted" => Submitted' = Submitted
  BY <1>1 DEF Submitted
<1> HIDE DEF card
<1>4. /\ r.type = "IntentSubmitted" => Cardinality(Submitted') = card + 1
      /\ r.type # "IntentSubmitted" => Cardinality(Submitted') = card
  <2>1. Cardinality(Submitted \cup {N}) = Cardinality(Submitted) + 1
    BY <1>1, <1>2, FS_AddElement
  <2> QED
    BY <1>3, <2>1 DEF card
<1>5. ASSUME NEW n \in Submitted
      PROVE  UpTo(n)' = UpTo(n)
  <2>1. n \in Nat /\ n < N
    BY <1>1, <1>2
  <2>2. {m \in Submitted \cup {N} : m <= n} = {m \in Submitted : m <= n}
    BY <1>1, <2>1
  <2>3. {m \in Submitted' : m <= n} = {m \in Submitted : m <= n}
    BY <1>3, <2>2
  <2> QED
    BY <2>3 DEF UpTo
<1>6. ASSUME r.type = "IntentSubmitted"
      PROVE  UpTo(N)' = card + 1
  <2>1. Submitted' = Submitted \cup {N}
    BY <1>3, <1>6
  <2>2. \A m \in Submitted \cup {N} : m <= N
    BY <1>1, <1>2
  <2>3. {m \in Submitted' : m <= N} = Submitted'
    BY <2>1, <2>2
  <2>4. UpTo(N)' = Cardinality({m \in Submitted' : m <= N})
    BY DEF UpTo
  <2> QED
    BY <1>4, <1>6, <2>3, <2>4
<1>7. \A k \in 1 .. card : \E n \in Submitted : UpTo(n) = k
  BY DEF QueueOK, card
<1>8. QueueOK'
  <2>1. ASSUME NEW k \in 1 .. Cardinality(Submitted')
        PROVE  \E n \in Submitted' : UpTo(n)' = k
    <3>1. CASE k \in 1 .. card
      BY <1>3, <1>5, <1>7, <3>1
    <3>2. CASE k \notin 1 .. card
      <4>1. r.type = "IntentSubmitted" /\ k = card + 1
        BY <1>2, <1>4, <3>2
      <4> QED
        BY <1>3, <1>6, <4>1
    <3> QED
      BY <3>1, <3>2
  <2> QED
    BY <2>1 DEF QueueOK
<1>9. QueueFacts /\ QueueFacts'
  <2>1. QueueFacts
    BY QueueIsSeq
  <2>2. (log \in Seq(Record) /\ QueueOK => QueueFacts)'
    BY QueueIsSeq, PTL
  <2> QED
    BY <1>1, <1>8, <2>1, <2>2
<1>10. ASSUME NEW k \in 1 .. card
       PROVE  Queue'[k] = Queue[k]
  <2>1. \A n : n \in Submitted' /\ UpTo(n)' = k <=> n \in Submitted /\ UpTo(n) = k
    <3>1. ASSUME NEW n, n \in Submitted', UpTo(n)' = k
          PROVE  n \in Submitted
      BY <1>2, <1>3, <1>6, <3>1
    <3> QED
      BY <1>3, <1>5, <3>1
  <2>2. (CHOOSE n \in Submitted' : UpTo(n)' = k) =
          (CHOOSE n \in Submitted : UpTo(n) = k)
    BY <2>1
  <2>3. (CHOOSE n \in Submitted : UpTo(n) = k) \in Lines
    BY <1>2, <1>7
  <2>4. k \in 1 .. Len(Queue') /\ k \in 1 .. Len(Queue)
    BY <1>2, <1>4, <1>9 DEF QueueFacts, card
  <2>5. Queue'[k] = log'[CHOOSE n \in Submitted' : UpTo(n)' = k].intent
    BY <1>9, <2>4 DEF QueueFacts
  <2>6. Queue[k] = log[CHOOSE n \in Submitted : UpTo(n) = k].intent
    BY <1>9, <2>4 DEF QueueFacts
  <2> QED
    BY <1>1, <2>2, <2>3, <2>5, <2>6
<1> QED
  BY <1>2, <1>4, <1>8, <1>9, <1>10 DEF QueueFacts, card

-----------------------------------------------------------------------------
(* Types.  What a command takes from the log is of the right type because  *)
(* lines refer to lines of the right type.                                 *)
LEMMA StartPollDoes ==
  ASSUME TypeOK, QueueOK, NEW w \in Worker, StartPoll(w)
  PROVE  \E last \in poll[w].cursor + 1 .. Len(Queue) :
           /\ poll' \in [Worker -> Poll]
           /\ \A v \in Worker \ {w} : poll'[v] = poll[v]
           /\ poll'[w].polling
           /\ poll'[w].cursor = poll[w].cursor /\ poll'[w].file = poll[w].file
           /\ poll'[w].reached = last
           /\ poll'[w].todo = SubSeq(Queue, poll[w].cursor + 1, last)
<1>1. PICK last \in poll[w].cursor + 1 .. Len(Queue) :
        poll' = [poll EXCEPT ![w] =
            [@ EXCEPT !.polling = TRUE, !.reached = last,
                      !.todo = SubSeq(Queue, poll[w].cursor + 1, last)]]
  BY DEF StartPoll
<1> DEFINE todo == SubSeq(Queue, poll[w].cursor + 1, last)
           q == [poll[w] EXCEPT !.polling = TRUE, !.reached = last, !.todo = todo]
<1>2. poll[w] \in Poll /\ poll[w].cursor \in Nat
  BY DEF TypeOK, Poll
<1>3. Queue \in Seq(Intent) /\ Len(Queue) \in Nat
  BY QueueIsSeq DEF TypeOK, QueueFacts
<1>4. todo \in Seq(Intent) /\ last \in Nat
  BY <1>2, <1>3
<1>5. poll' = [poll EXCEPT ![w] = q]
  BY <1>1 DEF TypeOK
<1> HIDE DEF todo
<1>6. /\ q \in Poll /\ q.polling /\ q.reached = last /\ q.todo = todo
      /\ q.cursor = poll[w].cursor /\ q.file = poll[w].file
  BY <1>2, <1>4 DEF Poll
<1> HIDE DEF q
<1>7. poll' \in [Worker -> Poll] /\ poll'[w] = q
      /\ \A v \in Worker \ {w} : poll'[v] = poll[v]
  BY <1>5, <1>6 DEF TypeOK
<1> QED
  BY <1>6, <1>7 DEF todo

(* A worker that looks at an intent of its batch drops it from the batch.  *)
LEMMA ExamineDoes ==
  ASSUME TypeOK, NEW w \in Worker, Examine(w)
  PROVE  /\ poll' \in [Worker -> Poll] /\ task' \in Tasks /\ Others(w)
         /\ \A v \in Worker \ {w} : poll'[v] = poll[v]
         /\ poll'[w].polling = poll[w].polling /\ poll'[w].reached = poll[w].reached
         /\ poll'[w].cursor = poll[w].cursor /\ poll'[w].file = poll[w].file
         /\ poll'[w].todo = Tail(poll[w].todo)
         /\ AlreadyExecuted(Head(poll[w].todo)) => task'[w] = NoTask
         /\ ~AlreadyExecuted(Head(poll[w].todo)) =>
              /\ task'[w] # NoTask /\ task'[w].step = "resolve"
              /\ task'[w].intent = Head(poll[w].todo)
              /\ task'[w].since = Len(log) /\ task'[w].read = 0
<1> DEFINE i == Head(poll[w].todo)
           t == [step |-> "resolve", intent |-> i, since |-> Len(log),
                 decision |-> 0, key |-> WorkerKey, effect |-> 0,
                 status |-> "FAIL", read |-> 0]
           q == [poll[w] EXCEPT !.todo = Tail(poll[w].todo)]
<1>1. poll[w] \in Poll /\ poll[w].todo \in Seq(Intent) /\ poll[w].todo # <<>>
  BY DEF Examine, TypeOK, Poll
<1>2. i \in Intent /\ Tail(poll[w].todo) \in Seq(Intent)
  BY <1>1
<1>3. poll' = [poll EXCEPT ![w] = q]
      /\ task' = [task EXCEPT ![w] = IF AlreadyExecuted(i) THEN NoTask ELSE t]
  BY DEF Examine, TypeOK
<1>4. /\ q \in Poll /\ q.polling = poll[w].polling /\ q.reached = poll[w].reached
      /\ q.cursor = poll[w].cursor /\ q.file = poll[w].file
      /\ q.todo = Tail(poll[w].todo)
  BY <1>1, <1>2 DEF Poll
<1> HIDE DEF i
<1>5. /\ t \in Task /\ t.step = "resolve" /\ t.intent = i
      /\ t.since = Len(log) /\ t.read = 0
  BY <1>2, ConstantsAssumption DEF TypeOK, Task, Step, Key
<1> HIDE DEF t, q
<1>6. /\ poll' \in [Worker -> Poll] /\ poll'[w] = q
      /\ \A v \in Worker \ {w} : poll'[v] = poll[v]
  BY <1>3, <1>4 DEF TypeOK
<1>7. /\ task' \in Tasks /\ Others(w)
      /\ task'[w] = IF AlreadyExecuted(i) THEN NoTask ELSE t
  BY <1>3, <1>5 DEF TypeOK, Tasks, Others, Process
<1> QED
  BY <1>4, <1>5, <1>6, <1>7, NullAssumption DEF i

(* A poll that ends moves its cursor to what it has reached.               *)
LEMMA FinishPollDoes ==
  ASSUME TypeOK, NEW w \in Worker, FinishPoll(w)
  PROVE  /\ poll' \in [Worker -> Poll]
         /\ \A v \in Worker \ {w} : poll'[v] = poll[v]
         /\ ~poll'[w].polling /\ poll'[w].file = poll[w].file
         /\ poll'[w].cursor = poll[w].reached
<1> DEFINE q == [poll[w] EXCEPT !.polling = FALSE, !.cursor = poll[w].reached,
                                !.reached = 0]
<1>1. poll[w] \in Poll
  BY DEF TypeOK
<1>2. poll' = [poll EXCEPT ![w] = q]
  BY DEF FinishPoll, NextCursor, TypeOK
<1>3. q \in Poll /\ ~q.polling /\ q.file = poll[w].file /\ q.cursor = poll[w].reached
  BY <1>1 DEF Poll
<1> HIDE DEF q
<1> QED
  BY <1>2, <1>3 DEF TypeOK

(* A saved cursor is the worker's own.                                     *)
LEMMA SaveCursorDoes ==
  ASSUME TypeOK, NEW w \in Worker, SaveCursor(w)
  PROVE  /\ poll' \in [Worker -> Poll]
         /\ \A v \in Worker \ {w} : poll'[v] = poll[v]
         /\ ~poll'[w].polling /\ poll'[w].cursor = poll[w].cursor
         /\ poll'[w].file = poll[w].cursor
<1> DEFINE q == [poll[w] EXCEPT !.file = poll[w].cursor]
<1>1. poll[w] \in Poll /\ ~poll[w].polling
  BY DEF SaveCursor, TypeOK
<1>2. poll' = [poll EXCEPT ![w] = q]
  BY DEF SaveCursor, TypeOK
<1>3. /\ q \in Poll /\ ~q.polling /\ q.cursor = poll[w].cursor
      /\ q.file = poll[w].cursor
  BY <1>1 DEF Poll
<1> HIDE DEF q
<1> QED
  BY <1>2, <1>3 DEF TypeOK

(* A process that dies loses its run; a worker restarts at its saved       *)
(* cursor.                                                                 *)
LEMMA CrashDoes ==
  ASSUME TypeOK, NEW p \in Process, Crash(p)
  PROVE  /\ task' \in Tasks /\ Others(p) /\ task'[p] = NoTask
         /\ poll' \in [Worker -> Poll]
         /\ \A w \in Worker \ {p} : poll'[w] = poll[w]
         /\ p \in Worker => /\ ~poll'[p].polling
                            /\ poll'[p].file = poll[p].file
                            /\ poll'[p].cursor = poll[p].file
<1>1. task' \in Tasks /\ Others(p) /\ task'[p] = NoTask
  BY DEF Crash, TypeOK, Tasks, Others
<1> QED
  BY <1>1 DEF Crash, TypeOK, Poll

(* A command puts its client at its first step and disturbs nobody.        *)
LEMMA CommandDoes ==
  ASSUME TypeOK, NEW c \in Client, NEW step \in Step, NEW i \in Intent,
         NEW d \in Nat, NEW key \in Key, NEW e \in Nat, NEW since \in Nat,
         Command(c, step, i, d, key, e, since)
  PROVE  /\ task' \in Tasks /\ Others(c) /\ ops' \in 0 .. MaxOps
         /\ task'[c] # NoTask /\ task'[c].step = step /\ task'[c].intent = i
         /\ task'[c].decision = d /\ task'[c].key = key /\ task'[c].effect = e
         /\ task'[c].since = since /\ task'[c].read = 0
<1> DEFINE t == [step |-> step, intent |-> i, since |-> since, decision |-> d,
                 key |-> key, effect |-> e, status |-> "FAIL", read |-> 0]
<1>1. /\ t \in Task /\ t.step = step /\ t.intent = i /\ t.since = since
      /\ t.decision = d /\ t.key = key /\ t.effect = e /\ t.read = 0
  BY ConstantsAssumption DEF Task
<1>2. task' = [task EXCEPT ![c] = t] /\ ops' \in 0 .. MaxOps
  BY ConstantsAssumption DEF Command, Operation, TypeOK
<1> HIDE DEF t
<1>3. task' \in Tasks /\ Others(c) /\ task'[c] = t
  BY <1>1, <1>2 DEF Tasks, Others, Process, TypeOK
<1> QED
  BY <1>1, <1>2, <1>3, NullAssumption

(* Every step keeps the types.                                             *)
LEMMA TypeCorrect ==
  ASSUME TypeOK, QueueOK, LogOK, [Next]_vars
  PROVE  TypeOK'
<1>1. log \in Seq(Record) /\ Len(log) \in Nat /\ task \in Tasks
  BY DEF TypeOK, Tasks
<1>2. ASSUME NEW w \in Worker, StartPoll(w)
      PROVE  TypeOK'
  BY <1>2, StartPollDoes DEF StartPoll, TypeOK
<1>3. ASSUME NEW w \in Worker, Examine(w)
      PROVE  TypeOK'
  BY <1>3, ExamineDoes DEF Examine, TypeOK, Tasks
<1>4. ASSUME NEW w \in Worker, Resolve(w)
      PROVE  TypeOK'
  <2>1. w \in Process /\ task[w] # NoTask /\ "check" \in Step
    BY <1>4 DEF Resolve, At, Process, Step
  <2>2. task' \in Tasks
    <3>1. CASE Decisions(task[w].intent) # {}
      <4>1. Latest(task[w].intent) \in Nat
        BY <1>1, <3>1, LatestIsLast DEF Decisions, Lines
      <4> QED
        BY <1>1, <1>4, <2>1, <3>1, <4>1, UnderDoes DEF Resolve
    <3>2. CASE Decisions(task[w].intent) = {}
      BY <1>1, <1>4, <2>1, <3>2, GoToDoes DEF Resolve
    <3> QED
      BY <3>1, <3>2
  <2> QED
    BY <1>4, <2>2 DEF Resolve, TypeOK, Tasks
<1>5. ASSUME NEW w \in Worker, FinishPoll(w) \/ SaveCursor(w)
      PROVE  TypeOK'
  BY <1>5, FinishPollDoes, SaveCursorDoes DEF FinishPoll, SaveCursor, TypeOK
<1>6. ASSUME NEW p \in Process, CheckRead(p)
      PROVE  TypeOK'
  <2>1. task[p] # NoTask /\ "record" \in Step
    BY <1>6 DEF CheckRead, At, Step
  <2>2. task' \in Tasks /\ decider' \in Process \cup {NoProcess}
    <3>1. CASE Decisions(task[p].intent) # {}
      <4>1. Latest(task[p].intent) \in Nat
        BY <1>1, <3>1, LatestIsLast DEF Decisions, Lines
      <4> QED
        BY <1>1, <1>6, <2>1, <3>1, <4>1, UnderDoes DEF CheckRead, Decided, TypeOK
    <3>2. CASE Decisions(task[p].intent) = {}
      BY <1>1, <1>6, <2>1, <3>2, GoToDoes DEF CheckRead, Decided
    <3> QED
      BY <3>1, <3>2
  <2> QED
    BY <1>6, <2>2 DEF CheckRead, TypeOK, Tasks
<1>7. ASSUME NEW p \in Process, CheckRecord(p)
      PROVE  TypeOK'
  <2>1. PICK outcome \in Policy :
          /\ Append1([type |-> "DecisionRecorded", intent |-> task[p].intent,
                      by |-> "policy", outcome |-> outcome])
          /\ Under(p, Len(log) + 1, outcome)
    BY <1>7 DEF CheckRecord
  <2>2. task[p] # NoTask /\ task[p].intent \in Intent
    BY <1>7, TaskFacts DEF CheckRecord, At, TypeOK
  <2>3. log' \in Seq(Record)
    BY <1>1, <2>1, <2>2, Appending DEF Record
  <2>4. Len(log) + 1 \in Nat
    BY <1>1
  <2>5. task' \in Tasks
    BY <1>1, <2>1, <2>2, <2>4, UnderDoes
  <2> QED
    BY <1>7, <2>3, <2>5 DEF CheckRecord, TypeOK, Tasks
<1>8. ASSUME NEW p \in Process, BeginRead(p) \/ CommitRead(p)
      PROVE  TypeOK'
  <2>1. task' \in Tasks
    BY <1>1, <1>8, BeginReadDoes, CommitReadDoes
  <2> QED
    BY <1>8, <2>1 DEF BeginRead, CommitRead, TypeOK, Tasks
<1>9. ASSUME NEW p \in Process, BeginAppend(p)
      PROVE  TypeOK'
  <2>1. task' \in Tasks /\ task[p] # NoTask
    BY <1>1, <1>9, BeginAppendDoes
  <2>2. log' \in Seq(Record)
    BY <1>1, <1>9, <2>1, TaskFacts, Appending DEF BeginAppend, Record, Tasks
  <2> QED
    BY <1>9, <2>1, <2>2 DEF BeginAppend, TypeOK, Tasks
<1>10. ASSUME NEW p \in Process, CommitAppend(p)
       PROVE  TypeOK'
  <2>1. task[p] # NoTask /\ task' \in Tasks
    BY <1>10 DEF CommitAppend, At, TypeOK, Tasks
  <2>2. log' \in Seq(Record)
    BY <1>1, <1>10, <2>1, TaskFacts, Appending DEF CommitAppend, Record, Tasks
  <2> QED
    BY <1>10, <2>1, <2>2 DEF CommitAppend, TypeOK, Tasks
<1>11. ASSUME NEW p \in Process, CheckFails(p)
       PROVE  TypeOK'
  <2>1. task[p].intent \in Intent
    BY <1>11, TaskFacts DEF CheckFails, At, TypeOK
  <2> QED
    BY <1>11, <2>1, ConstantsAssumption DEF CheckFails, Operation, TypeOK
<1>12. ASSUME NEW p \in Process, Crash(p)
       PROVE  TypeOK'
  <2>1. task' \in Tasks /\ poll' \in [Worker -> Poll]
    BY <1>12, CrashDoes
  <2>2. ops' \in 0 .. MaxOps /\ decider' \in Process \cup {NoProcess}
    BY <1>12, ConstantsAssumption DEF Crash, Operation, TypeOK
  <2> QED
    BY <1>12, <2>1, <2>2 DEF Crash, TypeOK, Tasks
<1>13. ASSUME NEW i \in Intent, SubmitIntent(i)
       PROVE  TypeOK'
  <2>1. log' \in Seq(Record)
    BY <1>1, <1>13, Appending DEF SubmitIntent, Record
  <2> QED
    BY <1>13, <2>1 DEF SubmitIntent, TypeOK
<1>14. ASSUME NEW i \in Intent, NEW outcome \in Overriding, Override(i, outcome)
       PROVE  TypeOK'
  <2>1. log' \in Seq(Record)
    BY <1>1, <1>14, Appending DEF Override, Record
  <2> QED
    BY <1>14, <2>1, ConstantsAssumption DEF Override, Operation, TypeOK
<1>15. ASSUME NEW c \in Client, NEW i \in Intent, RunTask(c, i)
       PROVE  TypeOK'
  <2>1. log' \in Seq(Record)
    BY <1>1, <1>15, Appending DEF RunTask, Record
  <2>2. "check" \in Step /\ c \in Key /\ Len(log) + 1 \in Nat
    BY <1>1 DEF Step, Key
  <2>3. task' \in Tasks /\ ops' \in 0 .. MaxOps
    BY <1>15, <2>2, CommandDoes DEF RunTask
  <2> QED
    BY <1>15, <2>1, <2>3 DEF RunTask, TypeOK, Tasks
<1>16. ASSUME NEW c \in Client, NEW d \in Lines, NEW key \in Key,
              ClientBegin(c, d, key)
       PROVE  TypeOK'
  <2>1. "begin" \in Step /\ d \in Nat /\ log[d].intent \in Intent
    BY <1>1, <1>16, RecordFacts DEF Step, ClientBegin
  <2>2. task' \in Tasks /\ ops' \in 0 .. MaxOps
    BY <1>1, <1>16, <2>1, CommandDoes DEF ClientBegin
  <2> QED
    BY <1>16, <2>2 DEF ClientBegin, TypeOK, Tasks
<1>17. ASSUME NEW c \in Client, NEW e \in Lines, ClientCommit(c, e)
       PROVE  TypeOK'
  <2>1. /\ "execute" \in Step /\ e \in Nat /\ log[e].key \in Key
        /\ log[e].decision \in Lines /\ log[e].decision \in Nat
        /\ log[log[e].decision].type = "DecisionRecorded"
    BY <1>1, <1>17, RecordFacts DEF Step, ClientCommit, LogOK
  <2>2. log[log[e].decision].intent \in Intent
    BY <1>1, <2>1, RecordFacts
  <2>3. task' \in Tasks /\ ops' \in 0 .. MaxOps
    BY <1>17, <2>1, <2>2, CommandDoes DEF ClientCommit
  <2> QED
    BY <1>17, <2>3 DEF ClientCommit, TypeOK, Tasks
<1>18. CASE UNCHANGED vars
  BY <1>18 DEF vars, TypeOK
<1> QED
  BY <1>2, <1>3, <1>4, <1>5, <1>6, <1>7, <1>8, <1>9, <1>10, <1>11, <1>12,
     <1>13, <1>14, <1>15, <1>16, <1>17, <1>18 DEF Next, PollStep, TaskStep

-----------------------------------------------------------------------------
(* A line refers to earlier lines.                                         *)
Refers(r) ==
  /\ r.type = "ExecutionBegun" =>
       /\ r.decision \in Lines /\ log[r.decision].type = "DecisionRecorded"
       /\ r.since <= Len(log) /\ r.read <= Len(log)
  /\ r.type = "ExecutionResult" =>
       /\ r.effect \in Lines /\ log[r.effect].type = "ExecutionBegun"
       /\ r.read <= Len(log)

(* What the ledger's lines refer to stays so while it is unchanged.        *)
LEMMA LogOKKept ==
  ASSUME LogOK, log' = log
  PROVE  LogOK'
BY DEF LogOK, Lines

(* A line that refers to earlier lines only keeps the ledger sound.        *)
LEMMA LogOKGrows ==
  ASSUME log \in Seq(Record), LogOK, NEW r \in Record, Append1(r), Refers(r)
  PROVE  LogOK'
<1>1. PICK N : N = Len(log) + 1
  OBVIOUS
<1>2. /\ Lines' = Lines \cup {N} /\ N \in Nat /\ log'[N] = r
      /\ \A n \in Lines : log'[n] = log[n] /\ n < N
      /\ Lines \subseteq Nat /\ Len(log) \in Nat /\ N \notin Lines
  BY <1>1, Appending DEF Lines, Grown
<1>3. /\ r.type = "ExecutionBegun" => r.since \in Nat /\ r.read \in Nat
      /\ r.type = "ExecutionResult" => r.read \in Nat
  BY DEF Record
<1>4. ASSUME NEW n \in Lines', log'[n].type = "ExecutionBegun"
      PROVE  /\ log'[n].decision \in Lines' /\ log'[n].decision < n
             /\ log'[log'[n].decision].type = "DecisionRecorded"
             /\ log'[n].since < n /\ log'[n].read < n
  <2>1. CASE n \in Lines
    <3>1. log'[n] = log[n] /\ log[n].type = "ExecutionBegun"
      BY <1>2, <1>4, <2>1
    <3>2. /\ log[n].decision \in Lines /\ log[n].decision < n
          /\ log[log[n].decision].type = "DecisionRecorded"
          /\ log[n].read < n /\ log[n].since < n
      BY <2>1, <3>1 DEF LogOK
    <3>3. log'[log[n].decision] = log[log[n].decision]
      BY <1>2, <3>2
    <3> QED
      BY <1>2, <3>1, <3>2, <3>3
  <2>2. CASE n = N
    <3>1. log'[n] = r /\ r.type = "ExecutionBegun"
      BY <1>2, <1>4, <2>2
    <3>2. /\ r.decision \in Lines /\ r.decision < N
          /\ log[r.decision].type = "DecisionRecorded"
      BY <1>2, <3>1 DEF Refers
    <3>3. r.read < N /\ r.since < N
      BY <1>1, <1>2, <1>3, <3>1 DEF Refers
    <3>4. log'[r.decision] = log[r.decision]
      BY <1>2, <3>2
    <3> QED
      BY <1>2, <2>2, <3>1, <3>2, <3>3, <3>4
  <2> QED
    BY <1>2, <2>1, <2>2
<1>5. ASSUME NEW n \in Lines', log'[n].type = "ExecutionResult"
      PROVE  /\ log'[n].effect \in Lines' /\ log'[n].effect < n
             /\ log'[log'[n].effect].type = "ExecutionBegun"
             /\ log'[n].read < n
  <2>1. CASE n \in Lines
    <3>1. log'[n] = log[n] /\ log[n].type = "ExecutionResult"
      BY <1>2, <1>5, <2>1
    <3>2. /\ log[n].effect \in Lines /\ log[n].effect < n
          /\ log[log[n].effect].type = "ExecutionBegun"
          /\ log[n].read < n
      BY <2>1, <3>1 DEF LogOK
    <3>3. log'[log[n].effect] = log[log[n].effect]
      BY <1>2, <3>2
    <3> QED
      BY <1>2, <3>1, <3>2, <3>3
  <2>2. CASE n = N
    <3>1. log'[n] = r /\ r.type = "ExecutionResult"
      BY <1>2, <1>5, <2>2
    <3>2. /\ r.effect \in Lines /\ r.effect < N
          /\ log[r.effect].type = "ExecutionBegun"
      BY <1>2, <3>1 DEF Refers
    <3>3. r.read < N
      BY <1>1, <1>2, <1>3, <3>1 DEF Refers
    <3>4. log'[r.effect] = log[r.effect]
      BY <1>2, <3>2
    <3> QED
      BY <1>2, <2>2, <3>1, <3>2, <3>3, <3>4
  <2> QED
    BY <1>2, <2>1, <2>2
<1> QED
  BY <1>4, <1>5 DEF LogOK

(* A step appends one line that refers to earlier ones, or nothing.        *)
LineOf(r) ==
  \/ \E p \in Process :
       \/ CheckRecord(p) /\ r.type = "DecisionRecorded" /\ r.by = "policy"
                         /\ r.intent = task[p].intent
       \/ BeginAppend(p) /\ r.type = "ExecutionBegun"
       \/ CommitAppend(p) /\ r.type = "ExecutionResult"
  \/ \E i \in Intent, outcome \in Overriding :
       Override(i, outcome) /\ r.type = "DecisionRecorded" /\ r.by = "override"
  \/ \E i \in Intent : SubmitIntent(i) /\ r.type = "IntentSubmitted"
  \/ \E c \in Client, i \in Intent : RunTask(c, i) /\ r.type = "IntentSubmitted"

(* A step appends at most one line, the one its process was about to       *)
(* write.                                                                  *)
LEMMA Lines1 ==
  ASSUME TypeOK, \A p \in Process : TaskOK(p), [Next]_vars
  PROVE  \/ log' = log
         \/ \E r \in Record : Append1(r) /\ Refers(r) /\ LineOf(r)
<1>1. log \in Seq(Record) /\ Len(log) \in Nat /\ task \in Tasks
  BY DEF TypeOK, Tasks
<1>2. ASSUME NEW p \in Process, CheckRecord(p)
      PROVE  \E r \in Record : Append1(r) /\ Refers(r) /\ LineOf(r)
  <2>1. PICK outcome \in Policy :
          Append1([type |-> "DecisionRecorded", intent |-> task[p].intent,
                   by |-> "policy", outcome |-> outcome])
    BY <1>2 DEF CheckRecord
  <2>2. task[p].intent \in Intent
    BY <1>2, TaskFacts DEF CheckRecord, At, TypeOK
  <2> DEFINE r == [type |-> "DecisionRecorded", intent |-> task[p].intent,
                   by |-> "policy", outcome |-> outcome]
  <2>3. /\ r \in Record /\ r.type = "DecisionRecorded" /\ r.by = "policy"
        /\ r.intent = task[p].intent
    BY <2>2 DEF Record
  <2>4. Append1(r)
    BY <2>1
  <2> HIDE DEF r
  <2> QED
    BY <1>2, <2>3, <2>4 DEF Refers, LineOf
<1>3. ASSUME NEW p \in Process, BeginAppend(p)
      PROVE  \E r \in Record : Append1(r) /\ Refers(r) /\ LineOf(r)
  <2> DEFINE k == task[p]
             r == [type |-> "ExecutionBegun", decision |-> k.decision,
                   key |-> k.key, by |-> p, since |-> k.since, read |-> k.read]
  <2>1. Append1(r)
    BY <1>3 DEF BeginAppend
  <2>2. k # NoTask /\ k.step = "append"
    BY <1>3 DEF BeginAppend, At
  <2>3. /\ k.decision \in Decisions(k.intent)
        /\ k.since <= Len(log) /\ k.read <= Len(log)
    BY <2>2 DEF TaskOK
  <2>4. k.decision \in Lines /\ log[k.decision].type = "DecisionRecorded"
    BY <2>3 DEF Decisions
  <2>5. k.decision \in Nat /\ k.key \in Key /\ k.since \in Nat /\ k.read \in Nat
    BY <2>2, TaskFacts DEF TypeOK
  <2> HIDE DEF k
  <2>6. /\ r \in Record /\ r.type = "ExecutionBegun" /\ r.decision = k.decision
        /\ r.since = k.since /\ r.read = k.read
    BY <2>5 DEF Record
  <2> HIDE DEF r
  <2> QED
    BY <1>3, <2>1, <2>3, <2>4, <2>6 DEF Refers, LineOf
<1>4. ASSUME NEW p \in Process, CommitAppend(p)
      PROVE  \E r \in Record : Append1(r) /\ Refers(r) /\ LineOf(r)
  <2> DEFINE k == task[p]
             r == [type |-> "ExecutionResult", effect |-> k.effect,
                   status |-> k.status, read |-> k.read]
  <2>1. Append1(r)
    BY <1>4 DEF CommitAppend
  <2>2. k # NoTask /\ k.step = "result"
    BY <1>4 DEF CommitAppend, At
  <2>3. k.effect \in Effects(k.decision) /\ k.read <= Len(log)
    BY <2>2 DEF TaskOK
  <2>4. k.effect \in Lines /\ log[k.effect].type = "ExecutionBegun"
    BY <2>3 DEF Effects
  <2>5. k.effect \in Nat /\ k.status \in Status /\ k.read \in Nat
    BY <2>2, TaskFacts DEF TypeOK
  <2> HIDE DEF k
  <2>6. /\ r \in Record /\ r.type = "ExecutionResult" /\ r.effect = k.effect
        /\ r.read = k.read
    BY <2>5 DEF Record
  <2> HIDE DEF r
  <2> QED
    BY <1>4, <2>1, <2>3, <2>4, <2>6 DEF Refers, LineOf
<1>5. ASSUME NEW i \in Intent,
             SubmitIntent(i) \/ \E c \in Client : RunTask(c, i)
      PROVE  \E r \in Record : Append1(r) /\ Refers(r) /\ LineOf(r)
  <2> DEFINE r == [type |-> "IntentSubmitted", intent |-> i]
  <2>1. Append1(r)
    BY <1>5 DEF SubmitIntent, RunTask
  <2>2. r \in Record /\ r.type = "IntentSubmitted"
    BY DEF Record
  <2> HIDE DEF r
  <2> QED
    BY <1>5, <2>1, <2>2 DEF Refers, LineOf
<1>6. ASSUME NEW i \in Intent, NEW outcome \in Overriding, Override(i, outcome)
      PROVE  \E r \in Record : Append1(r) /\ Refers(r) /\ LineOf(r)
  <2> DEFINE r == [type |-> "DecisionRecorded", intent |-> i, by |-> "override",
                   outcome |-> outcome]
  <2>1. Append1(r)
    BY <1>6 DEF Override
  <2>2. r \in Record /\ r.type = "DecisionRecorded" /\ r.by = "override"
    BY DEF Record
  <2> HIDE DEF r
  <2> QED
    BY <1>6, <2>1, <2>2 DEF Refers, LineOf
<1>7. ASSUME NEW w \in Worker, PollStep(w) \/ SaveCursor(w)
      PROVE  log' = log
  BY <1>7 DEF PollStep, StartPoll, Examine, Resolve, FinishPoll, SaveCursor
<1>8. ASSUME NEW p \in Process,
             CheckRead(p) \/ BeginRead(p) \/ CommitRead(p) \/ CheckFails(p) \/ Crash(p)
      PROVE  log' = log
  BY <1>8 DEF CheckRead, BeginRead, CommitRead, CheckFails, Crash
<1>9. ASSUME NEW c \in Client, NEW d \in Lines, NEW key \in Key,
             ClientBegin(c, d, key) \/ ClientCommit(c, d)
      PROVE  log' = log
  BY <1>9 DEF ClientBegin, ClientCommit
<1>10. CASE UNCHANGED vars
  BY <1>10 DEF vars
<1>11. CASE \E c \in Client, e \in Lines : ClientCommit(c, e)
  BY <1>11 DEF ClientCommit
<1> QED
  BY <1>2, <1>3, <1>4, <1>5, <1>6, <1>7, <1>8, <1>9, <1>10, <1>11 DEF Next, TaskStep

(* So the log grows, and stays well formed.                                *)
LEMMA LogCorrect ==
  ASSUME TypeOK, QueueOK, LogOK, \A p \in Process : TaskOK(p), [Next]_vars
  PROVE  LogOK' /\ QueueOK' /\ Grown
<1>1. log \in Seq(Record)
  BY DEF TypeOK
<1>2. CASE log' = log
  BY <1>1, <1>2, LogOKKept, QueueKept, Keeping
<1>3. ASSUME NEW r \in Record, Append1(r), Refers(r)
      PROVE  LogOK' /\ QueueOK' /\ Grown
  BY <1>1, <1>3, LogOKGrows, QueueGrows, Appending
<1> QED
  BY <1>2, <1>3, Lines1

-----------------------------------------------------------------------------
(* What a process found stays true while others write: later lines come    *)
(* after everything it has looked at.                                      *)
LEMMA TaskKept ==
  ASSUME TypeOK, TypeOK', LogOK, LogOK', Grown, NEW p \in Process, TaskOK(p),
         task'[p] = task[p]
  PROVE  TaskOK(p)'
<1> DEFINE k == task[p]
<1> SUFFICES ASSUME k # NoTask
             PROVE  TaskOK(p)'
  BY DEF TaskOK
<1>1. /\ log \in Seq(Record) /\ log' \in Seq(Record)
      /\ Len(log) \in Nat /\ Len(log') \in Nat /\ Len(log) <= Len(log')
      /\ \A n \in Lines' : n \notin Lines => n > Len(log)
      /\ Lines' \subseteq Nat
  BY DEF TypeOK, Grown, Lines
<1>2. /\ k.since \in Nat /\ k.read \in Nat
      /\ k.since <= Len(log) /\ k.read <= Len(log)
  BY TaskFacts DEF TypeOK, TaskOK
<1>3. /\ \A i : Decisions(i)' \cap Lines = Decisions(i)
      /\ \A d : Effects(d)' \cap Lines = Effects(d)
      /\ \A e : Results(e)' \cap Lines = Results(e)
      /\ \A i : ResultsFor(i)' \cap Lines = ResultsFor(i)
  BY <1>1, OldLines
<1>4. /\ \A i : Decisions(i)' \subseteq Lines' /\ ResultsFor(i)' \subseteq Lines'
      /\ \A d : Effects(d)' \subseteq Lines' /\ Results(d)' \subseteq Lines'
  BY DEF Decisions, Effects, Results, ResultsFor
<1>5. \A n \in Lines' : n \notin Lines => n > k.since /\ n > k.read
  BY <1>1, <1>2
<1>6. \A e \in Lines : log'[e] = log[e]
  BY DEF Grown
<1> HIDE DEF k
<1>7. k.since <= Len(log') /\ k.read <= Len(log')
  BY <1>1, <1>2
<1>8. k.step \in {"begin", "append", "execute", "result"} =>
        k.decision \in Decisions(k.intent)'
  BY <1>3 DEF TaskOK, k
<1>9. k.step \in {"execute", "result"} => k.effect \in Effects(k.decision)'
  BY <1>3 DEF TaskOK, k
<1>10. ASSUME k.step = "append", NEW e \in Effects(k.decision)', log'[e].key = k.key
       PROVE  e > k.read
  BY <1>3, <1>4, <1>5, <1>6, <1>10 DEF TaskOK, k
<1>11. ASSUME k.step = "result", NEW n \in Results(k.effect)'
       PROVE  n > k.read
  BY <1>3, <1>4, <1>5, <1>11 DEF TaskOK, k
<1>12. ASSUME p \in Worker, k.step \in {"resolve", "check", "record", "begin", "append"},
              NEW n \in ResultsFor(k.intent)'
       PROVE  n > k.since
  BY <1>3, <1>4, <1>5, <1>12 DEF TaskOK, k
<1>13. ASSUME p \in Worker, k.step \in {"begin", "append"},
              NEW d \in Decisions(k.intent)', d > k.decision
       PROVE  d > k.since
  BY <1>3, <1>4, <1>5, <1>13 DEF TaskOK, k
<1> QED
  BY <1>7, <1>8, <1>9, <1>10, <1>11, <1>12, <1>13 DEF TaskOK, k

(* Taking up a decision that is the last one, or none.                     *)
LEMMA TaskUnder ==
  ASSUME TypeOK, TypeOK', LogOK, LogOK', Grown, NEW p \in Process, TaskOK(p),
         task[p] # NoTask, task[p].step \in {"resolve", "check", "record"},
         NEW i, i = task[p].intent,
         NEW d \in Decisions(i)', \A n \in Decisions(i)' : n <= d,
         task'[p] # NoTask =>
              /\ SameWork(p) /\ task'[p].step = "begin"
              /\ task'[p].decision = d /\ task'[p].since = task[p].since
              /\ task'[p].read = task[p].read
  PROVE  TaskOK(p)'
<1> SUFFICES ASSUME task'[p] # NoTask
             PROVE  TaskOK(p)'
  BY DEF TaskOK
<1>1. /\ log \in Seq(Record) /\ log' \in Seq(Record)
      /\ Len(log) \in Nat /\ Len(log') \in Nat /\ Len(log) <= Len(log')
      /\ \A n \in Lines' : n \notin Lines => n > Len(log)
      /\ Lines' \subseteq Nat
  BY DEF TypeOK, Grown, Lines
<1>2. PICK since, read : since = task[p].since /\ read = task[p].read
  OBVIOUS
<1>3. /\ since \in Nat /\ read \in Nat
      /\ since <= Len(log) /\ read <= Len(log)
  BY <1>2, TaskFacts DEF TypeOK, TaskOK
<1>4. ResultsFor(i)' \cap Lines = ResultsFor(i)
  BY <1>1, OldLines
<1>5. Decisions(i)' \subseteq Lines' /\ ResultsFor(i)' \subseteq Lines'
  BY DEF Decisions, Results, ResultsFor
<1>6. p \in Worker => \A n \in ResultsFor(i) : n > since
  BY <1>2 DEF TaskOK
<1>7. ASSUME p \in Worker, NEW n \in ResultsFor(i)'
      PROVE  n > since
  <2>1. CASE n \in Lines
    BY <1>4, <1>6, <1>7, <2>1
  <2>2. CASE n \notin Lines
    <3>1. n \in Nat /\ n > Len(log)
      BY <1>1, <1>5, <1>7, <2>2
    <3> QED
      BY <1>1, <1>3, <3>1
  <2> QED
    BY <2>1, <2>2
<1>8. ASSUME NEW n \in Decisions(i)'
      PROVE  ~(n > d)
  <2>1. n \in Nat /\ d \in Nat /\ n <= d
    BY <1>1, <1>5, <1>8
  <2> QED
    BY <2>1
<1>9. /\ task'[p].intent = i /\ task'[p].step = "begin"
      /\ task'[p].decision = d /\ task'[p].since = since
      /\ task'[p].read = read
  BY <1>2 DEF SameWork
<1>10. since <= Len(log') /\ read <= Len(log')
  BY <1>1, <1>3
<1> QED
  BY <1>7, <1>8, <1>9, <1>10 DEF TaskOK

(* Every step keeps what each process knows of the ledger true.            *)
LEMMA TaskCorrect ==
  ASSUME TypeOK, QueueOK, LogOK, \A p \in Process : TaskOK(p), [Next]_vars
  PROVE  \A p \in Process : TaskOK(p)'
<1>1. TypeOK' /\ LogOK' /\ Grown
  BY TypeCorrect, LogCorrect
<1>2. /\ log \in Seq(Record) /\ Len(log) \in Nat /\ task \in Tasks
      /\ log' \in Seq(Record) /\ Len(log') \in Nat
  BY <1>1 DEF TypeOK, Tasks
<1>3. ASSUME NEW p \in Process, Others(p), TaskOK(p)'
      PROVE  \A q \in Process : TaskOK(q)'
  BY <1>1, <1>3, TaskKept DEF Others
<1>4. ASSUME task' = task
      PROVE  \A q \in Process : TaskOK(q)'
  BY <1>1, <1>4, TaskKept
<1>5. ASSUME NEW p \in Process, task'[p] = NoTask
      PROVE  TaskOK(p)'
  BY <1>5 DEF TaskOK
<1>6. ASSUME NEW w \in Worker,
             StartPoll(w) \/ FinishPoll(w) \/ SaveCursor(w)
      PROVE  task' = task
  BY <1>6 DEF StartPoll, FinishPoll, SaveCursor
<1>7. ASSUME NEW w \in Worker, Examine(w)
      PROVE  Others(w) /\ TaskOK(w)'
  <2>1. /\ Others(w)
        /\ AlreadyExecuted(Head(poll[w].todo)) => task'[w] = NoTask
        /\ ~AlreadyExecuted(Head(poll[w].todo)) =>
              /\ task'[w] # NoTask /\ task'[w].step = "resolve"
              /\ task'[w].intent = Head(poll[w].todo)
              /\ task'[w].since = Len(log) /\ task'[w].read = 0
    BY <1>7, ExamineDoes
  <2>2. CASE AlreadyExecuted(Head(poll[w].todo))
    BY <2>1, <2>2 DEF TaskOK
  <2>3. CASE ~AlreadyExecuted(Head(poll[w].todo))
    <3>1. PICK i : i = Head(poll[w].todo)
      OBVIOUS
    <3>2. log' = log /\ ResultsFor(i) = {}
      BY <1>7, <2>3, <3>1 DEF Examine, AlreadyExecuted
    <3>3. ResultsFor(i)' = {}
      BY <3>2 DEF ResultsFor, Results, Effects, Decisions, Lines
    <3>4. /\ task'[w].step = "resolve" /\ task'[w].intent = i
          /\ task'[w].since = Len(log) /\ task'[w].read = 0
      BY <2>1, <2>3, <3>1
    <3> QED
      BY <1>2, <2>1, <3>2, <3>3, <3>4 DEF TaskOK
  <2> QED
    BY <2>1, <2>2, <2>3
<1>8. ASSUME NEW p \in Process, NEW i, i = task[p].intent, Decisions(i) # {},
             task[p] # NoTask, task[p].step \in {"resolve", "check"}, log' = log,
             Under(p, Latest(i), log[Latest(i)].outcome)
      PROVE  Others(p) /\ TaskOK(p)'
  <2>1. Latest(i) \in Decisions(i) /\ \A n \in Decisions(i) : n <= Latest(i)
    BY <1>2, <1>8, LatestIsLast
  <2>2. Decisions(i)' = Decisions(i)
    BY <1>8 DEF Decisions, Lines
  <2>3. Latest(i) \in Nat
    BY <1>2, <2>1 DEF Decisions, Lines
  <2>4. PICK d : d = Latest(i)
    OBVIOUS
  <2>5. /\ Others(p)
        /\ task'[p] # NoTask =>
              /\ SameWork(p) /\ task'[p].step = "begin"
              /\ task'[p].decision = d /\ task'[p].since = task[p].since
              /\ task'[p].read = task[p].read
    BY <1>2, <1>8, <2>3, <2>4, UnderDoes
  <2>6. d \in Decisions(i)' /\ \A n \in Decisions(i)' : n <= d
    BY <2>1, <2>2, <2>4
  <2>7. TaskOK(p)'
    BY <1>1, <1>8, <2>5, <2>6, TaskUnder
  <2> QED
    BY <2>5, <2>7
<1>9. ASSUME NEW p \in Process, NEW step \in {"check", "record"},
             task[p] # NoTask, task[p].step \in {"resolve", "check"},
             log' = log, GoTo(p, step)
      PROVE  Others(p) /\ TaskOK(p)'
  <2>1. PICK i : i = task[p].intent
    OBVIOUS
  <2>2. step \in Step
    BY DEF Step
  <2>3. /\ Others(p)
        /\ task'[p].intent = i /\ task'[p].step = step
        /\ task'[p].since = task[p].since /\ task'[p].read = task[p].read
    BY <1>2, <1>9, <2>1, <2>2, GoToDoes DEF SameWork
  <2>4. ResultsFor(i)' = ResultsFor(i)
    BY <1>9 DEF ResultsFor, Results, Effects, Decisions, Lines
  <2>5. /\ task[p].since <= Len(log') /\ task[p].read <= Len(log')
        /\ p \in Worker => \A n \in ResultsFor(i) : n > task[p].since
    BY <1>9, <2>1 DEF TaskOK
  <2> QED
    BY <2>3, <2>4, <2>5 DEF TaskOK
<1>10. ASSUME NEW w \in Worker, Resolve(w)
       PROVE  Others(w) /\ TaskOK(w)'
  <2>1. w \in Process /\ task[w] # NoTask /\ task[w].step = "resolve" /\ log' = log
    BY <1>10 DEF Resolve, At, Process
  <2>2. CASE Decisions(task[w].intent) # {}
    BY <1>8, <1>10, <2>1, <2>2 DEF Resolve
  <2>3. CASE Decisions(task[w].intent) = {}
    BY <1>9, <1>10, <2>1, <2>3 DEF Resolve
  <2> QED
    BY <2>2, <2>3
<1>11. ASSUME NEW p \in Process, CheckRead(p)
       PROVE  Others(p) /\ TaskOK(p)'
  <2>1. task[p] # NoTask /\ task[p].step = "check" /\ log' = log
    BY <1>11 DEF CheckRead, At
  <2>2. CASE Decisions(task[p].intent) # {}
    BY <1>8, <1>11, <2>1, <2>2 DEF CheckRead, Decided
  <2>3. CASE Decisions(task[p].intent) = {}
    BY <1>9, <1>11, <2>1, <2>3 DEF CheckRead, Decided
  <2> QED
    BY <2>2, <2>3
<1>12. ASSUME NEW p \in Process, CheckRecord(p)
       PROVE  Others(p) /\ TaskOK(p)'
  <2>1. task[p] # NoTask /\ task[p].step = "record" /\ task[p].intent \in Intent
    BY <1>12, TaskFacts DEF CheckRecord, At, TypeOK
  <2>2. PICK i : i = task[p].intent
    OBVIOUS
  <2>3. PICK d : d = Len(log) + 1
    OBVIOUS
  <2>4. PICK outcome \in Policy :
          /\ Append1([type |-> "DecisionRecorded", intent |-> i,
                      by |-> "policy", outcome |-> outcome])
          /\ Under(p, d, outcome)
    BY <1>12, <2>2, <2>3 DEF CheckRecord
  <2>5. /\ Lines' = Lines \cup {d} /\ d \in Nat
        /\ log'[d].type = "DecisionRecorded" /\ log'[d].intent = i
    BY <1>2, <2>1, <2>2, <2>3, <2>4, Appending DEF Record
  <2>6. /\ Others(p)
        /\ task'[p] # NoTask =>
              /\ SameWork(p) /\ task'[p].step = "begin"
              /\ task'[p].decision = d /\ task'[p].since = task[p].since
              /\ task'[p].read = task[p].read
    BY <1>2, <2>1, <2>4, <2>5, UnderDoes
  <2>7. d \in Decisions(i)' /\ \A n \in Decisions(i)' : n <= d
    BY <1>2, <2>3, <2>5 DEF Decisions, Lines
  <2>8. TaskOK(p)'
    BY <1>1, <2>1, <2>2, <2>6, <2>7, TaskUnder
  <2> QED
    BY <2>6, <2>8
<1>13. ASSUME NEW p \in Process, BeginRead(p)
       PROVE  Others(p) /\ TaskOK(p)'
  <2>1. /\ Others(p) /\ task[p] # NoTask /\ task[p].step = "begin" /\ log' = log
        /\ task'[p] # NoTask =>
              /\ ~Claimed(task[p].decision, task[p].key)
              /\ SameWork(p) /\ task'[p].step = "append"
              /\ task'[p].decision = task[p].decision
              /\ task'[p].since = task[p].since
              /\ task'[p].read = Len(log)
    BY <1>2, <1>13, BeginReadDoes DEF BeginRead, At
  <2>2. PICK i, d, key, since : /\ i = task[p].intent /\ d = task[p].decision
                                /\ key = task[p].key /\ since = task[p].since
    OBVIOUS
  <2>3. /\ Decisions(i)' = Decisions(i) /\ Effects(d)' = Effects(d)
        /\ ResultsFor(i)' = ResultsFor(i)
    BY <2>1 DEF ResultsFor, Results, Effects, Decisions, Lines
  <2>4. /\ since <= Len(log) /\ d \in Decisions(i)
        /\ p \in Worker => /\ \A n \in ResultsFor(i) : n > since
                           /\ \A n \in Decisions(i) : n > d => n > since
    BY <2>1, <2>2 DEF TaskOK
  <2>5. CASE task'[p] = NoTask
    BY <2>1, <2>5 DEF TaskOK
  <2>6. CASE task'[p] # NoTask
    <3>1. /\ task'[p].intent = i /\ task'[p].step = "append"
          /\ task'[p].decision = d /\ task'[p].since = since
          /\ task'[p].read = Len(log) /\ task'[p].key = key
      BY <2>1, <2>2, <2>6 DEF SameWork
    <3>2. \A e \in Effects(d) : log[e].key # key
      BY <2>1, <2>2, <2>6 DEF Claimed
    <3> QED
      BY <1>2, <2>1, <2>3, <2>4, <3>1, <3>2 DEF TaskOK
  <2> QED
    BY <2>1, <2>5, <2>6
<1>14. ASSUME NEW p \in Process, BeginAppend(p)
       PROVE  Others(p) /\ TaskOK(p)'
  <2>1. /\ Others(p) /\ task[p] # NoTask /\ task[p].step = "append"
        /\ task'[p] # NoTask /\ SameWork(p) /\ task'[p].step = "execute"
        /\ task'[p].decision = task[p].decision
        /\ task'[p].effect = Len(log) + 1
        /\ task'[p].since = 0 /\ task'[p].read = 0
    BY <1>2, <1>14, BeginAppendDoes DEF BeginAppend, At
  <2>2. PICK i, d, e : /\ i = task[p].intent /\ d = task[p].decision
                       /\ e = Len(log) + 1
    OBVIOUS
  <2>3. d \in Decisions(i)
    BY <2>1, <2>2 DEF TaskOK
  <2>4. d \in Decisions(i)'
    BY <1>1, <1>2, <2>3, OldLines
  <2>5. e \in Effects(d)'
    <3>1. d \in Nat /\ task[p].key \in Key /\ task[p].since \in Nat /\ task[p].read \in Nat
      BY <2>1, <2>2, TaskFacts DEF TypeOK
    <3> DEFINE r == [type |-> "ExecutionBegun", decision |-> d,
                key |-> task[p].key, by |-> p, since |-> task[p].since, read |-> task[p].read]
    <3>2. r \in Record /\ r.type = "ExecutionBegun" /\ r.decision = d
      BY <3>1 DEF Record
    <3>3. Append1(r)
      BY <1>14, <2>2 DEF BeginAppend
    <3> HIDE DEF r
    <3>4. e \in Lines' /\ log'[e] = r
      BY <1>2, <2>2, <3>2, <3>3, Appending
    <3> QED
      BY <3>2, <3>4 DEF Effects
  <2>6. /\ task'[p].intent = i /\ task'[p].decision = d /\ task'[p].effect = e
        /\ task'[p].since <= Len(log') /\ task'[p].read <= Len(log')
    BY <1>2, <2>1, <2>2 DEF SameWork
  <2> QED
    BY <2>1, <2>4, <2>5, <2>6 DEF TaskOK
<1>15. ASSUME NEW p \in Process, CommitRead(p)
       PROVE  Others(p) /\ TaskOK(p)'
  <2>1. /\ Others(p) /\ task[p] # NoTask /\ task[p].step = "execute" /\ log' = log
        /\ task'[p] # NoTask =>
              /\ Results(task[p].effect) = {}
              /\ SameWork(p) /\ task'[p].step = "result"
              /\ task'[p].decision = task[p].decision
              /\ task'[p].effect = task[p].effect
              /\ task'[p].since = task[p].since
              /\ task'[p].read = Len(log)
    BY <1>2, <1>15, CommitReadDoes DEF CommitRead, At
  <2>2. PICK i, d, e : /\ i = task[p].intent /\ d = task[p].decision
                       /\ e = task[p].effect
    OBVIOUS
  <2>3. /\ Decisions(i)' = Decisions(i) /\ Effects(d)' = Effects(d)
        /\ Results(e)' = Results(e)
    BY <2>1 DEF Results, Effects, Decisions, Lines
  <2>4. task[p].since <= Len(log) /\ d \in Decisions(i) /\ e \in Effects(d)
    BY <2>1, <2>2 DEF TaskOK
  <2>5. CASE task'[p] = NoTask
    BY <2>1, <2>5 DEF TaskOK
  <2>6. CASE task'[p] # NoTask
    <3>1. /\ task'[p].intent = i /\ task'[p].step = "result"
          /\ task'[p].decision = d /\ task'[p].since = task[p].since
          /\ task'[p].read = Len(log) /\ task'[p].effect = e
      BY <2>1, <2>2, <2>6 DEF SameWork
    <3>2. Results(e) = {}
      BY <2>1, <2>2, <2>6
    <3> QED
      BY <1>2, <2>1, <2>3, <2>4, <3>1, <3>2 DEF TaskOK
  <2> QED
    BY <2>1, <2>5, <2>6
<1>16. ASSUME NEW p \in Process, CommitAppend(p) \/ CheckFails(p) \/ Crash(p)
       PROVE  Others(p) /\ TaskOK(p)'
  <2>1. Others(p) /\ task'[p] = NoTask
    BY <1>2, <1>16, CrashDoes DEF CommitAppend, CheckFails, Others, Tasks
  <2> QED
    BY <1>5, <2>1
<1>17. ASSUME NEW i \in Intent,
              SubmitIntent(i) \/ \E outcome \in Overriding : Override(i, outcome)
       PROVE  task' = task
  BY <1>17 DEF SubmitIntent, Override
<1>18. ASSUME NEW c \in Client, NEW i \in Intent, RunTask(c, i)
       PROVE  c \in Process /\ Others(c) /\ TaskOK(c)'
  <2>1. "check" \in Step /\ c \in Key /\ Len(log) + 1 \in Nat
    BY <1>2 DEF Step, Key
  <2>2. /\ Others(c) /\ task'[c].step = "check" /\ task'[c].since = Len(log) + 1
        /\ task'[c].read = 0
    BY <1>18, <2>1, CommandDoes DEF RunTask
  <2>3. Len(log') = Len(log) + 1
    BY <1>2, <1>18 DEF RunTask, Append1
  <2>4. c \notin Worker /\ c \in Process
    BY ConstantsAssumption DEF Process
  <2> QED
    BY <1>2, <2>2, <2>3, <2>4 DEF TaskOK
<1>19. ASSUME NEW c \in Client, NEW d \in Lines, NEW key \in Key,
              ClientBegin(c, d, key)
       PROVE  c \in Process /\ Others(c) /\ TaskOK(c)'
  <2>1. "begin" \in Step /\ d \in Nat /\ log[d].intent \in Intent
    BY <1>2, <1>19, RecordFacts DEF Step, ClientBegin
  <2>2. PICK i : i = log[d].intent
    OBVIOUS
  <2>3. /\ Others(c) /\ task'[c].step = "begin" /\ task'[c].since = Len(log)
        /\ task'[c].read = 0 /\ task'[c].decision = d /\ task'[c].intent = i
    BY <1>2, <1>19, <2>1, <2>2, CommandDoes DEF ClientBegin
  <2>4. d \in Decisions(i)' /\ log' = log
    BY <1>19, <2>2 DEF ClientBegin, Decisions, Lines
  <2>5. c \notin Worker /\ c \in Process
    BY ConstantsAssumption DEF Process
  <2> QED
    BY <1>2, <2>3, <2>4, <2>5 DEF TaskOK
<1>20. ASSUME NEW c \in Client, NEW e \in Lines, ClientCommit(c, e)
       PROVE  c \in Process /\ Others(c) /\ TaskOK(c)'
  <2>1. PICK d : d = log[e].decision
    OBVIOUS
  <2>2. PICK i : i = log[d].intent
    OBVIOUS
  <2>3. /\ "execute" \in Step /\ e \in Nat /\ log[e].key \in Key
        /\ d \in Lines /\ d \in Nat
        /\ log[d].type = "DecisionRecorded" /\ log[e].type = "ExecutionBegun"
        /\ log' = log
    BY <1>2, <1>20, <2>1, RecordFacts DEF Step, ClientCommit, LogOK
  <2>4. i \in Intent
    BY <1>2, <2>2, <2>3, RecordFacts
  <2>5. /\ Others(c) /\ task'[c].step = "execute" /\ task'[c].since = 0
        /\ task'[c].read = 0 /\ task'[c].decision = d /\ task'[c].intent = i
        /\ task'[c].effect = e
    BY <1>20, <2>1, <2>2, <2>3, <2>4, CommandDoes DEF ClientCommit
  <2>6. d \in Decisions(i)' /\ e \in Effects(d)'
    BY <2>1, <2>2, <2>3 DEF Decisions, Effects, Lines
  <2>7. c \notin Worker /\ c \in Process
    BY ConstantsAssumption DEF Process
  <2> QED
    BY <1>2, <2>3, <2>5, <2>6, <2>7 DEF TaskOK
<1>21. CASE UNCHANGED vars
  BY <1>4, <1>21 DEF vars
<1>22. \A w \in Worker : w \in Process
  BY DEF Process
<1> QED
  BY <1>3, <1>4, <1>6, <1>7, <1>10, <1>11, <1>12, <1>13, <1>14, <1>15, <1>16,
     <1>17, <1>18, <1>19, <1>20, <1>21, <1>22 DEF Next, PollStep, TaskStep

-----------------------------------------------------------------------------
(* The decision lock: who is about to record found no decision, and nobody *)
(* else can record one of the policy meanwhile.                            *)

(* Who is at record after a step was there before, or has just looked.     *)
LEMMA AtRecord ==
  ASSUME TypeOK, [Next]_vars, NEW p \in Process, At(p, "record")'
  PROVE  \/ task'[p] = task[p]
         \/ /\ CheckRead(p) /\ Decisions(task[p].intent) = {}
            /\ task'[p].intent = task[p].intent
<1>1. log \in Seq(Record) /\ Len(log) \in Nat /\ task \in Tasks
  BY DEF TypeOK, Tasks
<1>2. task'[p] # NoTask /\ task'[p].step = "record"
  BY DEF At
<1>3. ASSUME NEW w \in Worker, Examine(w)
      PROVE  task'[p] = task[p]
  BY <1>2, <1>3, ExamineDoes DEF Others
<1>4. ASSUME NEW q \in Process, NEW i, NEW outcome, task[q] # NoTask,
             Decisions(i) # {}, Under(q, Latest(i), outcome)
      PROVE  task'[p] = task[p]
  <2>1. Latest(i) \in Nat
    BY <1>1, <1>4, LatestIsLast DEF Decisions, Lines
  <2> QED
    BY <1>1, <1>2, <1>4, <2>1, UnderDoes DEF Others
<1>5. ASSUME NEW w \in Worker, Resolve(w)
      PROVE  task'[p] = task[p]
  <2>1. w \in Process /\ task[w] # NoTask /\ "check" \in Step
    BY <1>5 DEF Resolve, At, Process, Step
  <2>2. CASE Decisions(task[w].intent) # {}
    BY <1>4, <1>5, <2>1, <2>2 DEF Resolve
  <2>3. CASE Decisions(task[w].intent) = {}
    BY <1>1, <1>2, <1>5, <2>1, <2>3, GoToDoes DEF Resolve, Others
  <2> QED
    BY <2>2, <2>3
<1>6. ASSUME NEW q \in Process, CheckRead(q)
      PROVE  \/ task'[p] = task[p]
             \/ /\ CheckRead(p) /\ Decisions(task[p].intent) = {}
                /\ task'[p].intent = task[p].intent
  <2>1. task[q] # NoTask /\ "record" \in Step
    BY <1>6 DEF CheckRead, At, Step
  <2>2. CASE Decisions(task[q].intent) # {}
    BY <1>4, <1>6, <2>1, <2>2 DEF CheckRead, Decided
  <2>3. CASE Decisions(task[q].intent) = {}
    BY <1>1, <1>6, <2>1, <2>3, GoToDoes DEF CheckRead, Decided, Others, SameWork
  <2> QED
    BY <2>2, <2>3
<1>7. ASSUME NEW q \in Process, CheckRecord(q)
      PROVE  task'[p] = task[p]
  <2>1. task[q] # NoTask /\ Len(log) + 1 \in Nat
    BY <1>1, <1>7 DEF CheckRecord, At
  <2>2. PICK outcome \in Policy : Under(q, Len(log) + 1, outcome)
    BY <1>7 DEF CheckRecord
  <2> QED
    BY <1>1, <1>2, <2>1, <2>2, UnderDoes DEF Others
<1>8. ASSUME NEW q \in Process, BeginRead(q) \/ BeginAppend(q) \/ CommitRead(q)
      PROVE  task'[p] = task[p]
  BY <1>1, <1>2, <1>8, BeginReadDoes, BeginAppendDoes, CommitReadDoes DEF Others
<1>9. ASSUME NEW q \in Process, CommitAppend(q) \/ CheckFails(q) \/ Crash(q)
      PROVE  task'[p] = task[p]
  BY <1>1, <1>2, <1>9, CrashDoes DEF CommitAppend, CheckFails, Others, Tasks
<1>10. ASSUME NEW c \in Client, NEW i \in Intent, RunTask(c, i)
       PROVE  task'[p] = task[p]
  <2>1. "check" \in Step /\ c \in Key /\ Len(log) + 1 \in Nat
    BY <1>1 DEF Step, Key
  <2>2. task'[c].step = "check" /\ Others(c)
    BY <1>10, <2>1, CommandDoes DEF RunTask
  <2> QED
    BY <1>2, <2>2 DEF Others
<1>11. ASSUME NEW c \in Client, NEW d \in Lines, NEW step \in {"begin", "execute"},
              NEW i, NEW n, NEW key, NEW e, NEW since,
              Command(c, step, i, n, key, e, since)
       PROVE  task'[p] = task[p]
  BY <1>1, <1>2, <1>11 DEF Command, Tasks
<1>12. ASSUME NEW c \in Client, NEW d \in Lines, NEW key \in Key,
              ClientBegin(c, d, key)
       PROVE  task'[p] = task[p]
  BY <1>11, <1>12 DEF ClientBegin
<1>13. ASSUME NEW c \in Client, NEW e \in Lines, ClientCommit(c, e)
       PROVE  task'[p] = task[p]
  BY <1>11, <1>13 DEF ClientCommit
<1>14. ASSUME NEW w \in Worker, StartPoll(w) \/ FinishPoll(w) \/ SaveCursor(w)
       PROVE  task'[p] = task[p]
  BY <1>14 DEF StartPoll, FinishPoll, SaveCursor
<1>15. ASSUME NEW i \in Intent,
              SubmitIntent(i) \/ \E outcome \in Overriding : Override(i, outcome)
       PROVE  task'[p] = task[p]
  BY <1>15 DEF SubmitIntent, Override
<1>16. CASE UNCHANGED vars
  BY <1>16 DEF vars
<1> QED
  BY <1>3, <1>5, <1>6, <1>7, <1>8, <1>9, <1>10, <1>12, <1>13, <1>14, <1>15,
     <1>16 DEF Next, PollStep, TaskStep

(* The lock changes hands only when its holder records, gives up or dies.  *)
LEMMA DeciderKept ==
  ASSUME TypeOK, [Next]_vars
  PROVE  \/ decider' = decider
         \/ \E p \in Process : CheckRecord(p) \/ CheckFails(p)
         \/ \E p \in Process : CheckRead(p) /\ decider = NoProcess /\ decider' = p
         \/ \E p \in Process : Crash(p) /\ decider = p
BY DEF Next, PollStep, TaskStep, StartPoll, Examine, Resolve, FinishPoll, SaveCursor,
  CheckRead, BeginRead, BeginAppend, CommitRead, CommitAppend, Crash,
  SubmitIntent, Override, RunTask, ClientBegin, ClientCommit, vars

(* Every step keeps what the checks of decisions recorded true.            *)
LEMMA CheckCorrect ==
  ASSUME ExecInv, [Next]_vars
  PROVE  CheckOK'
<1>1. /\ TypeOK /\ LogOK /\ LogOK' /\ Grown /\ TypeOK'
      /\ log \in Seq(Record) /\ log' \in Seq(Record) /\ task \in Tasks
  BY TypeCorrect, LogCorrect DEF ExecInv, TypeOK, Tasks
<1> SUFFICES ASSUME NEW p \in Process, At(p, "record")'
             PROVE  /\ decider' = p
                    /\ \A n \in Decisions(task[p].intent)' : log'[n].by # "policy"
  BY DEF CheckOK
<1>2. PICK i : i = task'[p].intent
  OBVIOUS
<1>3. CASE task'[p] = task[p]
  <2>1. /\ At(p, "record") /\ decider = p
        /\ \A n \in Decisions(i) : log[n].by # "policy"
    BY <1>2, <1>3 DEF At, ExecInv, CheckOK
  <2>2. ASSUME NEW q \in Process, CheckRecord(q) \/ CheckFails(q) \/ Crash(q), q = p
        PROVE  FALSE
    <3>1. task'[p] = NoTask \/ task'[p].step = "begin"
      <4>1. CASE CheckRecord(p)
        <5>1. PICK outcome \in Policy : Under(p, Len(log) + 1, outcome)
          BY <4>1 DEF CheckRecord
        <5>2. task[p] # NoTask /\ Len(log) + 1 \in Nat
          BY <1>1, <2>1 DEF At
        <5> QED
          BY <1>1, <5>1, <5>2, UnderDoes
      <4>2. CASE CheckFails(p) \/ Crash(p)
        BY <1>1, <4>2 DEF CheckFails, Crash, Tasks
      <4> QED
        BY <2>2, <4>1, <4>2
    <3> QED
      BY <3>1 DEF At
  <2>3. ASSUME NEW q \in Process, CheckRecord(q) \/ CheckFails(q)
        PROVE  FALSE
    <3>1. decider = q
      BY <2>3 DEF CheckRecord, CheckFails, ExecInv, CheckOK
    <3> QED
      BY <2>1, <2>2, <2>3, <3>1
  <2>4. decider' = p
    <3>1. NoProcess # p
      BY ConstantsAssumption
    <3> QED
      BY <2>1, <2>2, <2>3, <3>1, <1>1, DeciderKept
  <2>5. ASSUME NEW n \in Decisions(i)'
        PROVE  log'[n].by # "policy"
    <3>1. CASE n \in Lines
      BY <1>1, <2>1, <2>5, <3>1, OldLines DEF Grown
    <3>2. CASE n \notin Lines
      <4>1. log' # log
        BY <2>5, <3>2 DEF Decisions, Lines
      <4>2. PICK r \in Record : Append1(r) /\ LineOf(r)
        BY <1>1, <4>1, Lines1 DEF ExecInv
      <4>3. log'[n] = r /\ r.type = "DecisionRecorded"
        BY <1>1, <2>5, <3>2, <4>2, Appending DEF Decisions
      <4>4. r.by = "override"
        BY <2>3, <4>2, <4>3 DEF LineOf
      <4> QED
        BY <4>3, <4>4
    <3> QED
      BY <3>1, <3>2
  <2> QED
    BY <1>2, <2>4, <2>5
<1>4. CASE /\ CheckRead(p) /\ Decisions(task[p].intent) = {}
           /\ task'[p].intent = task[p].intent
  <2>1. log' = log /\ decider' = p
    BY <1>4 DEF CheckRead, Decided
  <2>2. Decisions(i)' = {}
    BY <1>2, <1>4, <2>1 DEF Decisions, Lines
  <2> QED
    BY <1>2, <2>1, <2>2
<1> QED
  BY <1>1, <1>3, <1>4, AtRecord

-----------------------------------------------------------------------------
(* The inductive invariant holds at the start.                             *)
LEMMA InitExecInv ==
  Init => ExecInv
<1> SUFFICES ASSUME Init
             PROVE  ExecInv
  OBVIOUS
<1>1. /\ log = <<>> /\ Lines = {} /\ log \in Seq(Record)
      /\ \A p \in Process : task[p] = NoTask
  BY DEF Init, Lines
<1>2. TypeOK
  BY <1>1, ConstantsAssumption DEF Init, TypeOK, Poll
<1>3. Cardinality(Submitted) = 0
  BY <1>1, FS_EmptySet DEF Submitted
<1> QED
  BY <1>1, <1>2, <1>3 DEF ExecInv, QueueOK, LogOK, TaskOK, CheckOK, At

(* Every step keeps the inductive invariant.                               *)
LEMMA NextExecInv ==
  ExecInv /\ [Next]_vars => ExecInv'
BY TypeCorrect, LogCorrect, TaskCorrect, CheckCorrect DEF ExecInv

(* Whatever is appended and whoever dies, the inductive invariant holds.   *)
THEOREM ExecutionInvariant ==
  Spec => []ExecInv
BY InitExecInv, NextExecInv, PTL DEF Spec

(* Every variable keeps its type.                                          *)
THEOREM TypesCorrect ==
  Spec => []TypeOK
<1>1. ExecInv => TypeOK
  BY DEF ExecInv
<1> QED
  BY <1>1, ExecutionInvariant, PTL

-----------------------------------------------------------------------------
(* What the conclusions below share: the log grows by at most one line,    *)
(* which LineOf names.                                                     *)
LEMMA StepFacts ==
  ASSUME ExecInv, [Next]_vars
  PROVE  /\ ExecInv' /\ Grown
         /\ log \in Seq(Record) /\ log' \in Seq(Record)
         /\ LogOK /\ LogOK' /\ Len(log) \in Nat
         /\ \/ log' = log /\ Lines' = Lines
            \/ \E r \in Record :
                 /\ Append1(r) /\ LineOf(r) /\ log'[Len(log) + 1] = r
                 /\ Lines' = Lines \cup {Len(log) + 1}
<1>1. ExecInv' /\ TypeOK /\ TypeOK' /\ LogOK /\ LogOK'
  BY NextExecInv DEF ExecInv
<1>2. log \in Seq(Record) /\ log' \in Seq(Record) /\ Len(log) \in Nat
  BY <1>1 DEF TypeOK
<1>3. Grown
  BY LogCorrect DEF ExecInv
<1>4. CASE log' = log
  BY <1>1, <1>2, <1>3, <1>4 DEF Lines
<1>5. ASSUME NEW r \in Record, Append1(r), LineOf(r)
      PROVE  /\ log'[Len(log) + 1] = r
             /\ Lines' = Lines \cup {Len(log) + 1}
  BY <1>2, <1>5, Appending
<1> QED
  BY <1>1, <1>2, <1>3, <1>4, <1>5, Lines1 DEF ExecInv

(* check decides an intent once: a second policy decision would be         *)
(* recorded by a holder of the lock, who has found none.                   *)
LEMMA NextOneCheckDecision ==
  ExecInv /\ OneCheckDecision /\ [Next]_vars => OneCheckDecision'
<1> SUFFICES ASSUME ExecInv, OneCheckDecision, [Next]_vars
             PROVE  OneCheckDecision'
  OBVIOUS
<1> SUFFICES ASSUME NEW i \in Intent, NEW m \in Decisions(i)',
                    NEW n \in Decisions(i)', m # n,
                    log'[m].by = "policy", log'[n].by = "policy"
             PROVE  FALSE
  BY DEF OneCheckDecision
<1>1. /\ Grown /\ log \in Seq(Record) /\ log' \in Seq(Record) /\ LogOK /\ LogOK'
      /\ Len(log) \in Nat
  BY StepFacts
<1>2. \A k \in Decisions(i)' : k \in Lines => k \in Decisions(i) /\ log'[k] = log[k]
  BY <1>1, OldLines DEF Grown
<1>3. m \notin Lines \/ n \notin Lines
  BY <1>2 DEF OneCheckDecision
<1>4. m \in Lines' /\ n \in Lines'
  BY DEF Decisions
<1>5. PICK r \in Record : /\ LineOf(r) /\ log'[Len(log) + 1] = r
                          /\ Lines' = Lines \cup {Len(log) + 1}
  BY <1>3, <1>4, StepFacts
<1>6. \E k \in Decisions(i) : log[k].by = "policy"
  BY <1>2, <1>3, <1>4, <1>5
<1>7. r.type = "DecisionRecorded" /\ r.intent = i /\ r.by = "policy"
  BY <1>3, <1>4, <1>5 DEF Decisions
<1>8. PICK p \in Process : CheckRecord(p) /\ task[p].intent = i
  BY <1>5, <1>7 DEF LineOf
<1> QED
  BY <1>6, <1>8 DEF CheckRecord, ExecInv, CheckOK

(* An intent is decided by the policy at most once, however many processes *)
(* check it at a time.                                                     *)
THEOREM OneDecision ==
  Spec => []OneCheckDecision
<1>1. Init => OneCheckDecision
  BY DEF Init, OneCheckDecision, Decisions, Lines
<1> QED
  BY <1>1, NextOneCheckDecision, ExecutionInvariant, PTL DEF Spec

(* A second execution of a decision, or a second result of an effect, was  *)
(* prepared before the first one was written.                              *)
LEMMA NextDuplicatesOverlap ==
  ExecInv /\ DuplicatesOverlap /\ [Next]_vars => DuplicatesOverlap'
<1> SUFFICES ASSUME ExecInv, DuplicatesOverlap, [Next]_vars
             PROVE  DuplicatesOverlap'
  OBVIOUS
<1>1. /\ Grown /\ log \in Seq(Record) /\ log' \in Seq(Record) /\ LogOK /\ LogOK'
      /\ Len(log) \in Nat /\ Lines \subseteq Nat
      /\ \A k \in Lines : k <= Len(log)
  BY StepFacts DEF Lines
<1>2. \A k \in Begun' : k \in Lines => k \in Begun /\ log'[k] = log[k]
  BY <1>1 DEF Begun, Grown
<1>3. \A e : \A k \in Results(e)' : k \in Lines => k \in Results(e) /\ log'[k] = log[k]
  BY <1>1, OldLines DEF Grown
<1>4. ASSUME NEW m \in Begun', NEW n \in Begun', m < n,
             log'[m].decision = log'[n].decision, log'[m].key = log'[n].key
      PROVE  log'[n].read < m
  <2>1. CASE n \in Lines /\ m \in Lines
    BY <1>2, <1>4, <2>1 DEF DuplicatesOverlap
  <2>2. CASE ~(n \in Lines /\ m \in Lines)
    <3>1. m \in Lines' /\ n \in Lines'
      BY DEF Begun
    <3>2. PICK r \in Record : /\ Append1(r) /\ LineOf(r) /\ log'[Len(log) + 1] = r
                              /\ Lines' = Lines \cup {Len(log) + 1}
      BY <2>2, <3>1, StepFacts
    <3>3. n = Len(log) + 1 /\ m \in Lines
      BY <1>1, <1>4, <2>2, <3>1, <3>2
    <3>4. r.type = "ExecutionBegun"
      BY <3>2, <3>3 DEF Begun
    <3>5. PICK p \in Process : BeginAppend(p)
      BY <3>2, <3>4 DEF LineOf
    <3>6. /\ task[p] # NoTask /\ task[p].step = "append"
          /\ log'[n].decision = task[p].decision /\ log'[n].key = task[p].key
          /\ log'[n].read = task[p].read
      BY <1>1, <3>3, <3>5 DEF BeginAppend, At, Append1
    <3>7. m \in Effects(task[p].decision) /\ log[m].key = task[p].key
      BY <1>2, <1>4, <3>3, <3>6 DEF Begun, Effects
    <3>8. m > task[p].read
      BY <3>6, <3>7 DEF ExecInv, TaskOK
    <3>9. task[p].read \in Nat
      BY <3>6, TaskFacts DEF ExecInv, TypeOK
    <3> QED
      BY <1>1, <3>3, <3>6, <3>8, <3>9
  <2> QED
    BY <2>1, <2>2
<1>5. ASSUME NEW e \in Begun', NEW m \in Results(e)', NEW n \in Results(e)', m < n
      PROVE  log'[n].read < m
  <2>1. m \in Lines' /\ n \in Lines'
    BY DEF Results
  <2>2. CASE n \in Lines /\ m \in Lines
    <3>1. /\ m \in Results(e) /\ n \in Results(e) /\ log'[n] = log[n]
      BY <1>3, <2>2
    <3>2. e \in Begun
      BY <3>1 DEF LogOK, Results, Begun, ExecInv
    <3> QED
      BY <1>5, <3>1, <3>2 DEF DuplicatesOverlap
  <2>3. CASE ~(n \in Lines /\ m \in Lines)
    <3>1. PICK r \in Record : /\ Append1(r) /\ LineOf(r) /\ log'[Len(log) + 1] = r
                              /\ Lines' = Lines \cup {Len(log) + 1}
      BY <2>1, <2>3, StepFacts
    <3>2. n = Len(log) + 1 /\ m \in Lines
      BY <1>1, <1>5, <2>1, <2>3, <3>1
    <3>3. r.type = "ExecutionResult"
      BY <3>1, <3>2 DEF Results
    <3>4. PICK p \in Process : CommitAppend(p)
      BY <3>1, <3>3 DEF LineOf
    <3>5. /\ task[p] # NoTask /\ task[p].step = "result"
          /\ log'[n].effect = task[p].effect /\ log'[n].read = task[p].read
      BY <1>1, <3>2, <3>4 DEF CommitAppend, At, Append1
    <3>6. m \in Results(task[p].effect)
      BY <1>3, <3>2, <3>5 DEF Results
    <3>7. m > task[p].read
      BY <3>5, <3>6 DEF ExecInv, TaskOK
    <3>8. task[p].read \in Nat
      BY <3>5, TaskFacts DEF ExecInv, TypeOK
    <3> QED
      BY <1>1, <3>2, <3>5, <3>7, <3>8
  <2> QED
    BY <2>2, <2>3
<1> QED
  BY <1>4, <1>5 DEF DuplicatesOverlap

(* An effect is begun twice, or settled twice, only by calls that overlap. *)
THEOREM OnlyOverlapsDuplicate ==
  Spec => []DuplicatesOverlap
<1>1. Init => DuplicatesOverlap
  BY DEF Init, DuplicatesOverlap, Begun, Lines
<1> QED
  BY <1>1, NextDuplicatesOverlap, ExecutionInvariant, PTL DEF Spec

(* What a worker knew when it took up an intent is what it executes under. *)
LEMMA NextFreshWork ==
  ExecInv /\ FreshWork /\ [Next]_vars => FreshWork'
<1> SUFFICES ASSUME ExecInv, FreshWork, [Next]_vars
             PROVE  FreshWork'
  OBVIOUS
<1> SUFFICES ASSUME NEW e \in Begun', log'[e].by \in Worker,
                    log'[e].key = WorkerKey
             PROVE  /\ \A n \in ResultsFor(IntentOf(e))' : n > log'[e].since
                    /\ \A d \in Decisions(IntentOf(e))' :
                         d > log'[e].decision => d > log'[e].since
  BY DEF FreshWork
<1>1. /\ Grown /\ log \in Seq(Record) /\ log' \in Seq(Record) /\ LogOK /\ LogOK'
      /\ Len(log) \in Nat /\ Lines \subseteq Nat
      /\ \A k \in Lines : k <= Len(log)
      /\ \A k \in Lines' : k \notin Lines => k > Len(log) /\ k \in Nat
  BY StepFacts DEF Lines
<1>2. PICK i, d, since : /\ i = IntentOf(e)' /\ d = log'[e].decision
                         /\ since = log'[e].since
  OBVIOUS
<1>3. /\ Decisions(i)' \cap Lines = Decisions(i)
      /\ ResultsFor(i)' \cap Lines = ResultsFor(i)
      /\ Decisions(i)' \subseteq Lines' /\ ResultsFor(i)' \subseteq Lines'
  <2>1. Decisions(i)' \subseteq Lines' /\ ResultsFor(i)' \subseteq Lines'
    BY DEF Decisions, Results, ResultsFor
  <2> QED
    BY <1>1, <2>1, OldLines
<1>4. /\ since \in Nat /\ since <= Len(log)
      /\ \A n \in ResultsFor(i) : n > since
      /\ \A n \in Decisions(i) : n > d => n > since
  <2>1. CASE e \in Lines
    <3>1. e \in Begun /\ log'[e] = log[e]
      BY <1>1, <2>1 DEF Begun, Grown
    <3>2. log[e].decision \in Lines /\ log[e].since < e
      BY <1>1, <3>1 DEF LogOK, Begun
    <3>3. i = IntentOf(e) /\ d = log[e].decision /\ since = log[e].since
      BY <1>1, <1>2, <3>1, <3>2 DEF IntentOf, Grown
    <3>4. since \in Nat
      BY <1>1, <2>1, <3>1, <3>3 DEF Begun, Record, Lines
    <3> QED
      BY <1>1, <2>1, <3>1, <3>2, <3>3, <3>4 DEF FreshWork
  <2>2. CASE e \notin Lines
    <3>1. PICK r \in Record : /\ Append1(r) /\ LineOf(r) /\ log'[Len(log) + 1] = r
                              /\ Lines' = Lines \cup {Len(log) + 1}
      BY <2>2, StepFacts DEF Begun
    <3>2. e = Len(log) + 1 /\ r.type = "ExecutionBegun"
      BY <2>2, <3>1 DEF Begun
    <3>3. PICK p \in Process : BeginAppend(p)
      BY <3>1, <3>2 DEF LineOf
    <3>4. /\ task[p] # NoTask /\ task[p].step = "append"
          /\ d = task[p].decision /\ since = task[p].since /\ p \in Worker
      BY <1>1, <1>2, <3>2, <3>3 DEF BeginAppend, At, Append1
    <3>5. /\ d \in Decisions(task[p].intent) /\ since <= Len(log)
          /\ \A n \in ResultsFor(task[p].intent) : n > since
          /\ \A n \in Decisions(task[p].intent) : n > d => n > since
      BY <3>4 DEF ExecInv, TaskOK
    <3>6. i = task[p].intent
      BY <1>1, <1>2, <3>5 DEF IntentOf, Decisions, Grown
    <3>7. since \in Nat
      BY <3>4, TaskFacts DEF ExecInv, TypeOK
    <3> QED
      BY <3>5, <3>6, <3>7
  <2> QED
    BY <2>1, <2>2
<1>5. ASSUME NEW n \in Lines', n \notin Lines
      PROVE  n > since
  BY <1>1, <1>4, <1>5
<1> QED
  BY <1>2, <1>3, <1>4, <1>5

(* A worker executes no intent that had a result when it took the intent   *)
(* up, and under no decision that had been overridden by then.             *)
THEOREM WorkIsFresh ==
  Spec => []FreshWork
<1>1. Init => FreshWork
  BY DEF Init, FreshWork, Begun, Lines
<1> QED
  BY <1>1, NextFreshWork, ExecutionInvariant, PTL DEF Spec

-----------------------------------------------------------------------------
(* The cursor.  What is passed stays passed, and the queue only grows.     *)
LEMMA PassedStays ==
  ASSUME ExecInv, [Next]_vars
  PROVE  /\ \A i : Passed(i) => Passed(i)'
         /\ Queue \in Seq(Intent) /\ Queue' \in Seq(Intent)
         /\ Len(Queue) \in Nat /\ Len(Queue') \in Nat /\ Len(Queue) <= Len(Queue')
         /\ \A k \in 1 .. Len(Queue) : Queue'[k] = Queue[k]
<1>1. /\ ExecInv' /\ Grown /\ log \in Seq(Record) /\ log' \in Seq(Record)
      /\ LogOK /\ LogOK' /\ QueueOK /\ QueueOK'
  BY StepFacts DEF ExecInv
<1>2. failed \subseteq failed'
  BY DEF Next, PollStep, TaskStep, StartPoll, Examine, Resolve, FinishPoll,
    SaveCursor, CheckRead, CheckRecord, CheckFails, BeginRead, BeginAppend,
    CommitRead, CommitAppend, Crash, SubmitIntent, Override, RunTask,
    ClientBegin, ClientCommit, vars
<1>3. ASSUME NEW i, Handled(i)
      PROVE  Handled(i)'
  <2>1. PICK d \in Decisions(i) : log[d].outcome \notin Executable \/ Effects(d) # {}
    BY <1>3 DEF Handled
  <2>2. d \in Decisions(i)' /\ log'[d] = log[d]
    BY <1>1, OldLines DEF Decisions, Grown
  <2>3. Effects(d) # {} => Effects(d)' # {}
    BY <1>1, OldLines
  <2> QED
    BY <2>1, <2>2, <2>3 DEF Handled
<1>4. QueueFacts /\ QueueFacts'
  <2>1. (log \in Seq(Record) /\ QueueOK => QueueFacts)'
    BY QueueIsSeq, PTL
  <2> QED
    BY <1>1, <2>1, QueueIsSeq
<1>5. Len(Queue) <= Len(Queue') /\ \A k \in 1 .. Len(Queue) : Queue'[k] = Queue[k]
  <2>1. CASE log' = log
    <3>1. Queue' = Queue
      BY <1>1, <2>1, QueueKept
    <3> QED
      BY <1>4, <3>1 DEF QueueFacts
  <2>2. ASSUME NEW r \in Record, Append1(r)
        PROVE  Len(Queue) <= Len(Queue') /\ \A k \in 1 .. Len(Queue) : Queue'[k] = Queue[k]
    BY <1>1, <2>2, QueueGrows
  <2> QED
    BY <2>1, <2>2, Lines1 DEF ExecInv
<1> QED
  BY <1>2, <1>3, <1>4, <1>5 DEF Passed, QueueFacts

(* A worker's position after a step in which it neither moved nor gave up  *)
(* an intent that is not passed.                                           *)
LEMMA PollKept ==
  ASSUME ExecInv, [Next]_vars, NEW w \in Worker, PollOK(w),
         poll'[w] = poll[w],
         \A i : task[w] # NoTask /\ task[w].intent = i =>
                Passed(i)' \/ (task'[w] # NoTask /\ task'[w].intent = i)
  PROVE  PollOK(w)'
<1>1. /\ \A i : Passed(i) => Passed(i)'
      /\ Len(Queue) \in Nat /\ Len(Queue') \in Nat /\ Len(Queue) <= Len(Queue')
      /\ \A k \in 1 .. Len(Queue) : Queue'[k] = Queue[k]
  BY PassedStays
<1>2. PICK p : p = poll[w]
  OBVIOUS
<1>3. p \in Poll /\ Len(p.todo) \in Nat
  BY <1>2 DEF ExecInv, TypeOK, Poll
<1>4. p.cursor \in Nat /\ p.file \in Nat /\ p.reached \in Nat
  BY <1>3 DEF Poll
<1>5. /\ p.file <= Len(Queue) /\ p.cursor <= Len(Queue)
      /\ \A n \in 1 .. Len(Queue) :
           n <= p.file \/ n <= p.cursor => Passed(Queue[n])
  BY <1>2 DEF PollOK
<1>6. p.file <= Len(Queue') /\ p.cursor <= Len(Queue')
  BY <1>1, <1>4, <1>5
<1>7. ASSUME NEW n \in 1 .. Len(Queue'), n <= p.file \/ n <= p.cursor
      PROVE  Passed(Queue[n])'
  <2>1. n \in 1 .. Len(Queue)
    BY <1>1, <1>4, <1>5, <1>7
  <2>2. Passed(Queue[n])
    BY <1>5, <1>7, <2>1
  <2>3. PICK i : i = Queue[n]
    OBVIOUS
  <2> QED
    BY <1>1, <2>1, <2>2, <2>3
<1>8. ASSUME p.polling
      PROVE  /\ p.cursor + Len(p.todo) <= p.reached
             /\ p.reached <= Len(Queue')
             /\ \A k \in 1 .. Len(p.todo) :
                  p.todo[k] = Queue'[p.reached - Len(p.todo) + k]
             /\ \A n \in 1 .. p.reached - Len(p.todo) :
                  \/ Passed(Queue[n])'
                  \/ task'[w] # NoTask /\ task'[w].intent = Queue'[n]
  <2>1. /\ p.cursor + Len(p.todo) <= p.reached
        /\ p.reached <= Len(Queue)
        /\ \A k \in 1 .. Len(p.todo) :
             p.todo[k] = Queue[p.reached - Len(p.todo) + k]
    BY <1>2, <1>8 DEF PollOK
  <2>0. ASSUME NEW n \in 1 .. p.reached - Len(p.todo)
        PROVE  Passed(Queue[n]) \/ (task[w] # NoTask /\ task[w].intent = Queue[n])
    BY <1>2, <1>8, <2>0 DEF PollOK
  <2>2. ASSUME NEW k \in 1 .. Len(p.todo)
        PROVE  p.todo[k] = Queue'[p.reached - Len(p.todo) + k]
    <3>1. p.reached - Len(p.todo) + k \in 1 .. Len(Queue)
      <4>1. \A a, b, c, j, l \in Nat :
              c + b <= a /\ a <= l /\ 1 <= j /\ j <= b => a - b + j \in 1 .. l
        OBVIOUS
      <4>2. k \in Nat /\ 1 <= k /\ k <= Len(p.todo)
        BY <1>3, <2>2
      <4> QED
        BY <1>1, <1>3, <1>4, <2>1, <4>1, <4>2
    <3> QED
      BY <1>1, <2>1, <3>1
  <2>3. ASSUME NEW n \in 1 .. p.reached - Len(p.todo)
        PROVE  \/ Passed(Queue[n])'
               \/ task'[w] # NoTask /\ task'[w].intent = Queue'[n]
    <3>1. n \in 1 .. Len(Queue)
      BY <1>1, <1>3, <1>4, <2>1, <2>3
    <3>2. PICK i : i = Queue[n]
      OBVIOUS
    <3>3. Queue'[n] = i
      BY <1>1, <3>1, <3>2
    <3>4. Passed(Queue[n]) \/ (task[w] # NoTask /\ task[w].intent = Queue[n])
      BY <2>0, <2>3
    <3>5. Passed(i) \/ (task[w] # NoTask /\ task[w].intent = i)
      BY <3>2, <3>4
    <3>6. Passed(i) => Passed(i)'
      BY <1>1
    <3>7. task[w] # NoTask /\ task[w].intent = i =>
            Passed(i)' \/ (task'[w] # NoTask /\ task'[w].intent = i)
      OBVIOUS
    <3>8. Passed(i)' \/ (task'[w] # NoTask /\ task'[w].intent = i)
      BY <3>5, <3>6, <3>7
    <3> QED
      BY <3>3, <3>8
  <2>4. p.reached <= Len(Queue')
    BY <1>1, <1>4, <2>1
  <2> QED
    BY <2>1, <2>2, <2>3, <2>4
<1>9. poll'[w] = p
  BY <1>2
<1> QED
  BY <1>6, <1>7, <1>8, <1>9 DEF PollOK

(* A worker leaves an intent only when it is passed, unless it crashes.    *)
LEMMA LeftIsPassed ==
  ASSUME ExecInv, [Next]_vars, NEW w \in Worker, ~Crash(w),
         NEW i, task[w] # NoTask, task[w].intent = i
  PROVE  Passed(i)' \/ (task'[w] # NoTask /\ task'[w].intent = i)
<1>1. /\ log \in Seq(Record) /\ Len(log) \in Nat /\ task \in Tasks /\ w \in Process
      /\ TypeOK /\ log' \in Seq(Record) /\ LogOK /\ LogOK' /\ Grown
      /\ i \in Intent /\ w \notin Client
  BY StepFacts, TaskFacts, ConstantsAssumption DEF ExecInv, TypeOK, Tasks, Process
<1>2. \A j : Passed(j) => Passed(j)'
  BY PassedStays
<1>4. ASSUME NEW p \in Process, Others(p), p # w
      PROVE  task'[w] # NoTask /\ task'[w].intent = i
  BY <1>1, <1>4 DEF Others
<1>5. ASSUME NEW d \in Decisions(i), Under(w, d, log[d].outcome)
      PROVE  Passed(i)' \/ (task'[w] # NoTask /\ task'[w].intent = i)
  <2>1. d \in Nat
    BY <1>1 DEF Decisions, Lines
  <2>2. CASE Permits(w, log[d].outcome)
    BY <1>1, <1>5, <2>1, <2>2, UnderDoes DEF SameWork
  <2>3. CASE ~Permits(w, log[d].outcome)
    BY <1>2, <2>3 DEF Permits, Passed, Handled
  <2> QED
    BY <2>2, <2>3
<1>6. ASSUME Resolve(w) \/ CheckRead(w)
      PROVE  Passed(i)' \/ (task'[w] # NoTask /\ task'[w].intent = i)
  <2>1. CASE Decisions(i) # {}
    <3>1. Latest(i) \in Decisions(i)
      BY <1>1, <2>1, LatestIsLast
    <3>2. Under(w, Latest(i), log[Latest(i)].outcome)
      BY <1>6, <2>1 DEF Resolve, CheckRead, Decided
    <3>3. PICK d : d = Latest(i)
      OBVIOUS
    <3> QED
      BY <1>5, <3>1, <3>2, <3>3
  <2>2. CASE Decisions(i) = {}
    <3>1. PICK step \in Step : GoTo(w, step)
      BY <1>6, <2>2 DEF Resolve, CheckRead, Decided, Step
    <3> QED
      BY <1>1, <3>1, GoToDoes DEF SameWork
  <2> QED
    BY <2>1, <2>2
<1>7. ASSUME CheckRecord(w)
      PROVE  Passed(i)' \/ (task'[w] # NoTask /\ task'[w].intent = i)
  <2>1. PICK d : d = Len(log) + 1
    OBVIOUS
  <2>2. PICK outcome \in Policy :
          /\ Append1([type |-> "DecisionRecorded", intent |-> i,
                      by |-> "policy", outcome |-> outcome])
          /\ Under(w, d, outcome)
    BY <1>7, <2>1 DEF CheckRecord
  <2>3. /\ d \in Lines' /\ d \in Nat /\ log'[d].type = "DecisionRecorded"
        /\ log'[d].intent = i /\ log'[d].outcome = outcome
    BY <1>1, <2>1, <2>2, Appending DEF Record
  <2>4. CASE Permits(w, outcome)
    BY <1>1, <2>2, <2>3, <2>4, UnderDoes DEF SameWork
  <2>5. CASE ~Permits(w, outcome)
    BY <2>3, <2>5 DEF Permits, Passed, Handled, Decisions
  <2> QED
    BY <2>4, <2>5
<1>8. ASSUME NEW d \in Decisions(i), Effects(d) # {}
      PROVE  Passed(i)'
  BY <1>2, <1>8 DEF Passed, Handled
<1>9. ASSUME BeginRead(w)
      PROVE  Passed(i)' \/ (task'[w] # NoTask /\ task'[w].intent = i)
  <2>1. PICK d : d = task[w].decision
    OBVIOUS
  <2>2. d \in Decisions(i)
    BY <1>1, <1>9, <2>1 DEF BeginRead, At, ExecInv, TaskOK
  <2>3. CASE Claimed(d, task[w].key)
    <3>1. Effects(d) # {}
      BY <2>3 DEF Claimed
    <3> QED
      BY <1>8, <2>2, <3>1
  <2>4. CASE ~Claimed(d, task[w].key)
    BY <1>1, <1>9, <2>1, <2>4, BeginReadDoes DEF SameWork
  <2> QED
    BY <2>3, <2>4
<1>10. ASSUME BeginAppend(w)
       PROVE  task'[w] # NoTask /\ task'[w].intent = i
  BY <1>1, <1>10, BeginAppendDoes DEF SameWork
<1>11. ASSUME CommitRead(w) \/ CommitAppend(w)
       PROVE  Passed(i)' \/ (task'[w] # NoTask /\ task'[w].intent = i)
  <2>1. PICK d : d = task[w].decision
    OBVIOUS
  <2>2. d \in Decisions(i) /\ task[w].effect \in Effects(d)
    BY <1>1, <1>11, <2>1 DEF CommitRead, CommitAppend, At, ExecInv, TaskOK
  <2> QED
    BY <1>8, <2>2
<1>12. ASSUME CheckFails(w)
       PROVE  Passed(i)'
  BY <1>12 DEF CheckFails, Passed
<1>13. ASSUME NEW v \in Worker, Examine(v)
       PROVE  v # w /\ Others(v) /\ v \in Process
  BY <1>1, <1>13, ExamineDoes DEF Examine, Process
<1>14. ASSUME NEW p \in Process, p # w,
              Resolve(p) \/ TaskStep(p) \/ CheckFails(p) \/ Crash(p)
       PROVE  Others(p)
  BY <1>1, <1>14 DEF Resolve, TaskStep, CheckRead, CheckRecord, CheckFails,
    BeginRead, BeginAppend, CommitRead, CommitAppend, Crash, Under, GoTo, Tasks, Others
<1>15. ASSUME NEW c \in Client,
              \/ \E j \in Intent : RunTask(c, j)
              \/ \E d \in Lines, key \in Key : ClientBegin(c, d, key)
              \/ \E e \in Lines : ClientCommit(c, e)
       PROVE  c # w /\ c \in Process /\ Others(c)
  BY <1>1, <1>15 DEF RunTask, ClientBegin, ClientCommit, Command, Tasks, Others, Process
<1>16. ASSUME \/ \E v \in Worker : StartPoll(v) \/ FinishPoll(v) \/ SaveCursor(v)
              \/ \E j \in Intent : SubmitIntent(j)
              \/ \E j \in Intent, outcome \in Overriding : Override(j, outcome)
              \/ UNCHANGED vars
       PROVE  task'[w] # NoTask /\ task'[w].intent = i
  BY <1>16 DEF StartPoll, FinishPoll, SaveCursor, SubmitIntent, Override, vars
<1>17. \A v \in Worker : v \in Process
  BY DEF Process
<1>18. CASE \E v \in Worker : PollStep(v) \/ SaveCursor(v)
  BY <1>4, <1>6, <1>13, <1>14, <1>16, <1>17, <1>18 DEF PollStep
<1>19. CASE \E p \in Process : TaskStep(p) \/ CheckFails(p) \/ Crash(p)
  <2>1. PICK p \in Process : TaskStep(p) \/ CheckFails(p) \/ Crash(p)
    BY <1>19
  <2>2. CASE p = w
    BY <1>6, <1>7, <1>9, <1>10, <1>11, <1>12, <2>1, <2>2 DEF TaskStep
  <2>3. CASE p # w
    BY <1>4, <1>14, <2>1, <2>3
  <2> QED
    BY <2>2, <2>3
<1> QED
  BY <1>4, <1>15, <1>16, <1>18, <1>19 DEF Next

(* The steps that move a worker's position.                                *)
LEMMA NextPollOK ==
  ASSUME ExecInv, [Next]_vars, NEW w \in Worker, PollOK(w)
  PROVE  PollOK(w)'
<1>1. /\ \A i : Passed(i) => Passed(i)'
      /\ Queue \in Seq(Intent) /\ Len(Queue) \in Nat
      /\ Len(Queue') \in Nat /\ Len(Queue) <= Len(Queue')
      /\ \A k \in 1 .. Len(Queue) : Queue'[k] = Queue[k]
  BY PassedStays
<1>2. PICK p, q : p = poll[w] /\ q = poll'[w]
  OBVIOUS
<1>3. TypeOK /\ TypeOK' /\ QueueOK
  BY StepFacts DEF ExecInv
<1>4. /\ p \in Poll /\ p.cursor \in Nat /\ p.file \in Nat /\ p.reached \in Nat
      /\ p.todo \in Seq(Intent) /\ Len(p.todo) \in Nat
  BY <1>2, <1>3 DEF TypeOK, Poll
<1>5. /\ p.file <= Len(Queue) /\ p.cursor <= Len(Queue)
      /\ \A n \in 1 .. Len(Queue) :
           n <= p.file \/ n <= p.cursor => Passed(Queue[n])
  BY <1>2 DEF PollOK
<1>6. ASSUME NEW n \in 1 .. Len(Queue), Passed(Queue[n])
      PROVE  Passed(Queue[n])'
  <2>1. PICK i : i = Queue[n]
    OBVIOUS
  <2>2. Passed(i)' /\ Queue'[n] = i
    BY <1>1, <1>6, <2>1
  <2> QED
    BY <2>2
<1>7. CASE StartPoll(w)
  <2>1. PICK last \in p.cursor + 1 .. Len(Queue) :
           /\ q.polling /\ q.cursor = p.cursor /\ q.file = p.file
           /\ q.reached = last /\ q.todo = SubSeq(Queue, p.cursor + 1, last)
    BY <1>2, <1>3, <1>7, StartPollDoes
  <2>2. Queue' = Queue /\ last \in Nat
    BY <1>1, <1>3, <1>4, <1>7, <2>1, QueueKept DEF StartPoll, TypeOK
  <2>3. /\ Len(q.todo) = last - p.cursor
        /\ \A k \in 1 .. last - p.cursor : q.todo[k] = Queue[p.cursor + k]
    <3>1. \A m, n \in Nat : m + 1 <= n /\ n <= Len(Queue) =>
            /\ Len(SubSeq(Queue, m + 1, n)) = n - m
            /\ \A k \in 1 .. n - m : SubSeq(Queue, m + 1, n)[k] = Queue[m + k]
      BY <1>1
    <3>2. PICK m \in Nat : m = p.cursor
      BY <1>4
    <3>3. m + 1 <= last /\ last <= Len(Queue)
      BY <1>1, <2>1, <2>2, <3>2
    <3>4. /\ Len(SubSeq(Queue, m + 1, last)) = last - m
          /\ \A k \in 1 .. last - m : SubSeq(Queue, m + 1, last)[k] = Queue[m + k]
      BY <2>2, <3>1, <3>3
    <3>5. q.todo = SubSeq(Queue, m + 1, last)
      BY <2>1, <3>2
    <3> QED
      BY <3>2, <3>4, <3>5
  <2>4. last - Len(q.todo) = p.cursor
    BY <1>4, <2>2, <2>3
  <2>5. \A k \in 1 .. Len(q.todo) : q.todo[k] = Queue'[q.reached - Len(q.todo) + k]
    BY <2>1, <2>2, <2>3, <2>4
  <2>6. ASSUME NEW n \in 1 .. Len(Queue'), n <= q.file \/ n <= q.cursor
        PROVE  Passed(Queue[n])'
    BY <1>5, <1>6, <2>1, <2>2, <2>6
  <2>7. \A n \in 1 .. q.reached - Len(q.todo) : Passed(Queue[n])'
    <3>1. \A n \in 1 .. p.cursor : n \in 1 .. Len(Queue') /\ n <= q.cursor
      BY <1>1, <1>4, <1>5, <2>1, <2>2
    <3> QED
      BY <2>1, <2>4, <2>6, <3>1
  <2>8. /\ q.file <= Len(Queue') /\ q.cursor <= Len(Queue')
        /\ q.cursor + Len(q.todo) <= q.reached /\ q.reached <= Len(Queue')
    BY <1>1, <1>4, <1>5, <2>1, <2>2, <2>3
  <2> QED
    BY <1>2, <2>5, <2>6, <2>7, <2>8 DEF PollOK
<1>8. CASE Examine(w)
  <2>1. /\ q.polling = p.polling /\ q.reached = p.reached
        /\ q.cursor = p.cursor /\ q.file = p.file
        /\ q.todo = Tail(p.todo) /\ p.todo # <<>> /\ p.polling
        /\ task[w] = NoTask /\ log' = log
    BY <1>2, <1>3, <1>8, ExamineDoes DEF Examine
  <2>2. Queue' = Queue
    BY <1>3, <2>1, QueueKept DEF TypeOK
  <2>3. /\ Len(q.todo) = Len(p.todo) - 1 /\ Len(p.todo) >= 1
        /\ \A k \in 1 .. Len(p.todo) - 1 : q.todo[k] = p.todo[k + 1]
        /\ Head(p.todo) = p.todo[1]
    BY <1>4, <2>1
  <2>4. PICK c, r, l, N \in Nat :
          /\ c = p.cursor /\ r = p.reached /\ l = Len(p.todo) /\ N = Len(Queue)
    BY <1>1, <1>4
  <2>5. /\ c + l <= r /\ r <= N /\ l >= 1
        /\ \A k \in 1 .. l : p.todo[k] = Queue[r - l + k]
        /\ \A n \in 1 .. r - l : Passed(Queue[n])
    BY <1>2, <2>1, <2>3, <2>4 DEF PollOK
  <2>6. PICK m \in 1 .. N : m = r - l + 1
    BY <2>5
  <2>7. Queue[m] = Head(p.todo)
    BY <2>3, <2>5, <2>6
  <2>8. q.reached - Len(q.todo) = m /\ Len(q.todo) = l - 1 /\ m \in 1 .. Len(Queue)
    <3>1. Len(q.todo) = l - 1 /\ q.reached = r
      BY <2>1, <2>3, <2>4
    <3>2. r - (l - 1) = m
      BY <2>6
    <3> QED
      BY <2>4, <3>1, <3>2
  <2>9. ASSUME NEW k \in 1 .. Len(q.todo)
        PROVE  q.todo[k] = Queue'[q.reached - Len(q.todo) + k]
    <3>1. k \in 1 .. l - 1 /\ k + 1 \in 1 .. l
      BY <2>9, <2>8
    <3>2. r - l + (k + 1) = m + k
      BY <2>6, <3>1
    <3>3. q.todo[k] = p.todo[k + 1] /\ p.todo[k + 1] = Queue[r - l + (k + 1)]
      BY <2>3, <2>4, <2>5, <3>1
    <3> QED
      BY <2>2, <2>8, <3>2, <3>3
  <2>10. Passed(Queue[m])' \/ (task'[w] # NoTask /\ task'[w].intent = Queue'[m])
    <3>1. CASE AlreadyExecuted(Head(p.todo))
      <4>1. Passed(Queue[m])
        BY <2>7, <3>1 DEF AlreadyExecuted, ResultsFor, Passed, Handled
      <4> QED
        BY <1>6, <2>8, <4>1
    <3>2. CASE ~AlreadyExecuted(Head(p.todo))
      BY <1>2, <1>3, <1>8, <2>2, <2>7, <3>2, ExamineDoes
    <3> QED
      BY <3>1, <3>2
  <2>11. ASSUME NEW n \in 1 .. q.reached - Len(q.todo)
         PROVE  Passed(Queue[n])' \/ (task'[w] # NoTask /\ task'[w].intent = Queue'[n])
    <3>1. CASE n = m
      BY <2>10, <3>1
    <3>2. CASE n # m
      <4>1. n \in 1 .. m
        BY <2>11, <2>8
      <4>2. n \in 1 .. r - l /\ n \in 1 .. N
        BY <2>6, <3>2, <4>1
      <4> QED
        BY <1>6, <2>4, <2>5, <4>2
    <3> QED
      BY <3>1, <3>2
  <2>12. ASSUME NEW n \in 1 .. Len(Queue'), n <= q.file \/ n <= q.cursor
         PROVE  Passed(Queue[n])'
    BY <1>5, <1>6, <2>1, <2>2, <2>12
  <2>13. /\ q.file <= Len(Queue') /\ q.cursor <= Len(Queue')
         /\ q.cursor + Len(q.todo) <= q.reached /\ q.reached <= Len(Queue')
    BY <1>5, <2>1, <2>2, <2>4, <2>5, <2>8
  <2> QED
    BY <1>2, <2>9, <2>11, <2>12, <2>13 DEF PollOK
<1>9. CASE FinishPoll(w)
  <2>1. /\ ~q.polling /\ q.file = p.file /\ q.cursor = p.reached
        /\ p.polling /\ Len(p.todo) = 0 /\ task[w] = NoTask /\ log' = log
    BY <1>2, <1>3, <1>9, FinishPollDoes DEF FinishPoll
  <2>2. Queue' = Queue
    BY <1>3, <2>1, QueueKept DEF TypeOK
  <2>3. /\ p.reached <= Len(Queue)
        /\ \A n \in 1 .. p.reached - Len(p.todo) : Passed(Queue[n])
    BY <1>2, <2>1 DEF PollOK
  <2>4. ASSUME NEW n \in 1 .. Len(Queue'), n <= q.file \/ n <= q.cursor
        PROVE  Passed(Queue[n])'
    <3>1. n <= p.reached => n \in 1 .. p.reached - Len(p.todo)
      BY <1>1, <1>4, <2>1, <2>2, <2>4
    <3> QED
      BY <1>5, <1>6, <2>1, <2>2, <2>3, <2>4, <3>1
  <2> QED
    BY <1>2, <1>5, <2>1, <2>2, <2>3, <2>4 DEF PollOK
<1>10. CASE SaveCursor(w)
  <2>1. ~q.polling /\ q.cursor = p.cursor /\ q.file = p.cursor /\ log' = log
    BY <1>2, <1>3, <1>10, SaveCursorDoes DEF SaveCursor
  <2>2. Queue' = Queue
    BY <1>3, <2>1, QueueKept DEF TypeOK
  <2>3. ASSUME NEW n \in 1 .. Len(Queue'), n <= q.file \/ n <= q.cursor
        PROVE  Passed(Queue[n])'
    BY <1>5, <1>6, <2>1, <2>2, <2>3
  <2> QED
    BY <1>2, <1>5, <2>1, <2>2, <2>3 DEF PollOK
<1>11. CASE Crash(w)
  <2>1. ~q.polling /\ q.cursor = p.file /\ q.file = p.file /\ log' = log
    BY <1>2, <1>3, <1>11, CrashDoes DEF Crash, Process
  <2>2. Queue' = Queue
    BY <1>3, <2>1, QueueKept DEF TypeOK
  <2>3. ASSUME NEW n \in 1 .. Len(Queue'), n <= q.file \/ n <= q.cursor
        PROVE  Passed(Queue[n])'
    BY <1>5, <1>6, <2>1, <2>2, <2>3
  <2> QED
    BY <1>2, <1>5, <2>1, <2>2, <2>3 DEF PollOK
<1>12. CASE ~(StartPoll(w) \/ Examine(w) \/ FinishPoll(w) \/ SaveCursor(w) \/ Crash(w))
  <2>1. ASSUME NEW v \in Worker, v # w,
               StartPoll(v) \/ Examine(v) \/ FinishPoll(v) \/ SaveCursor(v)
        PROVE  poll'[w] = poll[w]
    BY <1>3, <2>1, StartPollDoes, ExamineDoes, FinishPollDoes, SaveCursorDoes
  <2>2. ASSUME NEW v \in Process, v # w, Crash(v)
        PROVE  poll'[w] = poll[w]
    BY <1>3, <2>2, CrashDoes
  <2>3. poll'[w] = poll[w]
    BY <1>12, <2>1, <2>2 DEF Next, PollStep, TaskStep, Resolve, CheckRead,
      CheckRecord, CheckFails, BeginRead, BeginAppend, CommitRead, CommitAppend,
      SubmitIntent, Override, RunTask, ClientBegin, ClientCommit, vars
  <2> QED
    BY <1>12, <2>3, LeftIsPassed, PollKept
<1> QED
  BY <1>7, <1>8, <1>9, <1>10, <1>11, <1>12

(* No worker's cursor file moves past an intent that nobody has handled    *)
(* and whose check has not failed.                                         *)
THEOREM NoneSkipped ==
  Spec => []NothingSkipped
<1> DEFINE PollsOK == \A w \in Worker : PollOK(w)
<1>1. Init => PollsOK
  <2> SUFFICES ASSUME Init, NEW w \in Worker
               PROVE  PollOK(w)
    OBVIOUS
  <2>1. /\ ExecInv /\ poll[w].cursor = 0 /\ poll[w].file = 0 /\ ~poll[w].polling
    BY InitExecInv DEF Init
  <2>2. Len(Queue) \in Nat
    BY <2>1, QueueIsSeq DEF ExecInv, TypeOK, QueueFacts
  <2> QED
    BY <2>1, <2>2 DEF PollOK
<1>2. ExecInv /\ PollsOK /\ [Next]_vars => PollsOK'
  BY NextPollOK
<1>3. ExecInv /\ PollsOK => NothingSkipped
  <2> SUFFICES ASSUME ExecInv, PollsOK, NEW w \in Worker, NEW n \in 1 .. poll[w].file
               PROVE  Handled(Queue[n]) \/ Queue[n] \in failed
    BY DEF NothingSkipped
  <2>1. poll[w].file <= Len(Queue) /\ poll[w].file \in Nat /\ Len(Queue) \in Nat
    BY QueueIsSeq DEF ExecInv, TypeOK, Poll, PollOK, QueueFacts
  <2>2. n \in 1 .. Len(Queue) /\ n <= poll[w].file
    BY <2>1
  <2> QED
    BY <2>2 DEF PollOK, Passed
<1> HIDE DEF PollsOK
<1>4. Spec => []PollsOK
  BY <1>1, <1>2, ExecutionInvariant, PTL DEF Spec
<1> QED
  BY <1>3, <1>4, ExecutionInvariant, PTL

=============================================================================

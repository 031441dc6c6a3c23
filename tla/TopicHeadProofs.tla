-------------------------- MODULE TopicHeadProofs --------------------------
(* Theorems about the heads of topics, for any number of processes, topics, *)
(* intents, other records, attempts, cas_head calls and crashes.            *)
EXTENDS TopicHead, FiniteSetTheorems, WellFoundedInduction, TLAPS

-----------------------------------------------------------------------------
(* The inductive invariant.                                                *)

(* No more intents and records than the bounds, with those to come.        *)
CountsOK ==
  /\ IsFiniteSet(Submitters)
  /\ Cardinality(Intents) + Cardinality(Submitters) <= MaxIntents
  /\ Len(log) <= Cardinality(Intents) + MaxOthers

(* What the code lets a call do at each step, and the submit lock.         *)
ShapeOK(p) ==
  LET k == task[p]
  IN  /\ k.attempts # 0
      /\ k.own => k.op # "head" /\ k.step \notin {"look", "find", "compare"}
      /\ k.step = "compare" => k.op # "head"
      /\ k.step = "count" => k.own
      /\ k.own /\ k.step \in {"count", "load"} => k.op = "submit"
      /\ Locked(p) /\ k.step # "look" => guard = p

(* A line that may stand for the head of a topic: an intent of it, or a    *)
(* line that the last intent of it by then was told wrongly.               *)
Misled(m, n) == log[m].told = n /\ m < n /\ \A k \in Intents : k <= m \/ n < k

Fits(n, t) ==
  \/ n = 0
  \/ n \in Intents /\ log[n].topic = t
  \/ /\ n \in 1 .. Len(log) /\ n \notin Intents
     /\ \E m \in Intents : log[m].topic = t /\ Misled(m, n)

(* Nobody but cas_head writes another line.                                *)
Honest(t) == "cas" \notin upset[t]
OwnCas(p, t) == task[p].op = "cas" /\ task[p].own /\ task[p].topic = t

FitsOK(p) ==
  LET k == task[p]
  IN  /\ Honest(k.topic) => Fits(k.found, k.topic) /\ Fits(k.ref, k.topic)
      /\ \A t \in Topic : Honest(t) /\ ~OwnCas(p, t) => Fits(k.image[t], t)

(* A call under the lock knows the last intents as they are; head() does   *)
(* too, unless a submission has overtaken it.                              *)
Excused(p, t) ==
  \/ upset[t] # {}
  \/ task[p].op = "head" /\ (t \in task[p].late \/ Submitting(t))

FreshOK(p) ==
  LET k == task[p]
      t == k.topic
  IN  /\ k.op # "head" /\ ~k.own /\ k.step \notin {"look", "find"} =>
           upset[t] # {} \/ k.found >= Latest(t)
      /\ k.step = "load" => Excused(p, t) \/ k.ref >= Latest(t)
      /\ k.step = "count" =>
           /\ k.ref \in Intents /\ log[k.ref].topic = t /\ log[k.ref].told = 0
           /\ \A n \in Intents : n <= k.ref
      /\ k.step \in {"truncate", "write"} =>
           \A u \in Topic : OwnCas(p, u) \/ Excused(p, u) \/ k.image[u] = 0
                            \/ k.image[u] >= Latest(u)

TaskOK(p) == task[p] # NoTask => ShapeOK(p) /\ FitsOK(p) /\ FreshOK(p)

HeadsFit == \A t \in Topic : Honest(t) => Fits(heads[t], t)

HeadInv ==
  /\ TypeOK /\ CountsOK /\ HeadsFit /\ HeadsKeepUp /\ ParentsPrecede /\ Chained
  /\ \A p \in Process : TaskOK(p)

-----------------------------------------------------------------------------
(* Lines of the log.                                                       *)

(* A line that is the last.                                                *)
LEMMA MaxExists ==
  ASSUME NEW N \in Nat, NEW S \in SUBSET (0 .. N), S # {}
  PROVE  \E x \in S : \A y \in S : y <= x
<1> DEFINE Above(n) == {m \in 0 .. N : m > n}
           T == {Above(n) : n \in S}
<1>1. IsWellFoundedOn(StrictSubsetOrdering(0 .. N), SUBSET (0 .. N))
  <2>1. IsFiniteSet(0 .. N)
    BY FS_Interval
  <2>2. FiniteSubsetsOf(0 .. N) = SUBSET (0 .. N)
    BY <2>1, FS_Subset DEF FiniteSubsetsOf
  <2>3. IsWellFoundedOn(StrictSubsetOrdering(0 .. N), FiniteSubsetsOf(0 .. N))
    BY FS_StrictSubsetOrderingWellFounded
  <2> QED
    BY <2>2, <2>3
<1>2. T # {} /\ T \subseteq SUBSET (0 .. N)
  OBVIOUS
<1>3. PICK U \in T : \A V \in T : <<V, U>> \notin StrictSubsetOrdering(0 .. N)
  <2> HIDE DEF T
  <2> QED
    BY <1>1, <1>2, WFMin
<1>4. PICK x \in S : U = Above(x)
  BY <1>3
<1>5. ASSUME NEW y \in S, ~(y <= x)
      PROVE  FALSE
  <2>1. Above(y) \subseteq Above(x)
    BY <1>5
  <2>2. y \in Above(x) /\ y \notin Above(y)
    BY <1>5
  <2>3. <<Above(y), Above(x)>> \in StrictSubsetOrdering(0 .. N)
    BY <2>1, <2>2 DEF StrictSubsetOrdering
  <2> QED
    BY <1>3, <1>4, <2>3
<1> QED
  BY <1>5

(* Where the intents are, and what an intent holds.                        *)
LEMMA IntentsAre ==
  ASSUME TypeOK
  PROVE  /\ Len(log) \in Nat /\ Intents \subseteq 1 .. Len(log)
         /\ IsFiniteSet(Intents) /\ Cardinality(Intents) \in Nat
         /\ \A n \in Intents : /\ log[n].topic \in Topic /\ log[n].given \in BOOLEAN
                               /\ log[n].parent \in Line /\ log[n].told \in Line
<1>1. Len(log) \in Nat /\ Intents \subseteq 1 .. Len(log)
  BY DEF TypeOK, Intents
<1>2. IsFiniteSet(Intents) /\ Cardinality(Intents) \in Nat
  <2>1. IsFiniteSet(1 .. Len(log))
    BY <1>1, FS_Interval
  <2> QED
    BY <1>1, <2>1, FS_Subset, FS_CardinalityType
<1>3. ASSUME NEW n \in Intents
      PROVE  /\ log[n].topic \in Topic /\ log[n].given \in BOOLEAN
             /\ log[n].parent \in Line /\ log[n].told \in Line
  <2>1. log[n] \in Record /\ log[n].type = "intent"
    BY <1>1, <1>3 DEF TypeOK, Intents
  <2> QED
    BY <2>1 DEF Record
<1> QED
  BY <1>1, <1>2, <1>3

(* Latest finds the last intent of a topic, or 0.                          *)
LEMMA LatestIs ==
  ASSUME TypeOK, NEW t
  PROVE  /\ Latest(t) \in Nat /\ Latest(t) <= Len(log)
         /\ Latest(t) # 0 => Latest(t) \in Intents /\ log[Latest(t)].topic = t
         /\ \A n \in Intents : log[n].topic = t => n <= Latest(t)
<1> DEFINE S == {0} \cup {n \in Intents : log[n].topic = t}
<1>1. Len(log) \in Nat /\ Intents \subseteq 1 .. Len(log)
  BY IntentsAre
<1>2. S \in SUBSET (0 .. Len(log)) /\ S # {}
  <2>1. \A n \in 1 .. Len(log) : n \in 0 .. Len(log)
    BY <1>1
  <2>2. 0 \in 0 .. Len(log)
    BY <1>1
  <2> QED
    BY <1>1, <2>1, <2>2
<1>3. PICK x \in S : \A y \in S : y <= x
  <2> HIDE DEF S
  <2> QED
    BY <1>1, <1>2, MaxExists
<1>4. Max(S) \in S /\ \A y \in S : Max(S) >= y
  <2>1. x \in S /\ \A y \in S : x >= y
    BY <1>1, <1>2, <1>3
  <2> HIDE DEF S
  <2> QED
    BY <2>1 DEF Max
<1>5. Latest(t) = Max(S)
  BY DEF Latest
<1>6. \A m \in S : /\ m \in Nat /\ m <= Len(log)
                   /\ m # 0 => m \in Intents /\ log[m].topic = t
  BY <1>1, <1>2
<1>7. \A n \in Intents : log[n].topic = t => n \in S
  OBVIOUS
<1> HIDE DEF S
<1>8. Latest(t) \in S /\ \A y \in S : Latest(t) >= y
  BY <1>4, <1>5
<1>9. \A n \in Intents : log[n].topic = t => n <= Latest(t)
  BY <1>6, <1>7, <1>8
<1>10. PICK m \in S : m = Latest(t)
  BY <1>8
<1>11. m \in Nat /\ m <= Len(log) /\ (m # 0 => m \in Intents /\ log[m].topic = t)
  BY <1>6
<1> QED
  BY <1>9, <1>10, <1>11

-----------------------------------------------------------------------------
(* Steps that append no intent.                                            *)
Extends ==
  /\ Intents' = Intents /\ Len(log) <= Len(log')
  /\ \A n \in 1 .. Len(log) : log'[n].topic = log[n].topic
  /\ \A n \in Intents :
       /\ log'[n].given = log[n].given
       /\ log'[n].parent = log[n].parent
       /\ log'[n].told # log[n].told => log[n].told = 0 /\ \A k \in Intents : k <= n

UpsetGrows == \A t \in Topic : upset[t] \subseteq upset'[t]

(* A step that leaves the log alone is one.                                *)
LEMMA SameLog ==
  ASSUME TypeOK, log' = log
  PROVE  Extends
<1>1. Len(log) \in Nat /\ Intents \subseteq 1 .. Len(log)
  BY IntentsAre
<1> QED
  BY <1>1 DEF Extends, Intents

(* The latest intents stay the latest.                                     *)
LEMMA LatestKeeps ==
  ASSUME TypeOK, TypeOK', Extends, NEW t
  PROVE  Latest(t)' = Latest(t)
<1>1. {n \in Intents' : log'[n].topic = t} = {n \in Intents : log[n].topic = t}
  BY IntentsAre DEF Extends
<1> QED
  BY <1>1 DEF Latest

(* A head that fits goes on to.                                            *)
LEMMA FitsKeeps ==
  ASSUME TypeOK, TypeOK', Extends, NEW n, NEW t, Fits(n, t)
  PROVE  Fits(n, t)'
<1>1. Len(log) \in Nat /\ Len(log') \in Nat /\ Intents \subseteq 1 .. Len(log)
  BY IntentsAre DEF TypeOK
<1>2. CASE n = 0 \/ (n \in Intents /\ log[n].topic = t)
  BY <1>1, <1>2 DEF Fits, Extends
<1>3. CASE n \in 1 .. Len(log) /\ n \notin Intents
  <2>1. PICK m \in Intents : log[m].topic = t /\ Misled(m, n)
    BY <1>3 DEF Fits
  <2>2. log'[m].told = log[m].told
    BY <1>3, <2>1 DEF Extends, Misled
  <2>3. Misled(m, n)'
    BY <2>1, <2>2 DEF Misled, Extends
  <2> QED
    BY <1>1, <1>3, <2>1, <2>3 DEF Fits, Extends
<1> QED
  BY <1>2, <1>3 DEF Fits

-----------------------------------------------------------------------------
(* What keeps each part of the invariant while no intent is appended.      *)

(* What a call in progress holds.                                          *)
LEMMA Fields ==
  ASSUME TypeOK, NEW p \in Process, task[p] # NoTask
  PROVE  /\ task[p] \in Task /\ task[p].op \in {"submit", "cas", "head"}
         /\ task[p].topic \in Topic /\ task[p].own \in BOOLEAN
         /\ task[p].step \in {"look", "find", "compare", "count", "load", "truncate", "write"}
         /\ task[p].expected \in Line \cup {AnyHead} /\ task[p].attempts \in Nat
         /\ task[p].found \in Line /\ task[p].ref \in Line
         /\ task[p].image \in Heads /\ task[p].late \subseteq Topic
         /\ Line \subseteq Nat
BY ConstantsAssumption DEF TypeOK, Task, Line

(* A call goes on as it was, but may have been overtaken.                  *)
KeepsTask(q) ==
  task'[q] # NoTask =>
    /\ task[q] # NoTask /\ task'[q].op = task[q].op /\ task'[q].topic = task[q].topic
    /\ task'[q].step = task[q].step /\ task'[q].attempts = task[q].attempts
    /\ task'[q].found = task[q].found /\ task'[q].ref = task[q].ref
    /\ task'[q].image = task[q].image /\ task'[q].own = task[q].own
    /\ task[q].late \subseteq task'[q].late

(* What a process knows survives a step that leaves its call alone.        *)
LEMMA TaskKeeps ==
  ASSUME TypeOK, TypeOK', Extends, UpsetGrows, NEW q \in Process, TaskOK(q), KeepsTask(q),
         guard = q => guard' = q,
         \A t \in Topic : Submitting(t) =>
           \/ Submitting(t)' \/ upset'[t] # {}
           \/ task'[q] # NoTask /\ task[q].op = "head" => t \in task'[q].late,
         At(q, "count") => log'[task[q].ref].told = log[task[q].ref].told
  PROVE  TaskOK(q)'
<1> SUFFICES ASSUME task'[q] # NoTask PROVE ShapeOK(q)' /\ FitsOK(q)' /\ FreshOK(q)'
  BY DEF TaskOK
<1>1. /\ task[q] # NoTask /\ task'[q].op = task[q].op /\ task'[q].topic = task[q].topic
      /\ task'[q].step = task[q].step /\ task'[q].attempts = task[q].attempts
      /\ task'[q].found = task[q].found /\ task'[q].ref = task[q].ref
      /\ task'[q].image = task[q].image /\ task'[q].own = task[q].own
      /\ task[q].late \subseteq task'[q].late
  BY DEF KeepsTask
<1>2. ShapeOK(q) /\ FitsOK(q) /\ FreshOK(q)
  BY <1>1 DEF TaskOK
<1>3. ShapeOK(q)'
  BY <1>1, <1>2 DEF ShapeOK, Locked
<1>4. /\ \A t \in Topic : Honest(t)' => Honest(t)
      /\ \A t : OwnCas(q, t)' <=> OwnCas(q, t)
      /\ \A n, t : Fits(n, t) => Fits(n, t)'
  BY <1>1, FitsKeeps DEF UpsetGrows, Honest, OwnCas
<1>5. FitsOK(q)'
  <2>1. PICK f, r, i, u : /\ f = task[q].found /\ r = task[q].ref /\ i = task[q].image
                          /\ u = task[q].topic /\ u \in Topic
    BY <1>1, Fields
  <2>2. Honest(u)' => Fits(f, u)' /\ Fits(r, u)'
    BY <1>2, <1>4, <2>1 DEF FitsOK
  <2>3. \A t \in Topic : Honest(t)' /\ ~OwnCas(q, t)' => Fits(i[t], t)'
    BY <1>2, <1>4, <2>1 DEF FitsOK
  <2> QED
    BY <1>1, <2>1, <2>2, <2>3 DEF FitsOK
<1>6. \A t \in Topic : Excused(q, t) => Excused(q, t)'
  BY <1>1 DEF Excused, UpsetGrows
<1>7. FreshOK(q)'
  <2>1. PICK u \in Topic : u = task[q].topic
    BY <1>1, Fields
  <2>2. \A t : Latest(t)' = Latest(t)
    BY LatestKeeps
  <2>3. task[q].op # "head" /\ ~task[q].own /\ task[q].step \notin {"look", "find"} =>
          upset'[u] # {} \/ task[q].found >= Latest(u)'
    BY <1>2, <2>1, <2>2 DEF FreshOK, UpsetGrows
  <2>4. task[q].step = "load" => Excused(q, u)' \/ task[q].ref >= Latest(u)'
    BY <1>2, <1>6, <2>1, <2>2 DEF FreshOK
  <2>5. task[q].step = "count" =>
          /\ task[q].ref \in Intents' /\ log'[task[q].ref].topic = u
          /\ log'[task[q].ref].told = 0 /\ \A n \in Intents' : n <= task[q].ref
    BY <1>1, <1>2, <2>1, IntentsAre DEF FreshOK, Extends, At
  <2>6. task[q].step \in {"truncate", "write"} =>
          \A t \in Topic : OwnCas(q, t)' \/ Excused(q, t)' \/ task[q].image[t] = 0
                           \/ task[q].image[t] >= Latest(t)'
    BY <1>2, <1>4, <1>6, <2>2 DEF FreshOK
  <2> QED
    BY <1>1, <2>1, <2>3, <2>4, <2>5, <2>6 DEF FreshOK
<1> QED
  BY <1>3, <1>5, <1>7

(* So do the intents with their parents, ...                               *)
LEMMA RecordsKeep ==
  ASSUME TypeOK, Extends, UpsetGrows, ParentsPrecede, Chained
  PROVE  ParentsPrecede' /\ Chained'
<1>1. /\ Intents \subseteq 1 .. Len(log) /\ Len(log) \in Nat /\ Line \subseteq Nat
      /\ \A n \in Intents : log[n].topic \in Topic /\ log[n].parent \in Line
  BY IntentsAre, ConstantsAssumption DEF Line
<1>2. /\ Intents' = Intents
      /\ \A n \in Intents : /\ log'[n].topic = log[n].topic /\ log'[n].given = log[n].given
                            /\ log'[n].parent = log[n].parent
  BY <1>1 DEF Extends
<1>3. ParentsPrecede'
  <2> SUFFICES ASSUME NEW n \in Intents, log[n].parent # 0, "cas" \notin upset'[log[n].topic]
               PROVE  /\ log[n].parent < n
                      /\ log'[log[n].parent].topic = log[n].topic
    BY <1>2 DEF ParentsPrecede
  <2>1. /\ log[n].parent < n /\ log[log[n].parent].topic = log[n].topic
    BY <1>1 DEF ParentsPrecede, UpsetGrows
  <2>2. PICK i : i = log[n].parent
    OBVIOUS
  <2>3. i \in Nat /\ i # 0 /\ i < n /\ n \in 1 .. Len(log)
    BY <1>1, <2>1, <2>2
  <2>4. i \in 1 .. Len(log)
    BY <1>1, <2>3
  <2> QED
    BY <2>1, <2>2, <2>4 DEF Extends
<1>4. Chained'
  <2> SUFFICES ASSUME NEW m \in Intents, NEW n \in Intents, Predecessor(m, n)',
                      ~log[n].given, upset'[log[n].topic] = {}
               PROVE  log[n].parent = m \/ (log[n].parent = 0 /\ log'[m].told # m)
    BY <1>2 DEF Chained
  <2>1. Predecessor(m, n)
    BY <1>2 DEF Predecessor
  <2>2. upset[log[n].topic] = {}
    BY <1>1 DEF UpsetGrows
  <2>3. log'[m].told = log[m].told
    BY <1>1, <2>1 DEF Extends, Predecessor
  <2>4. log[n].parent = m \/ (log[n].parent = 0 /\ log[m].told # m)
    BY <2>1, <2>2 DEF Chained
  <2> QED
    BY <2>3, <2>4
<1> QED
  BY <1>3, <1>4

(* ... the heads while nobody writes them, ...                             *)
LEMMA HeadsKeep ==
  ASSUME TypeOK, TypeOK', Extends, UpsetGrows, heads' = heads, HeadsFit, HeadsKeepUp,
         \A t \in Topic : Submitting(t) => Submitting(t)' \/ upset'[t] # {}
  PROVE  HeadsFit' /\ HeadsKeepUp'
<1>1. HeadsFit'
  <2> SUFFICES ASSUME NEW t \in Topic, Honest(t)' PROVE Fits(heads[t], t)'
    BY DEF HeadsFit
  <2>1. PICK n : n = heads[t]
    OBVIOUS
  <2>2. Fits(n, t)
    BY <2>1 DEF HeadsFit, Honest, UpsetGrows
  <2>3. Fits(n, t)'
    BY <2>2, FitsKeeps
  <2> QED
    BY <2>1, <2>3
<1>2. HeadsKeepUp'
  <2> SUFFICES ASSUME NEW t \in Topic, ~Submitting(t)', upset'[t] = {} PROVE ~Behind(t)'
    BY DEF HeadsKeepUp
  <2>1. ~Behind(t)
    BY DEF HeadsKeepUp, UpsetGrows
  <2> QED
    BY <2>1, LatestKeeps DEF Behind
<1> QED
  BY <1>1, <1>2

(* ... and the counts.                                                     *)
LEMMA CountsKeep ==
  ASSUME CountsOK, TypeOK, Intents' = Intents, Len(log') = Len(log),
         Submitters' \subseteq Submitters
  PROVE  CountsOK'
<1>1. /\ IsFiniteSet(Submitters') /\ Cardinality(Submitters') <= Cardinality(Submitters)
      /\ Cardinality(Submitters') \in Nat /\ Cardinality(Submitters) \in Nat
  BY FS_Subset, FS_CardinalityType DEF CountsOK
<1> QED
  BY <1>1, IntentsAre, ConstantsAssumption DEF CountsOK

-----------------------------------------------------------------------------
(* A step of one call.                                                     *)

(* The invariant, by parts.                                                *)
LEMMA InvParts ==
  ASSUME HeadInv
  PROVE  /\ TypeOK /\ CountsOK /\ HeadsFit /\ HeadsKeepUp /\ ParentsPrecede /\ Chained
         /\ \A p \in Process : task[p] # NoTask => ShapeOK(p) /\ FitsOK(p) /\ FreshOK(p)
         /\ Len(log) \in Nat /\ Line \subseteq Nat /\ 0 .. Len(log) \subseteq Line
<1>1. Cardinality(Submitters) \in Nat
  BY FS_CardinalityType DEF HeadInv, CountsOK
<1>2. PICK i, s, l : /\ i = Cardinality(Intents) /\ s = Cardinality(Submitters) /\ l = Len(log)
                     /\ i \in Nat /\ s \in Nat /\ l \in Nat
  BY <1>1, IntentsAre DEF HeadInv
<1>3. l <= MaxIntents + MaxOthers
  BY <1>2, ConstantsAssumption DEF HeadInv, CountsOK
<1>4. 0 .. l \subseteq Line
  BY <1>2, <1>3, ConstantsAssumption DEF Line
<1> QED
  BY <1>2, <1>4, ConstantsAssumption DEF HeadInv, TaskOK, Line

(* No two calls are under the submit lock.                                 *)
LEMMA Alone ==
  ASSUME HeadInv, NEW p \in Process, NEW q \in Process, task[p] # NoTask, task[q] # NoTask,
         Locked(p), task[p].step # "look", Locked(q), task[q].step # "look"
  PROVE  p = q
BY InvParts DEF ShapeOK

(* A submission that has appended its intent is under it.                  *)
LEMMA SubmittingAlone ==
  ASSUME HeadInv, NEW p \in Process, task[p] # NoTask, Locked(p), task[p].step # "look",
         NEW t, Submitting(t)
  PROVE  task[p].own /\ task[p].op = "submit" /\ task[p].topic = t
<1>1. PICK q \in Process : task[q] # NoTask /\ task[q].own
                            /\ task[q].op = "submit" /\ task[q].topic = t
  BY DEF Submitting
<1>2. Locked(q) /\ task[q].step # "look"
  BY <1>1, InvParts DEF Locked, ShapeOK
<1> QED
  BY <1>1, <1>2, Alone

TaskSet(p, n) ==
  /\ task' \in [Process -> Task \cup {NoTask}] /\ task'[p] = n
  /\ \A q \in Process \ {p} : task'[q] = task[q]

(* Setting a call changes that call only.                                  *)
LEMMA SetDoes ==
  ASSUME TypeOK, NEW p \in Process, NEW n \in Task \cup {NoTask},
         task' = [task EXCEPT ![p] = n]
  PROVE  TaskSet(p, n)
BY DEF TypeOK, TaskSet

(* What a step of p has to see to, when no intent is appended.             *)
LEMMA StepKeeps ==
  ASSUME HeadInv, TypeOK', CountsOK', Extends, UpsetGrows, NEW p \in Process,
         HeadsFit', HeadsKeepUp', TaskOK(p)',
         \A q \in Process \ {p} :
           /\ KeepsTask(q) /\ (guard = q => guard' = q)
           /\ At(q, "count") => log'[task[q].ref].told = log[task[q].ref].told,
         \A t \in Topic : Submitting(t) =>
           \/ Submitting(t)' \/ upset'[t] # {}
           \/ \A q \in Process \ {p} : task'[q] # NoTask /\ task[q].op = "head" =>
                                         t \in task'[q].late
  PROVE  HeadInv'
<1>1. \A q \in Process \ {p} : TaskOK(q)'
  BY TaskKeeps DEF HeadInv
<1>2. ParentsPrecede' /\ Chained'
  BY RecordsKeep DEF HeadInv
<1> QED
  BY <1>1, <1>2 DEF HeadInv

(* What is left when it writes neither the log nor the heads.              *)
LEMMA QuietKeeps ==
  ASSUME HeadInv, NEW p \in Process, NEW n \in Task \cup {NoTask}, TaskSet(p, n),
         log' = log, heads' = heads, UpsetGrows, upset' \in [Topic -> SUBSET Cause],
         moves' \in 0 .. MaxMoves, guard' \in Process \cup {NoProcess},
         \A q \in Process \ {p} : guard = q => guard' = q,
         CountsOK', TaskOK(p)',
         \A t \in Topic : task[p] # NoTask /\ task[p].own /\ task[p].op = "submit"
                          /\ task[p].topic = t =>
           \/ upset'[t] # {}
           \/ n # NoTask /\ n.own /\ n.op = "submit" /\ n.topic = t
  PROVE  HeadInv'
<1>1. TypeOK'
  BY InvParts DEF TypeOK, TaskSet
<1>2. Extends
  BY InvParts, SameLog
<1>3. \A t \in Topic : Submitting(t) => Submitting(t)' \/ upset'[t] # {}
  <2> SUFFICES ASSUME NEW t \in Topic, Submitting(t), upset'[t] = {} PROVE Submitting(t)'
    OBVIOUS
  <2>1. PICK q \in Process : task[q] # NoTask /\ task[q].own
                              /\ task[q].op = "submit" /\ task[q].topic = t
    BY DEF Submitting
  <2>2. task'[q] # NoTask /\ task'[q].own /\ task'[q].op = "submit" /\ task'[q].topic = t
    BY <2>1 DEF TaskSet
  <2> QED
    BY <2>2 DEF Submitting
<1>4. HeadsFit' /\ HeadsKeepUp'
  BY <1>1, <1>2, <1>3, InvParts, HeadsKeep
<1>5. \A q \in Process \ {p} : KeepsTask(q)
  BY DEF TaskSet, KeepsTask
<1> QED
  BY <1>1, <1>2, <1>3, <1>4, <1>5, StepKeeps

(* The counts, when p does not start to submit.                            *)
LEMMA QuietCounts ==
  ASSUME HeadInv, NEW p \in Process, NEW n \in Task \cup {NoTask}, TaskSet(p, n), log' = log,
         n # NoTask /\ n.op = "submit" /\ ~n.own => p \in Submitters
  PROVE  CountsOK'
<1>1. Submitters' \subseteq Submitters
  BY DEF Submitters, TaskSet
<1>2. Intents' = Intents /\ Len(log') = Len(log)
  BY DEF Intents
<1> QED
  BY <1>1, <1>2, InvParts, CountsKeep

-----------------------------------------------------------------------------
(* The steps of the calls.                                                 *)
LEMMA BeginKeeps ==
  ASSUME HeadInv, NEW p \in Process, NEW op \in {"submit", "cas", "head"}, NEW t \in Topic,
         NEW e \in Line \cup {AnyHead}, NEW a \in Nat \ {0}, Begin(p, op, t, e, a),
         moves' \in 0 .. MaxMoves,
         op = "submit" => Cardinality(Intents) + Cardinality(Submitters) < MaxIntents
  PROVE  HeadInv'
<1>1. /\ task[p] = NoTask /\ log' = log /\ heads' = heads /\ guard' = guard /\ upset' = upset
  BY DEF Begin
<1> DEFINE m == [op |-> op, topic |-> t, step |-> "look", expected |-> e,
                 attempts |-> a, found |-> 0, ref |-> 0, image |-> NoHeads,
                 own |-> FALSE, late |-> {}]
<1>2. NoHeads \in Heads /\ \A u \in Topic : NoHeads[u] = 0
  BY ConstantsAssumption DEF NoHeads, Heads, Line
<1>3. /\ m \in Task /\ m.op = op /\ m.topic = t /\ m.step = "look" /\ m.attempts = a
      /\ m.found = 0 /\ m.ref = 0 /\ m.image = NoHeads /\ ~m.own /\ m.late = {}
  BY <1>2, ConstantsAssumption DEF Task, Line
<1>4. task' = [task EXCEPT ![p] = m]
  BY DEF Begin
<1> HIDE DEF m
<1>5. m # NoTask /\ TaskSet(p, m)
  BY <1>3, <1>4, InvParts, SetDoes, NullAssumption
<1>6. TaskOK(p)'
  <2>1. ShapeOK(p)'
    BY <1>3, <1>5 DEF ShapeOK, TaskSet, Locked
  <2>2. FitsOK(p)'
    BY <1>2, <1>3, <1>5 DEF FitsOK, TaskSet, Fits
  <2>3. FreshOK(p)'
    BY <1>3, <1>5 DEF FreshOK, TaskSet
  <2> QED
    BY <2>1, <2>2, <2>3 DEF TaskOK
<1>7. CountsOK'
  <2>1. CASE op # "submit"
    BY <1>1, <1>3, <1>5, <2>1, QuietCounts
  <2>2. CASE op = "submit"
    <3>1. p \notin Submitters /\ Submitters' = Submitters \cup {p}
      BY <1>1, <1>3, <1>5, <2>2 DEF Submitters, TaskSet
    <3>2. IsFiniteSet(Submitters)
      BY InvParts DEF CountsOK
    <3>3. /\ IsFiniteSet(Submitters') /\ Cardinality(Submitters) \in Nat
          /\ Cardinality(Submitters') = Cardinality(Submitters) + 1
      BY <3>1, <3>2, FS_AddElement, FS_CardinalityType
    <3>4. Intents' = Intents /\ Cardinality(Intents) \in Nat /\ Len(log') = Len(log)
      BY <1>1, InvParts, IntentsAre DEF Intents
    <3> QED
      BY <2>2, <3>3, <3>4, InvParts, ConstantsAssumption DEF CountsOK
  <2> QED
    BY <2>1, <2>2
<1>8. UpsetGrows /\ upset' \in [Topic -> SUBSET Cause] /\ guard' \in Process \cup {NoProcess}
  BY <1>1, InvParts DEF UpsetGrows, TypeOK
<1> QED
  BY <1>1, <1>5, <1>6, <1>7, <1>8, <1>3, QuietKeeps

(* Looking for the submit lock keeps the invariant.                        *)
LEMMA LookKeeps ==
  ASSUME HeadInv, NEW p \in Process, Look(p)
  PROVE  HeadInv'
<1>1. PICK c : c = task[p] /\ c # NoTask /\ c.step = "look"
  BY DEF Look, At
<1>2. PICK t : t = c.topic
  OBVIOUS
<1>3. PICK h : h = heads[t]
  OBVIOUS
<1>4. /\ c \in Task /\ t \in Topic /\ h \in Line
      /\ ShapeOK(p) /\ FitsOK(p) /\ ~c.own /\ c.op \in {"submit", "cas", "head"}
  BY <1>1, <1>2, <1>3, InvParts, Fields DEF ShapeOK, TypeOK, Heads
<1>5. /\ log' = log /\ heads' = heads /\ upset' = upset /\ moves' = moves
      /\ IF c.op \in {"submit", "cas"} THEN guard = NoProcess /\ guard' = p
                                       ELSE guard' = guard
  BY <1>1 DEF Look, Locked
<1>6. PICK n \in Task \cup {NoTask} :
        /\ task' = [task EXCEPT ![p] = n]
        /\ n # NoTask =>
             /\ n.op = c.op /\ n.topic = t /\ n.own = c.own /\ n.attempts = c.attempts
             /\ n.ref = c.ref /\ n.image = c.image
             /\ \/ n.step = "find" /\ n.found = c.found
                \/ n.step = "compare" /\ n.found = h /\ h # 0 /\ c.op # "head"
  <2>1. CASE h # 0 /\ c.op = "head"
    BY <1>1, <1>2, <1>3, <2>1 DEF Look, Return
  <2>2. CASE h = 0
    <3> DEFINE m == [c EXCEPT !.step = "find"]
    <3>1. m \in Task /\ task' = [task EXCEPT ![p] = m]
      BY <1>1, <1>2, <1>3, <1>4, <2>2 DEF Look, Task
    <3>2. /\ m.op = c.op /\ m.topic = t /\ m.own = c.own /\ m.attempts = c.attempts
          /\ m.ref = c.ref /\ m.image = c.image /\ m.step = "find" /\ m.found = c.found
      BY <1>2, <1>4 DEF Task
    <3> QED
      BY <3>1, <3>2
  <2>3. CASE h # 0 /\ c.op # "head"
    <3> DEFINE m == [c EXCEPT !.step = "compare", !.found = h]
    <3>1. m \in Task /\ task' = [task EXCEPT ![p] = m]
      BY <1>1, <1>2, <1>3, <1>4, <2>3 DEF Look, Task
    <3>2. /\ m.op = c.op /\ m.topic = t /\ m.own = c.own /\ m.attempts = c.attempts
          /\ m.ref = c.ref /\ m.image = c.image /\ m.step = "compare" /\ m.found = h
      BY <1>2, <1>4 DEF Task
    <3> QED
      BY <2>3, <3>1, <3>2
  <2> QED
    BY <2>1, <2>2, <2>3
<1>7. TaskSet(p, n)
  BY <1>6, InvParts, SetDoes
<1>8. ASSUME n # NoTask PROVE ShapeOK(p)' /\ FitsOK(p)' /\ FreshOK(p)'
  <2>1. Extends /\ TypeOK'
    <3>1. TypeOK'
      BY <1>5, <1>7, InvParts DEF TypeOK, TaskSet
    <3> QED
      BY <1>5, <3>1, InvParts, SameLog
  <2>2. ShapeOK(p)'
    BY <1>1, <1>4, <1>5, <1>6, <1>7, <1>8 DEF ShapeOK, Locked, TaskSet
  <2>3. Honest(t) => Fits(h, t) /\ Fits(n.found, t) /\ Fits(n.ref, t)
    BY <1>1, <1>2, <1>3, <1>4, <1>6, <1>8, InvParts DEF HeadsFit, FitsOK
  <2>4. \A u \in Topic : Honest(u) => Fits(n.image[u], u)
    BY <1>1, <1>4, <1>6, <1>8 DEF FitsOK, OwnCas
  <2>5. FitsOK(p)'
    <3>1. \A u : Honest(u)' <=> Honest(u)
      BY <1>5 DEF Honest
    <3>2. \A u, i : Fits(i, u) => Fits(i, u)'
      BY <2>1, InvParts, FitsKeeps
    <3>3. PICK f, r, i : f = n.found /\ r = n.ref /\ i = n.image
      OBVIOUS
    <3>4. Honest(t)' => Fits(f, t)' /\ Fits(r, t)'
      BY <2>3, <3>1, <3>2, <3>3
    <3>5. \A u \in Topic : Honest(u)' => Fits(i[u], u)'
      BY <2>4, <3>1, <3>2, <3>3
    <3> QED
      BY <1>6, <1>7, <1>8, <3>3, <3>4, <3>5 DEF FitsOK, TaskSet
  <2>6. n.step = "compare" => upset[t] # {} \/ n.found >= Latest(t)
    <3> SUFFICES ASSUME n.step = "compare", upset[t] = {} PROVE h >= Latest(t)
      BY <1>6, <1>8
    <3>1. guard = NoProcess
      BY <1>4, <1>5, <1>6, <1>8
    <3>2. ~Submitting(t)
      <4> SUFFICES ASSUME NEW q \in Process, task[q] # NoTask, task[q].own,
                          task[q].op = "submit"
                   PROVE  FALSE
        BY DEF Submitting
      <4> QED
        BY <3>1, InvParts, ConstantsAssumption DEF ShapeOK, Locked
    <3>3. ~Behind(t)
      BY <1>4, <3>2, InvParts DEF HeadsKeepUp
    <3> QED
      BY <1>3, <1>4, <1>6, <1>8, <3>3, InvParts, LatestIs DEF Behind
  <2>7. FreshOK(p)'
    <3>1. Latest(t)' = Latest(t) /\ upset'[t] = upset[t]
      BY <1>5, <2>1, InvParts, LatestKeeps
    <3> QED
      BY <1>6, <1>7, <1>8, <2>6, <3>1 DEF FreshOK, TaskSet
  <2> QED
    BY <2>2, <2>5, <2>7
<1>9. CountsOK'
  BY <1>1, <1>4, <1>5, <1>6, <1>7, QuietCounts DEF Submitters
<1>10. TaskOK(p)'
  BY <1>7, <1>8 DEF TaskOK, TaskSet
<1>11. /\ UpsetGrows /\ upset' \in [Topic -> SUBSET Cause] /\ guard' \in Process \cup {NoProcess}
       /\ moves' \in 0 .. MaxMoves /\ \A q \in Process \ {p} : guard = q => guard' = q
  BY <1>4, <1>5, InvParts, ConstantsAssumption DEF UpsetGrows, TypeOK
<1> QED
  BY <1>1, <1>4, <1>5, <1>7, <1>9, <1>10, <1>11, QuietKeeps

(* What p has to see to, so that its next state fits the topics.           *)
LEMMA FitsNext ==
  ASSUME TypeOK, TypeOK', Extends, UpsetGrows, NEW p \in Process, NEW n, task'[p] = n,
         n.topic \in Topic,
         Honest(n.topic) => Fits(n.found, n.topic) /\ Fits(n.ref, n.topic),
         \A u \in Topic : Honest(u) /\ ~(n.op = "cas" /\ n.own /\ n.topic = u) =>
                            Fits(n.image[u], u)
  PROVE  FitsOK(p)'
<1>1. \A u \in Topic : Honest(u)' => Honest(u)
  BY DEF Honest, UpsetGrows
<1>2. \A u, i : Fits(i, u) => Fits(i, u)'
  BY FitsKeeps
<1>3. PICK t \in Topic : t = n.topic
  OBVIOUS
<1>4. PICK f, r, i : f = n.found /\ r = n.ref /\ i = n.image
  OBVIOUS
<1>5. Honest(t)' => Fits(f, t)' /\ Fits(r, t)'
  BY <1>1, <1>2, <1>3, <1>4
<1>6. \A u \in Topic : Honest(u)' /\ ~(n.op = "cas" /\ n.own /\ n.topic = u) => Fits(i[u], u)'
  BY <1>1, <1>2, <1>4
<1> QED
  BY <1>3, <1>4, <1>5, <1>6 DEF FitsOK, OwnCas

(* Finding a topic's head in the ledger keeps the invariant.               *)
LEMMA FindKeeps ==
  ASSUME HeadInv, NEW p \in Process, Find(p)
  PROVE  HeadInv'
<1>1. PICK c : c = task[p] /\ c # NoTask /\ c.step = "find"
  BY DEF Find, At
<1>2. PICK t : t = c.topic
  OBVIOUS
<1>3. PICK l : l = Latest(t)
  OBVIOUS
<1>4. /\ c \in Task /\ t \in Topic /\ ShapeOK(p) /\ FitsOK(p) /\ ~c.own
      /\ c.op \in {"submit", "cas", "head"}
  BY <1>1, <1>2, InvParts, Fields DEF ShapeOK
<1>5. l \in Line /\ l \in Nat /\ Fits(l, t)
  <2>1. l \in 0 .. Len(log) /\ Fits(l, t)
    BY <1>3, InvParts, LatestIs DEF Fits
  <2> QED
    BY <2>1, InvParts
<1>6. log' = log /\ heads' = heads /\ upset' = upset /\ moves' = moves /\ guard' = guard
  BY DEF Find
<1>7. PICK n \in Task \cup {NoTask} :
        /\ task' = [task EXCEPT ![p] = n]
        /\ n # NoTask =>
             /\ n.op = c.op /\ n.topic = t /\ n.own = c.own /\ n.attempts = c.attempts
             /\ n.image = c.image
             /\ \/ n.step = "compare" /\ n.found = l /\ n.ref = c.ref /\ c.op # "head"
                \/ n.step = "load" /\ n.found = l /\ n.ref = l
  <2>1. CASE l = 0 /\ c.op = "head"
    BY <1>1, <1>2, <1>3, <2>1 DEF Find, Return
  <2>2. CASE l = 0 /\ c.op # "head"
    <3> DEFINE m == [c EXCEPT !.step = "compare", !.found = 0]
    <3>1. m \in Task /\ task' = [task EXCEPT ![p] = m]
      BY <1>1, <1>2, <1>3, <1>4, <1>5, <2>2 DEF Find, Task
    <3>2. /\ m.op = c.op /\ m.topic = t /\ m.own = c.own /\ m.attempts = c.attempts
          /\ m.ref = c.ref /\ m.image = c.image /\ m.step = "compare" /\ m.found = l
      BY <1>2, <1>4, <2>2 DEF Task
    <3> QED
      BY <2>2, <3>1, <3>2
  <2>3. CASE l # 0
    <3> DEFINE m == [c EXCEPT !.step = "load", !.found = l, !.ref = l]
    <3>1. m \in Task /\ task' = [task EXCEPT ![p] = m]
      BY <1>1, <1>2, <1>3, <1>4, <1>5, <2>3 DEF Find, Task
    <3>2. /\ m.op = c.op /\ m.topic = t /\ m.own = c.own /\ m.attempts = c.attempts
          /\ m.ref = l /\ m.image = c.image /\ m.step = "load" /\ m.found = l
      BY <1>2, <1>4 DEF Task
    <3> QED
      BY <3>1, <3>2
  <2> QED
    BY <2>1, <2>2, <2>3
<1>8. TaskSet(p, n)
  BY <1>7, InvParts, SetDoes
<1>9. TypeOK' /\ Extends /\ UpsetGrows
  <2>1. TypeOK'
    BY <1>6, <1>8, InvParts DEF TypeOK, TaskSet
  <2> QED
    BY <1>6, <2>1, InvParts, SameLog DEF UpsetGrows
<1>10. ASSUME n # NoTask PROVE ShapeOK(p)' /\ FitsOK(p)' /\ FreshOK(p)'
  <2>1. ShapeOK(p)'
    BY <1>1, <1>4, <1>6, <1>7, <1>8, <1>10 DEF ShapeOK, Locked, TaskSet
  <2>2. Honest(t) => Fits(n.found, t) /\ Fits(n.ref, t)
    BY <1>1, <1>2, <1>4, <1>5, <1>7, <1>10 DEF FitsOK
  <2>3. \A u \in Topic : Honest(u) => Fits(n.image[u], u)
    BY <1>1, <1>4, <1>7, <1>10 DEF FitsOK, OwnCas
  <2>4. FitsOK(p)'
    BY <1>4, <1>7, <1>8, <1>9, <1>10, <2>2, <2>3, InvParts, FitsNext DEF TaskSet
  <2>5. Latest(t)' = l
    BY <1>3, <1>9, InvParts, LatestKeeps
  <2>6. FreshOK(p)'
    BY <1>5, <1>7, <1>8, <1>10, <2>5 DEF FreshOK, TaskSet
  <2> QED
    BY <2>1, <2>4, <2>6
<1>11. CountsOK'
  BY <1>1, <1>4, <1>6, <1>7, <1>8, QuietCounts DEF Submitters
<1>12. TaskOK(p)'
  BY <1>8, <1>10 DEF TaskOK, TaskSet
<1>13. /\ upset' \in [Topic -> SUBSET Cause] /\ guard' \in Process \cup {NoProcess}
       /\ moves' \in 0 .. MaxMoves
  BY <1>6, InvParts DEF TypeOK
<1> QED
  BY <1>1, <1>4, <1>6, <1>8, <1>9, <1>11, <1>12, <1>13, QuietKeeps

(* Loading the heads file keeps the invariant.                             *)
LEMMA LoadKeeps ==
  ASSUME HeadInv, NEW p \in Process, Load(p)
  PROVE  HeadInv'
<1>1. PICK c : c = task[p] /\ c # NoTask /\ c.step = "load"
  BY DEF Load, At
<1>2. PICK t : t = c.topic
  OBVIOUS
<1>3. /\ c \in Task /\ t \in Topic /\ ShapeOK(p) /\ FitsOK(p) /\ FreshOK(p)
      /\ c.op \in {"submit", "cas", "head"} /\ c.ref \in Line
  BY <1>1, <1>2, InvParts, Fields
<1>4. log' = log /\ heads' = heads /\ upset' = upset /\ moves' = moves /\ guard' = guard
  BY DEF Load
<1>5. PICK i \in Heads : i = [heads EXCEPT ![t] = c.ref] /\ i[t] = c.ref
                         /\ \A u \in Topic : u # t => i[u] = heads[u]
  <2>1. heads \in [Topic -> Line]
    BY InvParts DEF TypeOK, Heads
  <2>2. [heads EXCEPT ![t] = c.ref] \in [Topic -> Line]
    BY <1>3, <2>1
  <2>3. PICK i : i = [heads EXCEPT ![t] = c.ref]
    OBVIOUS
  <2>4. i[t] = c.ref /\ \A u \in Topic : u # t => i[u] = heads[u]
    BY <1>3, <2>1, <2>3
  <2> QED
    BY <2>2, <2>3, <2>4 DEF Heads
<1> DEFINE m == [c EXCEPT !.step = "truncate", !.image = i]
<1>6. m \in Task /\ task' = [task EXCEPT ![p] = m]
  BY <1>1, <1>2, <1>3, <1>5 DEF Load, Task
<1>7. /\ m.op = c.op /\ m.topic = t /\ m.own = c.own /\ m.attempts = c.attempts
      /\ m.ref = c.ref /\ m.image = i /\ m.step = "truncate" /\ m.found = c.found
      /\ m.late = c.late
  BY <1>2, <1>3, <1>5 DEF Task
<1> HIDE DEF m
<1>8. TaskSet(p, m) /\ m # NoTask
  BY <1>6, InvParts, SetDoes, NullAssumption
<1>9. TypeOK' /\ Extends /\ UpsetGrows
  <2>1. TypeOK'
    BY <1>4, <1>6, <1>8, InvParts DEF TypeOK, TaskSet
  <2> QED
    BY <1>4, <2>1, InvParts, SameLog DEF UpsetGrows
<1>10. ShapeOK(p)'
  BY <1>1, <1>3, <1>4, <1>7, <1>8 DEF ShapeOK, Locked, TaskSet
<1>11. FitsOK(p)'
  <2>1. Honest(t) => Fits(m.found, t) /\ Fits(m.ref, t)
    BY <1>1, <1>2, <1>3, <1>7 DEF FitsOK
  <2>2. ASSUME NEW u \in Topic, Honest(u) PROVE Fits(m.image[u], u)
    <3>1. CASE u = t
      BY <1>5, <1>7, <2>1, <2>2, <3>1
    <3>2. CASE u # t
      BY <1>5, <1>7, <2>2, <3>2, InvParts DEF HeadsFit
    <3> QED
      BY <3>1, <3>2
  <2> QED
    BY <1>3, <1>7, <1>8, <1>9, <2>1, <2>2, InvParts, FitsNext DEF TaskSet
<1>12. FreshOK(p)'
  <2>1. \A u : Latest(u)' = Latest(u)
    BY <1>9, InvParts, LatestKeeps
  <2>2. \A u : Submitting(u) => Submitting(u)'
    BY <1>1, <1>2, <1>7, <1>8 DEF Submitting, TaskSet
  <2>3. \A u \in Topic : Excused(p, u) => Excused(p, u)'
    BY <1>1, <1>4, <1>7, <1>8, <2>2 DEF Excused, TaskSet
  <2>4. c.op # "head" /\ ~c.own => upset[t] # {} \/ c.found >= Latest(t)
    BY <1>1, <1>2, <1>3 DEF FreshOK
  <2>5. ASSUME NEW u \in Topic, ~Excused(p, u) PROVE i[u] = 0 \/ i[u] >= Latest(u)
    <3>1. CASE u = t
      BY <1>1, <1>2, <1>3, <1>5, <2>5, <3>1 DEF FreshOK
    <3>2. CASE u # t
      <4>1. ~Submitting(u)
        BY <1>1, <1>2, <1>3, <2>5, <3>2, SubmittingAlone DEF Excused, Locked
      <4>2. ~Behind(u)
        BY <2>5, <4>1, InvParts DEF HeadsKeepUp, Excused
      <4>3. heads[u] \in Nat /\ Latest(u) \in Nat
        BY InvParts, LatestIs DEF TypeOK, Heads
      <4> QED
        BY <1>5, <3>2, <4>2, <4>3 DEF Behind
    <3> QED
      BY <3>1, <3>2
  <2> QED
    BY <1>4, <1>7, <1>8, <2>1, <2>3, <2>4, <2>5 DEF FreshOK, TaskSet
<1>13. CountsOK'
  BY <1>1, <1>4, <1>6, <1>7, <1>8, QuietCounts DEF Submitters
<1>14. TaskOK(p)'
  BY <1>10, <1>11, <1>12 DEF TaskOK
<1>15. /\ upset' \in [Topic -> SUBSET Cause] /\ guard' \in Process \cup {NoProcess}
       /\ moves' \in 0 .. MaxMoves
  BY <1>4, InvParts DEF TypeOK
<1> QED
  BY <1>1, <1>2, <1>4, <1>6, <1>7, <1>8, <1>9, <1>13, <1>14, <1>15, QuietKeeps

(* The call is over, or looks again without the lock.                      *)
LEMMA CompareFailsKeeps ==
  ASSUME HeadInv, NEW p \in Process, CompareFails(p)
  PROVE  HeadInv'
<1>1. PICK c : c = task[p] /\ c # NoTask /\ c.step = "compare"
  BY DEF CompareFails, At
<1>2. /\ c \in Task /\ c.topic \in Topic /\ ShapeOK(p) /\ FitsOK(p) /\ ~c.own /\ c.attempts # 0
      /\ c.op \in {"submit", "cas", "head"} /\ c.attempts \in Nat
      /\ c.found \in Line
  BY <1>1, InvParts, Fields DEF ShapeOK
<1>3. /\ log' = log /\ heads' = heads /\ upset' = upset /\ moves' = moves
      /\ guard' = IF guard = p THEN NoProcess ELSE guard
  BY DEF CompareFails, Release
<1>4. PICK n \in Task \cup {NoTask} :
        /\ task' = [task EXCEPT ![p] = n]
        /\ n # NoTask =>
             /\ n.op = c.op /\ n.topic = c.topic /\ n.own = c.own /\ n.attempts # 0
             /\ n.ref = c.ref /\ n.image = c.image /\ n.step = "look" /\ n.found = c.found
  <2>1. CASE c.attempts = 1
    BY <1>1, <2>1 DEF CompareFails
  <2>2. CASE c.attempts # 1
    <3>1. PICK e \in Line \cup {AnyHead} :
            e = IF c.op = "submit" /\ c.found = 0 THEN AnyHead ELSE c.found
      BY <1>2
    <3>2. PICK a \in Nat : a = c.attempts - 1 /\ a # 0
      BY <1>2, <2>2
    <3> DEFINE m == [c EXCEPT !.step = "look", !.attempts = a, !.expected = e]
    <3>3. m \in Task /\ task' = [task EXCEPT ![p] = m]
      BY <1>1, <1>2, <2>2, <3>1, <3>2 DEF CompareFails, Task
    <3>4. /\ m.op = c.op /\ m.topic = c.topic /\ m.own = c.own /\ m.attempts = a
          /\ m.ref = c.ref /\ m.image = c.image /\ m.step = "look" /\ m.found = c.found
      BY <1>2 DEF Task
    <3> QED
      BY <3>2, <3>3, <3>4
  <2> QED
    BY <2>1, <2>2
<1>5. TaskSet(p, n)
  BY <1>4, InvParts, SetDoes
<1>6. guard' \in Process \cup {NoProcess}
  BY <1>3, InvParts DEF TypeOK
<1>7. TypeOK' /\ Extends /\ UpsetGrows
  <2>1. TypeOK'
    BY <1>3, <1>5, <1>6, InvParts DEF TypeOK, TaskSet
  <2> QED
    BY <1>3, <2>1, InvParts, SameLog DEF UpsetGrows
<1>8. ASSUME n # NoTask PROVE ShapeOK(p)' /\ FitsOK(p)' /\ FreshOK(p)'
  <2>1. ShapeOK(p)'
    BY <1>1, <1>2, <1>4, <1>5, <1>8 DEF ShapeOK, Locked, TaskSet
  <2>2. Honest(c.topic) => Fits(n.found, n.topic) /\ Fits(n.ref, n.topic)
    BY <1>1, <1>2, <1>4, <1>8 DEF FitsOK
  <2>3. \A u \in Topic : Honest(u) => Fits(n.image[u], u)
    BY <1>1, <1>2, <1>4, <1>8 DEF FitsOK, OwnCas
  <2>4. FitsOK(p)'
    BY <1>2, <1>4, <1>5, <1>7, <1>8, <2>2, <2>3, InvParts, FitsNext DEF TaskSet
  <2>5. FreshOK(p)'
    BY <1>4, <1>5, <1>8 DEF FreshOK, TaskSet
  <2> QED
    BY <2>1, <2>4, <2>5
<1>9. CountsOK'
  BY <1>1, <1>2, <1>3, <1>4, <1>5, QuietCounts DEF Submitters
<1>10. TaskOK(p)'
  BY <1>5, <1>8 DEF TaskOK, TaskSet
<1>11. /\ upset' \in [Topic -> SUBSET Cause] /\ moves' \in 0 .. MaxMoves
       /\ \A q \in Process \ {p} : guard = q => guard' = q
  BY <1>3, InvParts DEF TypeOK
<1> QED
  BY <1>1, <1>2, <1>3, <1>5, <1>6, <1>7, <1>9, <1>10, <1>11, QuietKeeps

(* The load of a compare-and-set keeps the invariant.                      *)
LEMMA CasLoadKeeps ==
  ASSUME HeadInv, NEW p \in Process, NEW new \in 0 .. Len(log), CasLoad(p, new)
  PROVE  HeadInv'
<1>1. PICK c : c = task[p] /\ c # NoTask /\ c.step = "compare" /\ c.op = "cas"
  BY DEF CasLoad, At
<1>2. PICK t : t = c.topic
  OBVIOUS
<1>3. c \in Task /\ t \in Topic /\ ShapeOK(p) /\ FitsOK(p) /\ ~c.own
  BY <1>1, <1>2, InvParts, Fields DEF ShapeOK
<1>4. log' = log /\ heads' = heads /\ upset' = upset /\ moves' = moves /\ guard' = guard
  BY DEF CasLoad
<1>5. PICK i \in Heads : i = [heads EXCEPT ![t] = new]
                         /\ \A u \in Topic : u # t => i[u] = heads[u]
  <2>1. heads \in [Topic -> Line] /\ new \in Line
    BY InvParts DEF TypeOK, Heads
  <2>2. [heads EXCEPT ![t] = new] \in [Topic -> Line]
    BY <1>3, <2>1
  <2>3. PICK i : i = [heads EXCEPT ![t] = new]
    OBVIOUS
  <2>4. \A u \in Topic : u # t => i[u] = heads[u]
    BY <1>3, <2>1, <2>3
  <2> QED
    BY <2>2, <2>3, <2>4 DEF Heads
<1> DEFINE m == [c EXCEPT !.step = "truncate", !.expected = AnyHead, !.attempts = 1,
                          !.own = TRUE, !.image = i]
<1>6. m \in Task /\ task' = [task EXCEPT ![p] = m]
  BY <1>1, <1>2, <1>3, <1>5 DEF CasLoad, Task
<1>7. /\ m.op = "cas" /\ m.topic = t /\ m.own /\ m.attempts = 1 /\ m.ref = c.ref
      /\ m.image = i /\ m.step = "truncate" /\ m.found = c.found
  BY <1>1, <1>2, <1>3, <1>5 DEF Task
<1> HIDE DEF m
<1>8. TaskSet(p, m) /\ m # NoTask
  BY <1>6, InvParts, SetDoes, NullAssumption
<1>9. TypeOK' /\ Extends /\ UpsetGrows
  <2>1. TypeOK'
    BY <1>4, <1>6, <1>8, InvParts DEF TypeOK, TaskSet
  <2> QED
    BY <1>4, <2>1, InvParts, SameLog DEF UpsetGrows
<1>10. ShapeOK(p)'
  BY <1>1, <1>3, <1>4, <1>7, <1>8 DEF ShapeOK, Locked, TaskSet
<1>11. FitsOK(p)'
  <2>1. Honest(t) => Fits(m.found, t) /\ Fits(m.ref, t)
    BY <1>1, <1>2, <1>3, <1>7 DEF FitsOK
  <2>2. \A u \in Topic : Honest(u) /\ u # t => Fits(m.image[u], u)
    BY <1>5, <1>7, InvParts DEF HeadsFit
  <2> QED
    BY <1>3, <1>7, <1>8, <1>9, <2>1, <2>2, InvParts, FitsNext DEF TaskSet
<1>12. FreshOK(p)'
  <2>1. \A u : Latest(u)' = Latest(u)
    BY <1>9, InvParts, LatestKeeps
  <2>2. ASSUME NEW u \in Topic, u # t PROVE upset[u] # {} \/ i[u] = 0 \/ i[u] >= Latest(u)
    <3>1. ~Submitting(u)
      BY <1>1, <1>3, SubmittingAlone DEF Locked
    <3>2. upset[u] # {} \/ ~Behind(u)
      BY <3>1, InvParts DEF HeadsKeepUp
    <3>3. heads[u] \in Nat /\ Latest(u) \in Nat
      BY InvParts, LatestIs DEF TypeOK, Heads
    <3> QED
      BY <1>5, <2>2, <3>2, <3>3 DEF Behind
  <2>3. \A u \in Topic : u = t => OwnCas(p, u)'
    BY <1>7, <1>8 DEF OwnCas, TaskSet
  <2>4. \A u \in Topic : upset[u] # {} => Excused(p, u)'
    BY <1>4 DEF Excused
  <2> QED
    BY <1>7, <1>8, <2>1, <2>2, <2>3, <2>4 DEF FreshOK, TaskSet
<1>13. CountsOK'
  BY <1>1, <1>3, <1>4, <1>6, <1>7, <1>8, QuietCounts DEF Submitters
<1>14. TaskOK(p)'
  BY <1>10, <1>11, <1>12 DEF TaskOK
<1>15. /\ upset' \in [Topic -> SUBSET Cause] /\ guard' \in Process \cup {NoProcess}
       /\ moves' \in 0 .. MaxMoves
  BY <1>4, InvParts DEF TypeOK
<1> QED
  BY <1>1, <1>3, <1>4, <1>6, <1>8, <1>9, <1>13, <1>14, <1>15, QuietKeeps

(* A process that dies keeps the invariant.                                *)
LEMMA CrashKeeps ==
  ASSUME HeadInv, NEW p \in Process, Crash(p)
  PROVE  HeadInv'
<1>1. PICK c : c = task[p] /\ c # NoTask /\ c \in Task /\ c.topic \in Topic
  BY InvParts, Fields DEF Crash
<1>2. /\ log' = log /\ heads' = heads /\ moves' = moves + 1 /\ moves < MaxMoves
      /\ guard' = IF guard = p THEN NoProcess ELSE guard
      /\ task' = [task EXCEPT ![p] = NoTask]
      /\ upset' = IF c.op = "submit" /\ c.own
                  THEN [upset EXCEPT ![c.topic] = @ \cup {"crash"}] ELSE upset
  BY <1>1 DEF Crash, Return, Release
<1>3. PICK n \in Task \cup {NoTask} : n = NoTask
  OBVIOUS
<1>4. TaskSet(p, n)
  BY <1>2, <1>3, InvParts, SetDoes
<1>5. /\ upset' \in [Topic -> SUBSET Cause] /\ UpsetGrows
      /\ c.op = "submit" /\ c.own => upset'[c.topic] # {}
  <2>1. upset \in [Topic -> SUBSET Cause]
    BY InvParts DEF TypeOK
  <2> QED
    BY <1>1, <1>2, <2>1 DEF UpsetGrows, Cause
<1>6. CountsOK'
  BY <1>2, <1>3, <1>4, QuietCounts
<1>7. TaskOK(p)'
  BY <1>3, <1>4 DEF TaskOK, TaskSet
<1>8. /\ guard' \in Process \cup {NoProcess} /\ moves' \in 0 .. MaxMoves
      /\ \A q \in Process \ {p} : guard = q => guard' = q
  BY <1>2, InvParts, ConstantsAssumption DEF TypeOK
<1> QED
  BY <1>1, <1>2, <1>4, <1>5, <1>6, <1>7, <1>8, QuietKeeps

-----------------------------------------------------------------------------
(* The steps that write the heads file.                                    *)
LEMMA TruncateKeeps ==
  ASSUME HeadInv, NEW p \in Process, Truncate(p)
  PROVE  HeadInv'
<1>1. PICK c : c = task[p] /\ c # NoTask /\ c.step = "truncate"
  BY DEF Truncate, At
<1>2. PICK t : t = c.topic
  OBVIOUS
<1>3. c \in Task /\ t \in Topic /\ ShapeOK(p) /\ FitsOK(p) /\ FreshOK(p)
  BY <1>1, <1>2, InvParts, Fields
<1>4. /\ log' = log /\ heads' = NoHeads /\ upset' = upset /\ moves' = moves
      /\ guard' = guard /\ task' = [task EXCEPT ![p].step = "write"]
  BY DEF Truncate
<1> DEFINE m == [c EXCEPT !.step = "write"]
<1>5. m \in Task /\ task' = [task EXCEPT ![p] = m]
  BY <1>1, <1>3, <1>4, InvParts DEF TypeOK, Task
<1>6. /\ m.op = c.op /\ m.topic = t /\ m.own = c.own /\ m.attempts = c.attempts
      /\ m.ref = c.ref /\ m.image = c.image /\ m.step = "write" /\ m.found = c.found
      /\ m.late = c.late
  BY <1>2, <1>3 DEF Task
<1> HIDE DEF m
<1>7. TaskSet(p, m) /\ m # NoTask
  BY <1>5, InvParts, SetDoes, NullAssumption
<1>8. NoHeads \in Heads /\ \A u \in Topic : NoHeads[u] = 0
  BY ConstantsAssumption DEF NoHeads, Heads, Line
<1>9. TypeOK' /\ Extends /\ UpsetGrows
  <2>1. TypeOK'
    BY <1>4, <1>5, <1>7, <1>8, InvParts DEF TypeOK, TaskSet
  <2> QED
    BY <1>4, <2>1, InvParts, SameLog DEF UpsetGrows
<1>10. ShapeOK(p)'
  BY <1>1, <1>3, <1>4, <1>6, <1>7 DEF ShapeOK, Locked, TaskSet
<1>11. FitsOK(p)'
  <2>1. Honest(t) => Fits(m.found, t) /\ Fits(m.ref, t)
    BY <1>1, <1>2, <1>3, <1>6 DEF FitsOK
  <2>2. \A u \in Topic : Honest(u) /\ ~(m.op = "cas" /\ m.own /\ m.topic = u) =>
                           Fits(m.image[u], u)
    BY <1>1, <1>2, <1>3, <1>6 DEF FitsOK, OwnCas
  <2> QED
    BY <1>3, <1>6, <1>7, <1>9, <2>1, <2>2, InvParts, FitsNext DEF TaskSet
<1>12. \A u : Submitting(u) => Submitting(u)'
  BY <1>1, <1>2, <1>6, <1>7 DEF Submitting, TaskSet
<1>13. FreshOK(p)'
  <2>1. \A u : Latest(u)' = Latest(u)
    BY <1>9, InvParts, LatestKeeps
  <2>2. \A u \in Topic : Excused(p, u) \/ OwnCas(p, u) => Excused(p, u)' \/ OwnCas(p, u)'
    BY <1>1, <1>2, <1>4, <1>6, <1>7, <1>12 DEF Excused, OwnCas, TaskSet
  <2>3. c.op # "head" /\ ~c.own => upset[t] # {} \/ c.found >= Latest(t)
    BY <1>1, <1>2, <1>3 DEF FreshOK
  <2>4. \A u \in Topic : OwnCas(p, u) \/ Excused(p, u) \/ c.image[u] = 0
                         \/ c.image[u] >= Latest(u)
    BY <1>1, <1>3 DEF FreshOK
  <2> QED
    BY <1>4, <1>6, <1>7, <2>1, <2>2, <2>3, <2>4 DEF FreshOK, TaskSet
<1>14. CountsOK'
  BY <1>1, <1>4, <1>5, <1>6, <1>7, QuietCounts DEF Submitters
<1>15. TaskOK(p)'
  BY <1>10, <1>11, <1>13 DEF TaskOK
<1>16. HeadsFit' /\ HeadsKeepUp'
  BY <1>4, <1>8 DEF HeadsFit, HeadsKeepUp, Fits, Behind
<1>17. \A q \in Process \ {p} : KeepsTask(q)
  BY <1>7 DEF TaskSet, KeepsTask
<1> QED
  BY <1>4, <1>9, <1>12, <1>14, <1>15, <1>16, <1>17, StepKeeps

(* The heads are those of the image of p.                                  *)
LEMMA WritesImage ==
  ASSUME HeadInv, NEW p \in Process, task[p] # NoTask, task[p].step = "write",
         TypeOK', log' = log, heads' = task[p].image, UpsetGrows,
         \A t \in Topic : OwnCas(p, t) => "cas" \in upset'[t],
         \A t \in Topic : Excused(p, t) => upset'[t] # {} \/ Submitting(t)'
  PROVE  HeadsFit' /\ HeadsKeepUp'
<1>1. PICK i : i = task[p].image
  OBVIOUS
<1>2. FitsOK(p) /\ FreshOK(p) /\ Extends
  BY InvParts, SameLog
<1>3. HeadsFit'
  <2> SUFFICES ASSUME NEW t \in Topic, Honest(t)' PROVE Fits(i[t], t)'
    BY <1>1 DEF HeadsFit
  <2>1. PICK n : n = i[t]
    OBVIOUS
  <2>2. Fits(n, t)
    BY <1>1, <1>2, <2>1 DEF FitsOK, Honest, UpsetGrows
  <2>3. Fits(n, t)'
    BY <1>2, <2>2, InvParts, FitsKeeps
  <2> QED
    BY <2>1, <2>3
<1>4. HeadsKeepUp'
  <2> SUFFICES ASSUME NEW t \in Topic, ~Submitting(t)', upset'[t] = {} PROVE ~Behind(t)'
    BY DEF HeadsKeepUp
  <2>1. i[t] = 0 \/ i[t] >= Latest(t)
    BY <1>1, <1>2 DEF FreshOK
  <2>2. i[t] \in Nat /\ Latest(t) \in Nat
    BY <1>1, InvParts, Fields, LatestIs DEF Heads
  <2>3. Latest(t)' = Latest(t)
    BY <1>2, InvParts, LatestKeeps
  <2> QED
    BY <1>1, <2>1, <2>2, <2>3 DEF Behind
<1> QED
  BY <1>3, <1>4

(* Writing back a head that was found keeps the invariant.                 *)
LEMMA WriteFoundKeeps ==
  ASSUME HeadInv, NEW p \in Process, WriteFound(p)
  PROVE  HeadInv'
<1>1. PICK c : c = task[p] /\ c # NoTask /\ c.step = "write" /\ ~c.own
  BY DEF WriteFound, At
<1>2. PICK t : t = c.topic
  OBVIOUS
<1>3. /\ c \in Task /\ t \in Topic /\ ShapeOK(p) /\ FitsOK(p) /\ FreshOK(p)
      /\ c.image \in Heads /\ c.late \subseteq Topic
  BY <1>1, <1>2, InvParts, Fields
<1>4. /\ log' = log /\ heads' = c.image /\ moves' = moves /\ guard' = guard
      /\ upset' = [u \in Topic |-> IF u \in c.late THEN upset[u] \cup {"reader"} ELSE upset[u]]
  BY <1>1 DEF WriteFound
<1>5. PICK n \in Task \cup {NoTask} :
        /\ task' = [task EXCEPT ![p] = n]
        /\ n # NoTask =>
             /\ n.op = c.op /\ n.topic = t /\ n.own = c.own /\ n.attempts = c.attempts
             /\ n.ref = c.ref /\ n.image = c.image /\ n.step = "compare" /\ n.found = c.found
             /\ c.op # "head"
  <2>1. CASE c.op = "head"
    BY <1>1, <2>1 DEF WriteFound, Return
  <2>2. CASE c.op # "head"
    <3> DEFINE m == [c EXCEPT !.step = "compare"]
    <3>1. m \in Task /\ task' = [task EXCEPT ![p] = m]
      BY <1>1, <1>3, <2>2, InvParts DEF WriteFound, TypeOK, Task
    <3>2. /\ m.op = c.op /\ m.topic = t /\ m.own = c.own /\ m.attempts = c.attempts
          /\ m.ref = c.ref /\ m.image = c.image /\ m.step = "compare" /\ m.found = c.found
      BY <1>2, <1>3 DEF Task
    <3> QED
      BY <2>2, <3>1, <3>2
  <2> QED
    BY <2>1, <2>2
<1>6. TaskSet(p, n)
  BY <1>5, InvParts, SetDoes
<1>7. /\ upset' \in [Topic -> SUBSET Cause] /\ UpsetGrows
      /\ \A u \in Topic : u \in c.late => upset'[u] # {}
  <2>1. upset \in [Topic -> SUBSET Cause]
    BY InvParts DEF TypeOK
  <2> QED
    BY <1>4, <2>1 DEF UpsetGrows, Cause
<1>8. TypeOK' /\ Extends
  <2>1. TypeOK'
    BY <1>3, <1>4, <1>6, <1>7, InvParts DEF TypeOK, TaskSet
  <2> QED
    BY <1>4, <2>1, InvParts, SameLog
<1>9. ASSUME n # NoTask PROVE ShapeOK(p)' /\ FitsOK(p)' /\ FreshOK(p)'
  <2>1. ShapeOK(p)'
    BY <1>1, <1>3, <1>4, <1>5, <1>6, <1>9 DEF ShapeOK, Locked, TaskSet
  <2>2. Honest(t) => Fits(n.found, t) /\ Fits(n.ref, t)
    BY <1>1, <1>2, <1>3, <1>5, <1>9 DEF FitsOK
  <2>3. \A u \in Topic : Honest(u) => Fits(n.image[u], u)
    BY <1>1, <1>3, <1>5, <1>9 DEF FitsOK, OwnCas
  <2>4. FitsOK(p)'
    BY <1>3, <1>5, <1>6, <1>7, <1>8, <1>9, <2>2, <2>3, InvParts, FitsNext DEF TaskSet
  <2>5. FreshOK(p)'
    <3>1. Latest(t)' = Latest(t)
      BY <1>8, InvParts, LatestKeeps
    <3>2. upset[t] # {} \/ c.found >= Latest(t)
      BY <1>1, <1>2, <1>3, <1>5, <1>9 DEF FreshOK
    <3> QED
      BY <1>3, <1>5, <1>6, <1>7, <1>9, <3>1, <3>2 DEF FreshOK, TaskSet, UpsetGrows
  <2> QED
    BY <2>1, <2>4, <2>5
<1>10. TaskOK(p)'
  BY <1>6, <1>9 DEF TaskOK, TaskSet
<1>11. CountsOK'
  <2>1. n # NoTask /\ n.op = "submit" /\ ~n.own => p \in Submitters
    BY <1>1, <1>5 DEF Submitters
  <2> QED
    BY <1>4, <1>6, <2>1, QuietCounts
<1>12. \A u : Submitting(u) => Submitting(u)'
  BY <1>1, <1>6 DEF Submitting, TaskSet
<1>13. HeadsFit' /\ HeadsKeepUp'
  <2>1. \A u \in Topic : Excused(p, u) => upset'[u] # {} \/ Submitting(u)'
    BY <1>1, <1>7, <1>12 DEF Excused, UpsetGrows
  <2>2. \A u \in Topic : ~OwnCas(p, u)
    BY <1>1 DEF OwnCas
  <2> QED
    BY <1>1, <1>4, <1>7, <1>8, <2>1, <2>2, WritesImage
<1>14. \A q \in Process \ {p} : KeepsTask(q)
  BY <1>6 DEF TaskSet, KeepsTask
<1> QED
  BY <1>4, <1>7, <1>8, <1>10, <1>11, <1>12, <1>13, <1>14, StepKeeps

(* Writing the head of one's own intent keeps the invariant.               *)
LEMMA WriteOwnKeeps ==
  ASSUME HeadInv, NEW p \in Process, WriteOwn(p)
  PROVE  HeadInv'
<1>1. PICK c : c = task[p] /\ c # NoTask /\ c.step = "write" /\ c.own
  BY DEF WriteOwn, At
<1>2. PICK t : t = c.topic
  OBVIOUS
<1>3. /\ c \in Task /\ t \in Topic /\ ShapeOK(p) /\ c.image \in Heads
      /\ c.op \in {"submit", "cas"} /\ Locked(p)
  BY <1>1, <1>2, InvParts, Fields DEF ShapeOK, Locked
<1>4. /\ log' = log /\ heads' = c.image /\ moves' = moves
      /\ guard' = IF guard = p THEN NoProcess ELSE guard
      /\ upset' = IF c.op = "cas" THEN [upset EXCEPT ![t] = @ \cup {"cas"}] ELSE upset
      /\ task' = [q \in Process |->
           IF q = p \/ task[q] = NoTask THEN NoTask
           ELSE IF task[q].op = "head" THEN [task[q] EXCEPT !.late = @ \cup {t}]
           ELSE task[q]]
  BY <1>1, <1>2 DEF WriteOwn, Release
<1>5. ASSUME NEW q \in Process
      PROVE  /\ task'[q] \in Task \cup {NoTask} /\ KeepsTask(q)
             /\ q = p => task'[q] = NoTask
             /\ task'[q] # NoTask /\ task[q].op = "head" => t \in task'[q].late
  <2>1. CASE q = p \/ task[q] = NoTask
    BY <1>4, <2>1 DEF KeepsTask
  <2>2. CASE q # p /\ task[q] # NoTask /\ task[q].op = "head"
    <3>1. PICK d \in Task : d = task[q]
      BY <2>2, InvParts, Fields
    <3> DEFINE m == [d EXCEPT !.late = @ \cup {t}]
    <3>2. task'[q] = m
      BY <1>4, <2>2, <3>1
    <3>3. m \in Task
      BY <1>3, <3>1 DEF Task
    <3>4. /\ m.op = d.op /\ m.topic = d.topic /\ m.step = d.step /\ m.attempts = d.attempts
          /\ m.found = d.found /\ m.ref = d.ref /\ m.image = d.image /\ m.own = d.own
          /\ m.late = d.late \cup {t}
      BY <3>1 DEF Task
    <3> HIDE DEF m
    <3> QED
      BY <2>2, <3>1, <3>2, <3>3, <3>4 DEF KeepsTask
  <2>3. CASE q # p /\ task[q] # NoTask /\ task[q].op # "head"
    <3>1. task'[q] = task[q] /\ task[q] \in Task
      BY <1>4, <2>3, InvParts, Fields
    <3> QED
      BY <2>3, <3>1 DEF KeepsTask
  <2> QED
    BY <2>1, <2>2, <2>3
<1>6. /\ upset' \in [Topic -> SUBSET Cause] /\ UpsetGrows
      /\ c.op = "cas" => "cas" \in upset'[t]
  <2>1. upset \in [Topic -> SUBSET Cause]
    BY InvParts DEF TypeOK
  <2> QED
    BY <1>3, <1>4, <2>1 DEF UpsetGrows, Cause
<1>7. TypeOK' /\ Extends
  <2>1. task' \in [Process -> Task \cup {NoTask}]
    BY <1>4, <1>5
  <2>2. guard' \in Process \cup {NoProcess}
    BY <1>4, InvParts DEF TypeOK
  <2>3. TypeOK'
    BY <1>3, <1>4, <1>6, <2>1, <2>2, InvParts DEF TypeOK
  <2> QED
    BY <1>4, <2>3, InvParts, SameLog
<1>8. CountsOK'
  <2>1. Submitters' \subseteq Submitters
    BY <1>5 DEF Submitters, KeepsTask
  <2>2. Intents' = Intents /\ Len(log') = Len(log)
    BY <1>4 DEF Intents
  <2> QED
    BY <2>1, <2>2, InvParts, CountsKeep
<1>9. TaskOK(p)'
  BY <1>5 DEF TaskOK
<1>10. \A u : Submitting(u) => u = t
  BY <1>1, <1>2, <1>3, SubmittingAlone
<1>11. HeadsFit' /\ HeadsKeepUp'
  <2>1. \A u \in Topic : Excused(p, u) => upset'[u] # {}
    BY <1>1, <1>3, <1>6 DEF Excused, UpsetGrows
  <2>2. \A u \in Topic : OwnCas(p, u) => "cas" \in upset'[u]
    BY <1>1, <1>2, <1>6 DEF OwnCas
  <2> QED
    BY <1>1, <1>4, <1>6, <1>7, <2>1, <2>2, WritesImage
<1>12. \A q \in Process \ {p} : guard = q => guard' = q
  BY <1>4
<1> QED
  BY <1>4, <1>5, <1>6, <1>7, <1>8, <1>9, <1>10, <1>11, <1>12, StepKeeps

-----------------------------------------------------------------------------
(* The steps that write the log.                                           *)
LEMMA CountKeeps ==
  ASSUME HeadInv, NEW p \in Process, Count(p)
  PROVE  HeadInv'
<1>1. PICK c : c = task[p] /\ c # NoTask /\ c.step = "count"
  BY DEF Count, At
<1>2. PICK t : t = c.topic
  OBVIOUS
<1>3. PICK r : r = c.ref
  OBVIOUS
<1>4. /\ c \in Task /\ t \in Topic /\ ShapeOK(p) /\ FitsOK(p) /\ FreshOK(p)
      /\ c.own /\ c.op = "submit" /\ Locked(p)
  BY <1>1, <1>2, InvParts, Fields DEF ShapeOK, Locked
<1>5. r \in Intents /\ log[r].topic = t /\ log[r].told = 0 /\ \A n \in Intents : n <= r
  BY <1>1, <1>2, <1>3, <1>4 DEF FreshOK
<1>6. PICK l : l = Len(log) /\ l \in Nat /\ l \in Line /\ r \in 1 .. l
  BY <1>5, InvParts, IntentsAre
<1>7. heads' = heads /\ upset' = upset /\ moves' = moves /\ guard' = guard
  BY DEF Count
<1>8. PICK x : x = log[r] /\ x \in Record /\ x.type = "intent"
  BY <1>5, <1>6, InvParts DEF TypeOK, Intents
<1> DEFINE y == [x EXCEPT !.told = l]
<1>9. /\ y \in Record /\ y.type = "intent" /\ y.topic = x.topic /\ y.given = x.given
      /\ y.parent = x.parent /\ y.told = l
  BY <1>6, <1>8 DEF Record
<1>10. log' = [log EXCEPT ![r] = y]
  BY <1>1, <1>3, <1>6, <1>8 DEF Count, LineCount
<1> HIDE DEF y
<1>11. /\ log' \in Seq(Record) /\ Len(log') = l /\ log'[r] = y
       /\ \A n \in 1 .. l : n # r => log'[n] = log[n]
  <2>1. log \in Seq(Record)
    BY InvParts DEF TypeOK
  <2> QED
    BY <1>6, <1>9, <1>10, <2>1
<1> DEFINE m == [c EXCEPT !.step = "load", !.ref = l]
<1>12. m \in Task /\ task' = [task EXCEPT ![p] = m]
  BY <1>1, <1>4, <1>6 DEF Count, LineCount, Task
<1>13. /\ m.op = c.op /\ m.topic = t /\ m.own = c.own /\ m.attempts = c.attempts
       /\ m.ref = l /\ m.image = c.image /\ m.step = "load" /\ m.found = c.found
  BY <1>2, <1>4 DEF Task
<1> HIDE DEF m
<1>14. TaskSet(p, m) /\ m # NoTask
  BY <1>12, InvParts, SetDoes, NullAssumption
<1>15. TypeOK' /\ UpsetGrows
  BY <1>7, <1>11, <1>14, InvParts DEF TypeOK, TaskSet, UpsetGrows
<1>16. Intents' = Intents
  BY <1>6, <1>8, <1>9, <1>11 DEF Intents
<1>17. Extends
  <2>1. \A n \in 1 .. l : log'[n].topic = log[n].topic
    BY <1>8, <1>9, <1>11
  <2>2. \A n \in Intents : n \in 1 .. l
    BY <1>6, InvParts, IntentsAre
  <2>3. ASSUME NEW n \in Intents
        PROVE  /\ log'[n].given = log[n].given /\ log'[n].parent = log[n].parent
               /\ log'[n].told # log[n].told => n = r
    BY <1>8, <1>9, <1>11, <2>2
  <2> QED
    BY <1>5, <1>6, <1>11, <1>16, <2>1, <2>3 DEF Extends
<1>18. ShapeOK(p)'
  BY <1>1, <1>4, <1>7, <1>13, <1>14 DEF ShapeOK, Locked, TaskSet
<1>19. Fits(l, t)'
  <2>1. CASE l = r
    BY <1>5, <1>8, <1>9, <1>11, <1>16, <2>1 DEF Fits
  <2>2. CASE l # r
    <3>1. r < l /\ l \notin Intents
      BY <1>5, <1>6, <2>2
    <3>2. Misled(r, l)'
      BY <1>5, <1>9, <1>11, <1>16, <3>1 DEF Misled
    <3>3. log'[r].topic = t /\ l \in 1 .. Len(log')
      BY <1>5, <1>6, <1>8, <1>9, <1>11
    <3> QED
      BY <1>5, <1>16, <3>1, <3>2, <3>3 DEF Fits
  <2> QED
    BY <2>1, <2>2
<1>20. FitsOK(p)'
  <2>1. \A u : Honest(u)' <=> Honest(u)
    BY <1>7 DEF Honest
  <2>2. \A u, n : Fits(n, u) => Fits(n, u)'
    BY <1>15, <1>17, InvParts, FitsKeeps
  <2>3. PICK f, i : f = c.found /\ i = c.image
    OBVIOUS
  <2>4. Honest(t)' => Fits(f, t)'
    BY <1>1, <1>2, <1>4, <2>1, <2>2, <2>3 DEF FitsOK
  <2>5. \A u \in Topic : Honest(u)' => Fits(i[u], u)'
    BY <1>1, <1>4, <2>1, <2>2, <2>3 DEF FitsOK, OwnCas
  <2> QED
    BY <1>13, <1>14, <1>19, <2>3, <2>4, <2>5 DEF FitsOK, TaskSet
<1>21. FreshOK(p)'
  <2>1. Latest(t)' <= l
    <3>1. Latest(t)' = Latest(t)
      BY <1>15, <1>17, InvParts, LatestKeeps
    <3> QED
      BY <1>6, <3>1, InvParts, LatestIs
  <2>2. Latest(t)' \in Nat
    <3>1. Latest(t)' = Latest(t)
      BY <1>15, <1>17, InvParts, LatestKeeps
    <3> QED
      BY <3>1, InvParts, LatestIs
  <2> QED
    BY <1>4, <1>6, <1>13, <1>14, <2>1, <2>2 DEF FreshOK, TaskSet
<1>22. CountsOK'
  <2>1. Submitters' \subseteq Submitters
    BY <1>4, <1>13, <1>14 DEF Submitters, TaskSet
  <2> QED
    BY <1>6, <1>11, <1>16, <2>1, InvParts, CountsKeep
<1>23. TaskOK(p)'
  BY <1>18, <1>20, <1>21 DEF TaskOK
<1>24. \A u : Submitting(u) => Submitting(u)'
  BY <1>1, <1>2, <1>13, <1>14 DEF Submitting, TaskSet
<1>25. HeadsFit' /\ HeadsKeepUp'
  BY <1>7, <1>15, <1>17, <1>24, InvParts, HeadsKeep
<1>26. \A q \in Process \ {p} : KeepsTask(q) /\ ~At(q, "count")
  <2>1. \A q \in Process \ {p} : KeepsTask(q)
    BY <1>14 DEF TaskSet, KeepsTask
  <2>2. ASSUME NEW q \in Process \ {p}, At(q, "count") PROVE FALSE
    BY <1>1, <1>4, <2>2, InvParts, Alone DEF At, ShapeOK, Locked
  <2> QED
    BY <2>1, <2>2
<1> QED
  BY <1>7, <1>15, <1>17, <1>22, <1>23, <1>24, <1>25, <1>26, StepKeeps

(* A submission appends its intent, whose line nobody knows yet.           *)
LEMMA AppendIntentKeeps ==
  ASSUME HeadInv, NEW p \in Process, NEW given \in BOOLEAN, AppendIntent(p, given)
  PROVE  HeadInv'
<1>1. PICK c : c = task[p] /\ c # NoTask /\ c.step = "compare" /\ c.op = "submit"
  BY DEF AppendIntent, At
<1>2. PICK t, f : t = c.topic /\ f = c.found
  OBVIOUS
<1>3. /\ c \in Task /\ t \in Topic /\ ShapeOK(p) /\ FitsOK(p) /\ FreshOK(p)
      /\ ~c.own /\ f \in Line /\ f \in Nat /\ Locked(p)
  BY <1>1, <1>2, InvParts, Fields DEF ShapeOK, Locked
<1>4. /\ Honest(t) => Fits(f, t)
      /\ upset[t] # {} \/ f >= Latest(t)
  BY <1>1, <1>2, <1>3 DEF FitsOK, FreshOK
<1>5. PICK l : l = Len(log) /\ l \in Nat /\ Intents \subseteq 1 .. l
  BY InvParts, IntentsAre
<1>6. heads' = heads /\ upset' = upset /\ moves' = moves /\ guard' = guard
  BY DEF AppendIntent
<1>7. /\ IsFiniteSet(Submitters') /\ Submitters' = Submitters \ {p}
      /\ Cardinality(Submitters) \in Nat /\ Cardinality(Submitters') \in Nat
      /\ Cardinality(Submitters) = Cardinality(Submitters') + 1
  <2>1. p \in Submitters /\ IsFiniteSet(Submitters)
    BY <1>1, <1>3, InvParts DEF Submitters, CountsOK
  <2>2. Submitters' = Submitters \ {p}
    <3>1. \A q \in Process \ {p} : task'[q] = task[q]
      BY InvParts DEF AppendIntent, TypeOK
    <3>2. task'[p].own
      BY <1>1, <1>3, InvParts DEF AppendIntent, TypeOK, Task
    <3> QED
      BY <3>1, <3>2 DEF Submitters
  <2>3. Cardinality(Submitters) \in Nat /\ Cardinality(Submitters) # 0
    BY <2>1, FS_CardinalityType, FS_EmptySet
  <2> QED
    BY <2>1, <2>2, <2>3, FS_RemoveElement
<1>8. /\ IsFiniteSet(Intents) /\ Cardinality(Intents) \in Nat
      /\ l <= Cardinality(Intents) + MaxOthers /\ Cardinality(Intents) + 1 <= MaxIntents
  BY <1>5, <1>7, InvParts, IntentsAre, ConstantsAssumption DEF CountsOK
<1>9. l + 1 \in Line
  BY <1>5, <1>8, ConstantsAssumption DEF Line
<1>10. PICK e \in Line : e = IF given THEN 0 ELSE IntentAt(f)
  <2>1. 0 \in Line /\ IntentAt(f) \in Line
    BY <1>3, ConstantsAssumption DEF IntentAt, Line
  <2> QED
    BY <2>1
<1> DEFINE x == [type |-> "intent", topic |-> t, given |-> given, parent |-> e, told |-> 0]
<1>11. /\ x \in Record /\ x.type = "intent" /\ x.topic = t /\ x.given = given
       /\ x.parent = e /\ x.told = 0
  BY <1>3, <1>10, ConstantsAssumption DEF Record, Line
<1>12. log' = Append(log, x)
  BY <1>1, <1>2, <1>10 DEF AppendIntent
<1> HIDE DEF x
<1>13. /\ log' \in Seq(Record) /\ Len(log') = l + 1 /\ log'[l + 1] = x
       /\ \A n \in 1 .. l : log'[n] = log[n]
  <2>1. log \in Seq(Record)
    BY InvParts DEF TypeOK
  <2> QED
    BY <1>5, <1>11, <1>12, <2>1
<1> DEFINE m == [c EXCEPT !.step = "count", !.expected = AnyHead, !.attempts = 1,
                          !.found = 0, !.ref = l + 1, !.own = TRUE]
<1>14. m \in Task /\ task' = [task EXCEPT ![p] = m]
  <2>1. 0 \in Line /\ 1 \in Nat
    BY ConstantsAssumption DEF Line
  <2>2. m \in Task
    BY <1>3, <1>9, <2>1 DEF Task
  <2>3. task' = [task EXCEPT ![p] = m]
    BY <1>1, <1>5 DEF AppendIntent
  <2> QED
    BY <2>2, <2>3
<1>15. /\ m.op = c.op /\ m.topic = t /\ m.own /\ m.attempts = 1 /\ m.found = 0
       /\ m.ref = l + 1 /\ m.image = c.image /\ m.step = "count"
  BY <1>2, <1>3 DEF Task
<1> HIDE DEF m
<1>16. TaskSet(p, m) /\ m # NoTask
  BY <1>14, InvParts, SetDoes, NullAssumption
<1>17. TypeOK'
  BY <1>6, <1>13, <1>16, InvParts DEF TypeOK, TaskSet
<1>18. /\ Intents' = Intents \cup {l + 1} /\ l + 1 \notin Intents
       /\ \A n \in Intents : log'[n] = log[n]
  BY <1>5, <1>11, <1>13 DEF Intents
<1>19. CountsOK'
  <2>1. Cardinality(Intents') = Cardinality(Intents) + 1
    BY <1>8, <1>18, FS_AddElement
  <2> QED
    BY <1>5, <1>7, <1>8, <1>13, <2>1, InvParts, ConstantsAssumption DEF CountsOK
<1>20. ASSUME NEW n, NEW u, Fits(n, u) PROVE Fits(n, u)'
  <2>1. CASE n = 0 \/ (n \in Intents /\ log[n].topic = u)
    BY <1>18, <2>1 DEF Fits
  <2>2. CASE n \in 1 .. l /\ n \notin Intents
    <3>1. PICK k \in Intents : log[k].topic = u /\ Misled(k, n)
      BY <1>20, <1>5, <2>2 DEF Fits
    <3>2. Misled(k, n)'
      BY <1>5, <1>18, <2>2, <3>1 DEF Misled
    <3>3. n \in 1 .. Len(log') /\ n \notin Intents' /\ k \in Intents' /\ log'[k].topic = u
      BY <1>5, <1>13, <1>18, <2>2, <3>1
    <3> QED
      BY <3>2, <3>3 DEF Fits
  <2> QED
    BY <1>5, <1>20, <2>1, <2>2 DEF Fits
<1>21. ASSUME NEW u, u # t PROVE Latest(u)' = Latest(u)
  <2>1. {n \in Intents' : log'[n].topic = u} = {n \in Intents : log[n].topic = u}
    BY <1>11, <1>13, <1>18, <1>21
  <2> QED
    BY <2>1 DEF Latest
<1>22. Submitting(t)' /\ \A u : Submitting(u) => Submitting(u)'
  BY <1>1, <1>3, <1>15, <1>16 DEF Submitting, TaskSet
<1>23. HeadsFit' /\ HeadsKeepUp'
  <2>1. HeadsFit'
    <3> SUFFICES ASSUME NEW u \in Topic, Honest(u)' PROVE Fits(heads[u], u)'
      BY DEF HeadsFit
    <3>1. PICK n : n = heads[u]
      OBVIOUS
    <3>2. Fits(n, u)
      BY <1>6, <3>1, InvParts DEF HeadsFit, Honest
    <3> QED
      BY <1>6, <1>20, <3>1, <3>2
  <2>2. HeadsKeepUp'
    BY <1>6, <1>21, <1>22, InvParts DEF HeadsKeepUp, Behind
  <2> QED
    BY <2>1, <2>2
<1>24. TaskOK(p)'
  <2>1. ShapeOK(p)'
    BY <1>1, <1>3, <1>6, <1>15, <1>16 DEF ShapeOK, Locked, TaskSet
  <2>2. FitsOK(p)'
    <3>1. Fits(l + 1, t)'
      BY <1>11, <1>13, <1>18 DEF Fits
    <3>2. Fits(0, t)'
      BY DEF Fits
    <3>3. PICK i : i = c.image
      OBVIOUS
    <3>4. \A u \in Topic : Honest(u)' => Fits(i[u], u)'
      BY <1>1, <1>3, <1>6, <1>20, <3>3 DEF FitsOK, OwnCas, Honest
    <3> QED
      BY <1>15, <1>16, <3>1, <3>2, <3>3, <3>4 DEF FitsOK, TaskSet
  <2>3. FreshOK(p)'
    <3>1. \A n \in Intents' : n <= l + 1
      BY <1>5, <1>18
    <3> QED
      BY <1>11, <1>13, <1>15, <1>16, <1>18, <3>1 DEF FreshOK, TaskSet
  <2> QED
    BY <2>1, <2>2, <2>3 DEF TaskOK
<1>25. ASSUME NEW q \in Process \ {p} PROVE TaskOK(q)'
  <2> SUFFICES ASSUME task[q] # NoTask PROVE ShapeOK(q)' /\ FitsOK(q)' /\ FreshOK(q)'
    BY <1>16 DEF TaskSet, TaskOK
  <2>1. PICK d : d = task[q] /\ d = task'[q]
    BY <1>16 DEF TaskSet
  <2>2. /\ ShapeOK(q) /\ FitsOK(q) /\ FreshOK(q)
        /\ d.op \in {"submit", "cas", "head"} /\ d.topic \in Topic
    BY <2>1, InvParts, Fields
  <2>3. ShapeOK(q)'
    BY <1>6, <2>1, <2>2 DEF ShapeOK, Locked
  <2>4. FitsOK(q)'
    <3>1. PICK g, r, i, u : g = d.found /\ r = d.ref /\ i = d.image /\ u = d.topic
      OBVIOUS
    <3>2. Honest(u)' => Fits(g, u)' /\ Fits(r, u)'
      BY <1>6, <1>20, <2>1, <2>2, <3>1 DEF FitsOK, Honest
    <3>3. \A v \in Topic : Honest(v)' /\ ~OwnCas(q, v)' => Fits(i[v], v)'
      BY <1>6, <1>20, <2>1, <2>2, <3>1 DEF FitsOK, Honest, OwnCas
    <3> QED
      BY <2>1, <3>1, <3>2, <3>3 DEF FitsOK
  <2>5. d.op = "head" \/ d.step = "look"
    BY <1>1, <1>3, <2>1, <2>2, Alone DEF Locked
  <2>6. \A u \in Topic : Excused(q, u) => Excused(q, u)'
    BY <1>6, <1>22, <2>1 DEF Excused
  <2>7. d.op = "head" => Excused(q, t)'
    BY <1>22, <2>1 DEF Excused
  <2>8. FreshOK(q)'
    <3>1. CASE d.step = "look"
      BY <2>1, <3>1 DEF FreshOK
    <3>2. CASE d.step # "look" /\ d.op = "head"
      <4>1. d.step = "load" => Excused(q, d.topic)' \/ d.ref >= Latest(d.topic)'
        <5>1. PICK u \in Topic : u = d.topic
          BY <2>2
        <5>2. d.step = "load" => Excused(q, u) \/ d.ref >= Latest(u)
          BY <2>1, <2>2, <5>1 DEF FreshOK
        <5>3. d.step = "load" => Excused(q, u)' \/ d.ref >= Latest(u)'
          BY <1>21, <2>6, <2>7, <3>2, <5>2
        <5> QED
          BY <5>1, <5>3
      <4>2. d.step \in {"truncate", "write"} =>
              \A u \in Topic : Excused(q, u)' \/ d.image[u] = 0 \/ d.image[u] >= Latest(u)'
        BY <1>21, <2>1, <2>2, <2>6, <2>7, <3>2 DEF FreshOK, OwnCas
      <4>3. d.step # "count"
        BY <2>1, <2>2, <3>2 DEF ShapeOK
      <4> QED
        BY <2>1, <3>2, <4>1, <4>2, <4>3 DEF FreshOK
    <3> QED
      BY <2>5, <3>1, <3>2
  <2> QED
    BY <2>3, <2>4, <2>8
<1>26. ParentsPrecede'
  <2> SUFFICES ASSUME NEW n \in Intents', log'[n].parent # 0,
                      "cas" \notin upset'[log'[n].topic]
               PROVE  /\ log'[n].parent < n
                      /\ log'[log'[n].parent].topic = log'[n].topic
    BY DEF ParentsPrecede
  <2>1. CASE n \in Intents
    <3>1. PICK i : i = log[n].parent /\ i \in Line /\ i \in Nat
      BY <2>1, InvParts, IntentsAre
    <3>2. i < n /\ log[i].topic = log[n].topic /\ i # 0
      BY <1>6, <1>18, <2>1, <3>1, InvParts DEF ParentsPrecede
    <3>3. i \in 1 .. l
      BY <1>5, <2>1, <3>1, <3>2
    <3> QED
      BY <1>13, <1>18, <2>1, <3>1, <3>2, <3>3
  <2>2. CASE n = l + 1
    <3>1. e # 0 /\ log'[n].parent = e /\ log'[n].topic = t
      BY <1>11, <1>13, <2>2
    <3>2. e = f /\ f \in Intents /\ f # 0
      BY <1>10, <3>1 DEF IntentAt
    <3>3. log[f].topic = t
      BY <1>4, <1>6, <3>1, <3>2 DEF Fits, Honest
    <3>4. f \in 1 .. l
      BY <1>5, <3>2
    <3>5. f < n
      BY <1>5, <2>2, <3>4
    <3>6. log'[f].topic = t
      BY <1>18, <3>2, <3>3
    <3> QED
      BY <3>1, <3>2, <3>5, <3>6
  <2> QED
    BY <1>18, <2>1, <2>2
<1>27. Chained'
  <2> SUFFICES ASSUME NEW k \in Intents', NEW n \in Intents', Predecessor(k, n)',
                      ~log'[n].given, upset'[log'[n].topic] = {}
               PROVE  log'[n].parent = k \/ (log'[n].parent = 0 /\ log'[k].told # k)
    BY DEF Chained
  <2>1. k < n /\ log'[k].topic = log'[n].topic
    BY DEF Predecessor
  <2>2. k \in Intents
    BY <1>5, <1>18, <2>1
  <2>3. CASE n \in Intents
    <3>1. Predecessor(k, n)
      BY <1>18, <2>2, <2>3 DEF Predecessor
    <3>2. log[n].parent = k \/ (log[n].parent = 0 /\ log[k].told # k)
      BY <1>6, <1>18, <2>2, <2>3, <3>1, InvParts DEF Chained
    <3> QED
      BY <1>18, <2>2, <2>3, <3>2
  <2>4. CASE n = l + 1
    <3>1. /\ log'[n].topic = t /\ ~given /\ log'[n].parent = e /\ upset[t] = {}
          /\ log[k].topic = t
      BY <1>6, <1>11, <1>13, <1>18, <2>1, <2>2, <2>4
    <3>2. ASSUME NEW j \in Intents, log[j].topic = t, ~(j <= k)
          PROVE  FALSE
      <4>0. j \in 1 .. l /\ k \in 1 .. l /\ j \in Intents'
        BY <1>5, <1>18, <2>2
      <4>1. k < j /\ j < n /\ j \in Intents'
        BY <1>5, <2>4, <3>2, <4>0
      <4>2. log'[j].topic = log'[n].topic
        BY <1>18, <3>1, <3>2
      <4> QED
        BY <4>1, <4>2 DEF Predecessor
    <3>3. f >= k /\ f # 0 /\ Fits(f, t)
      BY <1>3, <1>4, <1>5, <2>2, <3>1, InvParts, LatestIs DEF Honest
    <3>4. CASE f \in Intents
      <4>1. log[f].topic = t
        BY <3>3, <3>4 DEF Fits
      <4>2. f = k
        BY <1>5, <2>2, <3>2, <3>3, <3>4, <4>1
      <4> QED
        BY <1>10, <3>1, <3>4, <4>2 DEF IntentAt
    <3>5. CASE f \notin Intents
      <4>1. e = 0
        BY <1>10, <3>1, <3>5 DEF IntentAt
      <4>2. PICK j \in Intents : log[j].topic = t /\ Misled(j, f)
        BY <3>3, <3>5 DEF Fits
      <4>3. j = k
        BY <1>3, <1>5, <2>2, <3>2, <3>3, <4>2 DEF Misled
      <4> QED
        BY <1>18, <2>2, <3>1, <3>5, <4>1, <4>2, <4>3 DEF Misled
    <3> QED
      BY <3>4, <3>5
  <2> QED
    BY <1>18, <2>3, <2>4
<1> QED
  BY <1>17, <1>19, <1>23, <1>24, <1>25, <1>26, <1>27 DEF HeadInv

(* A record of whoever, and a step of something else.                      *)
LEMMA OthersKeep ==
  ASSUME HeadInv, TypeOK', CountsOK', Extends, UNCHANGED <<heads, guard, task, upset>>,
         \A n \in Intents : log'[n].told = log[n].told
  PROVE  HeadInv'
<1>1. UpsetGrows /\ \A u : Submitting(u) => Submitting(u)'
  BY DEF UpsetGrows, Submitting
<1>2. ASSUME NEW q \in Process PROVE TaskOK(q)'
  <2>1. KeepsTask(q)
    BY DEF KeepsTask
  <2>2. At(q, "count") => log'[task[q].ref].told = log[task[q].ref].told
    BY InvParts DEF At, FreshOK
  <2> QED
    BY <1>1, <2>1, <2>2, TaskKeeps DEF HeadInv
<1>3. HeadsFit' /\ HeadsKeepUp' /\ ParentsPrecede' /\ Chained'
  BY <1>1, InvParts, HeadsKeep, RecordsKeep
<1> QED
  BY <1>2, <1>3 DEF HeadInv

(* A line that is no intent keeps the invariant.                           *)
LEMMA AppendOtherKeeps ==
  ASSUME HeadInv, AppendOther
  PROVE  HeadInv'
<1>1. /\ UNCHANGED <<heads, guard, task, upset, moves>>
      /\ Len(log) < Cardinality(Intents) + MaxOthers
  BY DEF AppendOther
<1>2. PICK l : l = Len(log) /\ l \in Nat /\ Intents \subseteq 1 .. l
  BY InvParts, IntentsAre
<1>3. PICK x \in Record : x = [type |-> "other"]
  BY DEF Record
<1>4. log' = Append(log, x)
  BY <1>3 DEF AppendOther
<1>5. /\ log' \in Seq(Record) /\ Len(log') = l + 1 /\ log'[l + 1] = x
      /\ \A n \in 1 .. l : log'[n] = log[n]
  <2>1. log \in Seq(Record)
    BY InvParts DEF TypeOK
  <2> QED
    BY <1>2, <1>4, <2>1
<1>6. TypeOK'
  BY <1>1, <1>5, InvParts DEF TypeOK
<1>7. Intents' = Intents
  <2>1. x.type # "intent"
    BY <1>3
  <2> QED
    BY <1>2, <1>5, <2>1 DEF Intents
<1>8. Extends
  BY <1>2, <1>5, <1>7 DEF Extends
<1>9. CountsOK'
  <2>1. Submitters' = Submitters
    BY <1>1 DEF Submitters
  <2> QED
    BY <1>1, <1>2, <1>5, <1>7, <2>1, InvParts, IntentsAre, ConstantsAssumption DEF CountsOK
<1>10. \A n \in Intents : log'[n].told = log[n].told
  BY <1>2, <1>5
<1> QED
  BY <1>1, <1>6, <1>8, <1>9, <1>10, OthersKeep

(* Stuttering keeps the invariant.                                         *)
LEMMA StutterKeeps ==
  ASSUME HeadInv, UNCHANGED vars
  PROVE  HeadInv'
<1>1. UNCHANGED <<log, heads, guard, task, upset, moves>>
  BY DEF vars
<1>2. TypeOK'
  BY <1>1, InvParts DEF TypeOK
<1>3. Extends
  BY <1>1, InvParts, SameLog
<1>4. CountsOK'
  <2>1. Submitters' = Submitters /\ Intents' = Intents
    BY <1>1 DEF Submitters, Intents
  <2> QED
    BY <1>1, <2>1, InvParts, CountsKeep
<1> QED
  BY <1>1, <1>2, <1>3, <1>4, OthersKeep

-----------------------------------------------------------------------------
(* All the steps together.                                                 *)

(* An empty log, and no calls.                                             *)
LEMMA InitKeeps == Init => HeadInv
<1> SUFFICES ASSUME Init PROVE HeadInv
  OBVIOUS
<1>1. /\ log = <<>> /\ heads = NoHeads /\ guard = NoProcess /\ moves = 0
      /\ \A p \in Process : task[p] = NoTask
      /\ upset \in [Topic -> SUBSET Cause]
  BY DEF Init
<1>2. Len(log) = 0 /\ log \in Seq(Record)
  BY <1>1
<1>3. NoHeads \in Heads /\ \A u \in Topic : NoHeads[u] = 0
  BY ConstantsAssumption DEF NoHeads, Heads, Line
<1>4. TypeOK
  <2>1. task \in [Process -> Task \cup {NoTask}]
    BY DEF Init
  <2> QED
    BY <1>1, <1>2, <1>3, <2>1, ConstantsAssumption DEF TypeOK
<1>5. Intents = {} /\ Submitters = {}
  BY <1>1, <1>2 DEF Intents, Submitters
<1>6. CountsOK
  BY <1>2, <1>5, FS_EmptySet, ConstantsAssumption DEF CountsOK
<1>7. HeadsFit /\ HeadsKeepUp
  BY <1>1, <1>3 DEF HeadsFit, HeadsKeepUp, Fits, Behind
<1>8. ParentsPrecede /\ Chained
  BY <1>5 DEF ParentsPrecede, Chained
<1> QED
  BY <1>1, <1>4, <1>6, <1>7, <1>8 DEF HeadInv, TaskOK

(* Every step of a call keeps the invariant.                               *)
LEMMA CallKeeps ==
  ASSUME HeadInv, NEW p \in Process,
         \/ Look(p) \/ Find(p) \/ Load(p) \/ Truncate(p) \/ WriteFound(p) \/ WriteOwn(p)
         \/ CompareFails(p) \/ Count(p) \/ Crash(p)
         \/ \E new \in 0 .. Len(log) : CasLoad(p, new)
         \/ \E given \in BOOLEAN : AppendIntent(p, given)
  PROVE  HeadInv'
BY LookKeeps, FindKeeps, LoadKeeps, TruncateKeeps, WriteFoundKeeps, WriteOwnKeeps,
   CompareFailsKeeps, CountKeeps, CrashKeeps, CasLoadKeeps, AppendIntentKeeps

(* So does the beginning of one.                                           *)
LEMMA BeginsKeep ==
  ASSUME HeadInv, NEW p \in Process, NEW t \in Topic,
         \/ BeginHead(p, t) \/ BeginSubmit(p, t, AnyHead, 1)
         \/ \E n \in Attempts, e \in 1 .. Len(log) : BeginSubmit(p, t, e, n)
         \/ \E n \in Attempts, e \in 0 .. Len(log) : BeginCas(p, t, e, n)
  PROVE  HeadInv'
<1>1. moves \in 0 .. MaxMoves /\ MaxMoves \in Nat /\ Len(log) \in Nat
  BY InvParts, ConstantsAssumption DEF TypeOK
<1>2. CASE BeginHead(p, t)
  <2>1. moves' \in 0 .. MaxMoves
    BY <1>1, <1>2 DEF BeginHead
  <2>2. PICK op \in {"submit", "cas", "head"}, e \in Line \cup {AnyHead}, n \in Nat \ {0} :
          op = "head" /\ e = AnyHead /\ n = 1
    OBVIOUS
  <2>3. Begin(p, op, t, e, n)
    BY <1>2, <2>2 DEF BeginHead
  <2> QED
    BY <2>1, <2>2, <2>3, BeginKeeps
<1>3. ASSUME NEW e \in Line \cup {AnyHead}, NEW n \in Nat \ {0}, BeginSubmit(p, t, e, n)
      PROVE  HeadInv'
  <2>1. moves' \in 0 .. MaxMoves
    BY <1>1, <1>3 DEF BeginSubmit
  <2> QED
    BY <1>3, <2>1, BeginKeeps DEF BeginSubmit
<1>4. ASSUME NEW e \in Line \cup {AnyHead}, NEW n \in Nat \ {0}, BeginCas(p, t, e, n)
      PROVE  HeadInv'
  <2>1. moves' \in 0 .. MaxMoves
    BY <1>1, <1>4 DEF BeginCas
  <2> QED
    BY <1>4, <2>1, BeginKeeps DEF BeginCas
<1>5. /\ \A e \in 0 .. Len(log) : e \in Line
      /\ \A e \in 1 .. Len(log) : e \in Line
      /\ \A n \in Attempts : n \in Nat \ {0}
  <2>1. \A e \in 1 .. Len(log) : e \in 0 .. Len(log)
    BY <1>1
  <2> QED
    BY <2>1, InvParts, ConstantsAssumption
<1> QED
  BY <1>2, <1>3, <1>4, <1>5

(* The invariant holds in every state the ledger reaches.                  *)
THEOREM HeadInvariant == Spec => []HeadInv
<1>1. Init => HeadInv
  BY InitKeeps
<1>2. HeadInv /\ [Next]_vars => HeadInv'
  BY BeginsKeep, CallKeeps, AppendOtherKeeps, StutterKeeps DEF Next
<1> QED
  BY <1>1, <1>2, PTL DEF Spec

(* Every variable keeps its type.                                          *)
THEOREM HeadTypes == Spec => []TypeOK
<1>1. HeadInv => TypeOK
  BY DEF HeadInv
<1> QED
  BY <1>1, HeadInvariant, PTL

(* A parent is an earlier intent of the same topic, unless cas_head has    *)
(* moved the head: the order by causes never meets a cycle.                *)
THEOREM ParentsEarlier == Spec => []ParentsPrecede
<1>1. HeadInv => ParentsPrecede
  BY DEF HeadInv
<1> QED
  BY <1>1, HeadInvariant, PTL

(* No submission's update of a head is lost, unless cas_head, a crash or a *)
(* head() that was overtaken moved it.                                     *)
THEOREM NoUpdateLost == Spec => []HeadsKeepUp
<1>1. HeadInv => HeadsKeepUp
  BY DEF HeadInv
<1> QED
  BY <1>1, HeadInvariant, PTL

(* The intents of a topic form a chain, which breaks, but does not fork,   *)
(* after a submission that was told a wrong line.                          *)
THEOREM ChainKept == Spec => []Chained
<1>1. HeadInv => Chained
  BY DEF HeadInv
<1> QED
  BY <1>1, HeadInvariant, PTL

=============================================================================

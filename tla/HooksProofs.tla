---------------------------- MODULE HooksProofs ----------------------------
(* Theorems about the hooks, for any number of agents, sessions, processes *)
(* and calls, any scopes and any texts of the constitution.                *)
EXTENDS Hooks, FiniteSetTheorems, WellFoundedInduction, TLAPS

-----------------------------------------------------------------------------
(* The inductive invariant.                                                *)

(* A start works on an id of its own that is not open yet, a finish on the *)
(* session of its agent.                                                   *)
Starting(a) == At(a, "compose") \/ At(a, "open")

Unused(i) ==
  /\ i \notin Ids /\ i \notin memento \cup index
  /\ charged[i] = Nothing /\ tracker.session # i
  /\ \A p \in Call : call[p] # None => call[p].by # i /\ call[p].copy.session # i
  /\ gc # None => i \notin gc.removed

SessionsOK ==
  /\ \A i \in Id : i > used.sessions => Unused(i)
  /\ \A a \in Agent : Starting(a) =>
       active[a] = None /\ cmd[a].id <= used.sessions /\ Unused(cmd[a].id)
  /\ \A a, b \in Agent : Starting(a) /\ Starting(b) /\ cmd[a].id = cmd[b].id => a = b
  /\ \A a \in Agent : cmd[a] # None /\ ~Starting(a) => active[a] = cmd[a].id
  /\ \A a \in Agent : At(a, "compose") \/ At(a, "seal") => cmd[a].rules # None
  /\ \A a, b \in Agent : active[a] # None /\ active[a] = active[b] => a = b

(* An agent has settled when its start has found or made a valid seal.     *)
SettledOK == \A a \in settled : At(a, "compose") \/ Valid(seal)

(* Sessions that were ever open at once are blurred.                       *)
AloneOK ==
  \A a, b \in Agent :
    active[a] # None /\ active[b] # None /\ active[a] \notin blurred => a = b

(* The calls of a session that wrote and are not in its tracker yet, and   *)
(* what a usage is with them.                                              *)
Charging(s) == {p \in Call : call[p] # None /\ call[p].by = s /\ call[p].at # "write"}
PathsOf(P) == {call[p].path : p \in P}
Holds(u, t, P) == u.paths = t.paths \cup PathsOf(P) /\ u.loc = t.loc + Cardinality(P)

(* The usage that a session goes on with.                                  *)
Base(s) == IF tracker.session = s THEN tracker.usage ELSE Nothing

Live(s) ==
  \/ tracker.session = s \/ s \in Ids
  \/ \E p \in Call : AtCall(p, "save") /\ call[p].copy.session = s

CountsOK == \A s \in Id \ blurred : Live(s) => Holds(charged[s], Base(s), Charging(s))

(* A process that saves the tracker of a session that is not blurred is    *)
(* that session's, the only one that saves, and what it read is still so;  *)
(* and no other session that is open has written the tracker meanwhile.    *)
SaveOK(p) ==
  LET c == call[p]
      s == call[p].copy.session
  IN  /\ s \in Id
      /\ c.by = s \/ {c.by, s} \subseteq blurred
      /\ s \notin blurred =>
           c.copy.usage = Base(s) /\ \A q \in Call : AtCall(q, "save") => q = p
      /\ \A t \in Ids \ blurred : t # s => tracker.session # t

SavesOK == \A p \in Call : AtCall(p, "save") => SaveOK(p)

(* No more lines than calls.                                               *)
InFlight == {p \in Call : call[p] # None}
Writing == {p \in Call : AtCall(p, "write")}

LinesOK ==
  /\ IsFiniteSet(InFlight)
  /\ tracker.usage.loc + Cardinality(InFlight) <= used.calls
  /\ \A p \in Call : AtCall(p, "save") =>
       call[p].copy.usage.loc + Cardinality(InFlight) <= used.calls
  /\ \A s \in Id : charged[s].loc + Cardinality(Writing) <= used.calls

(* What gc has removed is not open, and has no memento again; a session    *)
(* that is open has none before its finish writes it.                      *)
FilesOK ==
  /\ \A i \in memento \ odd : i \in Ids => i \in Finishing
  /\ \A a \in Agent : At(a, "index") => cmd[a].id \in memento \cup odd
  /\ gc # None => \A i \in gc.removed \ odd : i \notin Ids \cup memento
  /\ gc # None /\ gc.at = "rewrite" => gc.lines \subseteq index
  /\ gc # None => gc.removed \cup gc.lines \subseteq Id

HooksInv ==
  /\ TypeOK /\ SessionsOK /\ SettledOK /\ AloneOK /\ CountsOK /\ SavesOK /\ LinesOK
  /\ FilesOK /\ GuardedWrites /\ IndexAgrees
-----------------------------------------------------------------------------
(* Types.                                                                  *)
LEMMA Fields ==
  ASSUME TypeOK
  PROVE  /\ \A a \in Agent : cmd[a] # None =>
              /\ cmd[a] \in CommandState /\ cmd[a].id \in Id /\ cmd[a].rules \in Text \cup {None}
              /\ cmd[a].at \in {"compose", "open", "seal", "memento", "index"}
         /\ \A p \in Call : call[p] # None =>
              /\ call[p] \in CallState /\ call[p].path \in Path /\ call[p].agent \in Agent
              /\ call[p].by \in Id /\ call[p].copy \in Tracker /\ call[p].calm \in BOOLEAN
              /\ call[p].at \in {"write", "track", "save"}
         /\ gc # None =>
              /\ gc \in GcState /\ gc.at \in {"read", "rewrite"}
              /\ gc.removed \subseteq Id /\ gc.lines \subseteq Id
         /\ \A a \in Agent : active[a] \in Id \cup {None}
         /\ \A i \in Id : charged[i] \in Usage
BY DEF TypeOK, CommandState, CallState, GcState

(* The types of a usage record's fields.                                   *)
LEMMA UsageFields ==
  ASSUME NEW u \in Usage
  PROVE  u.paths \subseteq Path /\ u.loc \in Nat /\ u.loc <= MaxCalls
BY ConstantsAssumption DEF Usage

(* The types of the tracker's fields.                                      *)
LEMMA TrackerFields ==
  ASSUME NEW t \in Tracker
  PROVE  t.session \in Id \cup {0} /\ t.usage \in Usage
BY DEF Tracker

(* Usage records with the same fields are the same.                        *)
LEMMA UsageEqual ==
  ASSUME NEW u \in Usage, NEW v \in Usage, u.paths = v.paths, u.loc = v.loc
  PROVE  u = v
BY DEF Usage

(* The ids of the active sessions are session ids.                         *)
LEMMA IdsAre ==
  ASSUME TypeOK
  PROVE  /\ Ids = {i \in Id : \E a \in Agent : active[a] = i}
         /\ None \notin Id /\ 0 \notin Id /\ Id \subseteq Nat
<1>1. None \notin Id /\ 0 \notin Id /\ Id \subseteq Nat
  BY NoneAssumption, ConstantsAssumption DEF Id
<1> QED
  BY <1>1, Fields DEF Ids, Listed

(* A session file that is listed first.                                    *)
LEMMA MinExists ==
  ASSUME NEW N \in Nat, NEW S \in SUBSET (0 .. N), S # {}
  PROVE  \E x \in S : \A y \in S : x <= y
<1> DEFINE Below(n) == {m \in 0 .. N : m < n}
           T == {Below(n) : n \in S}
<1>1. IsWellFoundedOn(StrictSubsetOrdering(0 .. N), SUBSET (0 .. N))
  <2>1. IsFiniteSet(0 .. N)
    BY FS_Interval
  <2>2. FiniteSubsetsOf(0 .. N) = SUBSET (0 .. N)
    BY <2>1, FS_Subset DEF FiniteSubsetsOf
  <2>3. IsWellFoundedOn(StrictSubsetOrdering(0 .. N), FiniteSubsetsOf(0 .. N))
    BY FS_StrictSubsetOrderingWellFounded
  <2> QED
    BY <2>2, <2>3
<1>2. T # {} /\ T \subseteq SUBSET (0 .. N)
  OBVIOUS
<1>3. PICK U \in T : \A V \in T : <<V, U>> \notin StrictSubsetOrdering(0 .. N)
  <2> HIDE DEF T
  <2> QED
    BY <1>1, <1>2, WFMin
<1>4. PICK x \in S : U = Below(x)
  BY <1>3
<1>5. ASSUME NEW y \in S, ~(x <= y)
      PROVE  FALSE
  <2>1. Below(y) \subseteq Below(x)
    BY <1>5
  <2>2. y \in Below(x) /\ y \notin Below(y)
    BY <1>5
  <2>3. <<Below(y), U>> \in StrictSubsetOrdering(0 .. N)
    BY <1>4, <2>1, <2>2 DEF StrictSubsetOrdering
  <2> QED
    BY <1>3, <2>3
<1> QED
  BY <1>5

(* The session the hook finds first is an active one.                      *)
LEMMA FirstListed ==
  ASSUME TypeOK, Listed # {}
  PROVE  First \in Listed /\ active[First] \in Ids /\ active[First] \in Id
<1>1. MaxAgents \in Nat /\ Listed \in SUBSET (0 .. MaxAgents)
  BY ConstantsAssumption DEF Listed, Agent
<1>2. \E a \in Listed : \A b \in Listed : a <= b
  BY <1>1, MinExists
<1>3. First \in Listed
  BY <1>2 DEF First
<1> QED
  BY <1>3, Fields DEF Ids, Listed
-----------------------------------------------------------------------------
(* What keeps each part of the invariant.                                  *)

(* Every call goes on as it was, if less calmly.                           *)
CallsAs ==
  \A p \in Call :
    /\ call[p] = None <=> call'[p] = None
    /\ call[p] # None =>
         /\ call'[p].by = call[p].by /\ call'[p].at = call[p].at /\ call'[p].path = call[p].path
         /\ call'[p].copy = call[p].copy /\ call'[p].agent = call[p].agent
         /\ call'[p].calm => call[p].calm

(* Marking the running calls unsettled leaves them otherwise the same.     *)
LEMMA UnsettledAs ==
  ASSUME TypeOK, call' = Unsettled
  PROVE  /\ CallsAs /\ call' \in [Call -> CallState \cup {None}]
         /\ \A p \in Call : call'[p] # None => ~call'[p].calm
<1>1. ASSUME NEW p \in Call
      PROVE  /\ Unsettled[p] \in CallState \cup {None}
             /\ call[p] = None <=> Unsettled[p] = None
             /\ call[p] # None =>
                  /\ Unsettled[p].by = call[p].by /\ Unsettled[p].at = call[p].at
                  /\ Unsettled[p].path = call[p].path /\ Unsettled[p].copy = call[p].copy
                  /\ Unsettled[p].agent = call[p].agent
                  /\ Unsettled[p].calm = FALSE
  <2>1. CASE call[p] = None
    BY <2>1 DEF Unsettled
  <2>2. CASE call[p] # None
    <3>1. PICK c \in CallState : c = call[p]
      BY <2>2, Fields
    <3> DEFINE d == [c EXCEPT !.calm = FALSE]
    <3>2. /\ d \in CallState /\ d.by = c.by /\ d.at = c.at /\ d.path = c.path
          /\ d.copy = c.copy /\ d.agent = c.agent /\ d.calm = FALSE
      BY DEF CallState
    <3>3. Unsettled[p] = d
      BY <2>2, <3>1 DEF Unsettled
    <3> HIDE DEF d
    <3> QED
      BY <2>2, <3>1, <3>2, <3>3, NoneAssumption
  <2> QED
    BY <2>1, <2>2
<1>2. call' \in [Call -> CallState \cup {None}]
  BY <1>1 DEF Unsettled
<1> QED
  BY <1>1, <1>2 DEF CallsAs

(* Unchanged calls are the same.                                           *)
LEMMA SameCalls ==
  ASSUME call' = call
  PROVE  CallsAs
BY DEF CallsAs

(* Sessions are only closed, and no tool and no hook of a tool does        *)
(* anything.                                                               *)
ClosesOnly == \A a \in Agent : active'[a] = active[a] \/ active'[a] = None

Budget == AloneOK /\ CountsOK /\ SavesOK /\ LinesOK

(* Closing sessions makes no session active.                               *)
LEMMA ClosesIds ==
  ASSUME ClosesOnly
  PROVE  Ids' \subseteq Ids
BY DEF ClosesOnly, Ids, Listed

(* The budget's account stays while tracker and calls do.                  *)
LEMMA BudgetKeeps ==
  ASSUME Budget, CallsAs, ClosesOnly, UNCHANGED <<tracker, charged, blurred>>,
         used'.calls = used.calls
  PROVE  Budget'
<1>1. Ids' \subseteq Ids
  BY ClosesIds
<1>2. AloneOK'
  BY DEF Budget, AloneOK, ClosesOnly
<1>3. \A p \in Call : (AtCall(p, "save")' <=> AtCall(p, "save"))
                      /\ (AtCall(p, "write")' <=> AtCall(p, "write"))
  BY DEF CallsAs, AtCall
<1>4. CountsOK'
  <2> SUFFICES ASSUME NEW s \in Id, s \notin blurred, Live(s)'
               PROVE  Holds(charged[s], Base(s), Charging(s))'
    BY DEF CountsOK
  <2>1. Live(s)
    BY <1>1, <1>3 DEF Live, CallsAs, AtCall
  <2>2. Charging(s)' = Charging(s) /\ \A p \in Charging(s) : call'[p].path = call[p].path
    BY DEF CallsAs, Charging
  <2>3. PathsOf(Charging(s))' = PathsOf(Charging(s))
    BY <2>2 DEF PathsOf
  <2>4. Base(s)' = Base(s)
    BY DEF Base
  <2>5. Holds(charged[s], Base(s), Charging(s))
    BY <2>1 DEF Budget, CountsOK
  <2> QED
    BY <2>2, <2>3, <2>4, <2>5 DEF Holds
<1>5. SavesOK'
  <2> SUFFICES ASSUME NEW p \in Call, AtCall(p, "save")'
               PROVE  SaveOK(p)'
    BY DEF SavesOK
  <2>1. AtCall(p, "save") /\ SaveOK(p) /\ call'[p].by = call[p].by /\ call'[p].copy = call[p].copy
    BY <1>3 DEF Budget, SavesOK, CallsAs, AtCall
  <2>2. PICK c : c = call[p]
    OBVIOUS
  <2>3. PICK s : s = c.copy.session
    OBVIOUS
  <2>4. Base(s)' = Base(s)
    BY DEF Base
  <2>5. call'[p].by = c.by /\ call'[p].copy = c.copy
    BY <2>1, <2>2
  <2>6. /\ s \in Id
        /\ c.by = s \/ {c.by, s} \subseteq blurred
        /\ s \notin blurred =>
             c.copy.usage = Base(s) /\ \A q \in Call : AtCall(q, "save") => q = p
        /\ \A t \in Ids \ blurred : t # s => tracker.session # t
    BY <2>1, <2>2, <2>3 DEF SaveOK
  <2>7. (Base(call[p].copy.session))' = Base(s)
    BY <2>3, <2>4, <2>5 DEF Base
  <2> QED
    BY <1>1, <1>3, <2>3, <2>5, <2>6, <2>7 DEF SaveOK
<1>6. LinesOK'
  <2>1. InFlight' = InFlight /\ Writing' = Writing
    BY <1>3 DEF InFlight, Writing, CallsAs
  <2>2. \A p \in Call : AtCall(p, "save")' => AtCall(p, "save") /\ call'[p].copy = call[p].copy
    BY <1>3 DEF CallsAs, AtCall
  <2> QED
    BY <2>1, <2>2 DEF Budget, LinesOK
<1> QED
  BY <1>2, <1>4, <1>5, <1>6 DEF Budget

(* Writes that were allowed stay so while the constitution does.           *)
LEMMA GuardedKeeps ==
  ASSUME GuardedWrites, constitution' = constitution,
         \A p \in Call : AtCall(p, "write")' /\ call'[p].calm =>
           /\ AtCall(p, "write") /\ call[p].calm
           /\ call'[p].path = call[p].path /\ call'[p].agent = call[p].agent
  PROVE  GuardedWrites'
BY DEF GuardedWrites

(* Guarded writes stay so while calls and constitution do.                 *)
LEMMA GuardedAs ==
  ASSUME GuardedWrites, constitution' = constitution, CallsAs
  PROVE  GuardedWrites'
BY GuardedKeeps DEF CallsAs, AtCall

(* A step that no start or finish takes.                                   *)
LEMMA SessionsKeep ==
  ASSUME SessionsOK, cmd' = cmd, active' = active, used'.sessions = used.sessions,
         \A i \in Id : Unused(i) => Unused(i)', TypeOK
  PROVE  SessionsOK'
<1>1. \A a \in Agent : (Starting(a)' <=> Starting(a))
                       /\ (Starting(a) => cmd[a].id \in Id)
                       /\ (At(a, "compose")' <=> At(a, "compose"))
                       /\ (At(a, "seal")' <=> At(a, "seal"))
  BY Fields DEF Starting, At
<1> QED
  BY <1>1 DEF SessionsOK

(* Unused ids stay so unless someone starts with one, or calls a tool.     *)
LEMMA UnusedKeeps ==
  ASSUME CallsAs, ClosesOnly, UNCHANGED <<tracker, charged>>, NEW i, Unused(i),
         i \notin (memento' \cup index') \ (memento \cup index),
         gc' # None /\ i \in gc'.removed => gc # None /\ i \in gc.removed
  PROVE  Unused(i)'
BY ClosesIds DEF Unused, CallsAs

(* A step of the start or finish of one agent.                             *)
LEMMA SessionsNext ==
  ASSUME SessionsOK, TypeOK, NEW a \in Agent,
         \A b \in Agent \ {a} : cmd'[b] = cmd[b] /\ active'[b] = active[b],
         used.sessions \in Nat, used'.sessions \in Nat, used'.sessions >= used.sessions,
         \A i \in Id : i > used'.sessions => Unused(i)',
         \A b \in Agent \ {a} : Starting(b) => (Unused(cmd[b].id))',
         Starting(a)' =>
           /\ active'[a] = None /\ (Unused(cmd[a].id))'
           /\ \/ Starting(a) /\ cmd'[a].id = cmd[a].id
              \/ cmd'[a].id = used.sessions + 1 /\ cmd'[a].id = used'.sessions,
         cmd'[a] # None /\ ~Starting(a)' => active'[a] = cmd'[a].id,
         At(a, "compose")' \/ At(a, "seal")' => cmd'[a].rules # None,
         active'[a] \in {None, active[a]} \/ (Starting(a) /\ active'[a] = cmd[a].id)
  PROVE  SessionsOK'
<1>1. \A b \in Agent \ {a} : /\ Starting(b)' <=> Starting(b)
                             /\ At(b, "compose")' <=> At(b, "compose")
                             /\ At(b, "seal")' <=> At(b, "seal")
  BY DEF Starting, At
<1>2. \A b \in Agent : Starting(b) => cmd[b].id \in Id /\ cmd[b].id \in Nat
                                      /\ cmd[b].id <= used.sessions
  BY Fields, IdsAre DEF SessionsOK, Starting, At
<1>3. \A b \in Agent : Starting(b)' =>
        active'[b] = None /\ cmd'[b].id <= used'.sessions /\ (Unused(cmd[b].id))'
  <2>1. CASE Starting(a)'
    BY <1>1, <1>2, <2>1 DEF SessionsOK
  <2> QED
    BY <1>1, <1>2, <2>1 DEF SessionsOK
<1>4. \A b, e \in Agent : Starting(b)' /\ Starting(e)' /\ cmd'[b].id = cmd'[e].id => b = e
  <2>1. ASSUME NEW b \in Agent \ {a}, Starting(b)', Starting(a)', cmd'[b].id = cmd'[a].id
        PROVE  FALSE
    BY <1>1, <1>2, <2>1 DEF SessionsOK
  <2> QED
    BY <1>1, <2>1 DEF SessionsOK
<1>5. \A b \in Agent : cmd'[b] # None /\ ~Starting(b)' => active'[b] = cmd'[b].id
  BY <1>1 DEF SessionsOK
<1>6. \A b \in Agent : At(b, "compose")' \/ At(b, "seal")' => cmd'[b].rules # None
  BY <1>1 DEF SessionsOK
<1>7. \A b, e \in Agent : active'[b] # None /\ active'[b] = active'[e] => b = e
  <2>1. ASSUME NEW b \in Agent \ {a}, active'[b] # None, active'[b] = active'[a]
        PROVE  FALSE
    <3>1. active[b] \in Ids
      BY <2>1 DEF Ids, Listed
    <3>2. ~(Starting(a) /\ active'[a] = cmd[a].id)
      BY <2>1, <3>1 DEF SessionsOK, Unused
    <3> QED
      BY <2>1, <3>2 DEF SessionsOK
  <2> QED
    BY <2>1 DEF SessionsOK
<1> QED
  BY <1>3, <1>4, <1>5, <1>6, <1>7 DEF SessionsOK

(* Mementos and their index stay as they are.                              *)
LEMMA FilesKeep ==
  ASSUME FilesOK, IndexAgrees, UNCHANGED <<memento, index, odd, gc>>, Finishing' = Finishing,
         \A i \in Ids' \ Ids : i \notin memento /\ (gc # None => i \notin gc.removed),
         \A a \in Agent : At(a, "index")' => At(a, "index") /\ cmd'[a].id = cmd[a].id
  PROVE  FilesOK' /\ IndexAgrees'
<1>1. IndexAgrees'
  BY DEF IndexAgrees
<1>2. FilesOK'
  BY DEF FilesOK
<1> QED
  BY <1>1, <1>2
-----------------------------------------------------------------------------
(* The steps of start and finish.                                          *)
Advanced(a, n) ==
  /\ cmd' \in [Agent -> CommandState \cup {None}]
  /\ cmd'[a] = n /\ \A b \in Agent \ {a} : cmd'[b] = cmd[b]

(* Advancing changes the agent's own command only.                         *)
LEMMA AdvanceDoes ==
  ASSUME TypeOK, NEW a \in Agent, NEW n \in CommandState \cup {None}, Advance(a, n)
  PROVE  Advanced(a, n)
BY DEF TypeOK, Advance, Advanced

(* The parts of the invariant every step uses.                             *)
LEMMA InvParts ==
  ASSUME HooksInv
  PROVE  /\ TypeOK /\ SessionsOK /\ SettledOK /\ Budget /\ FilesOK /\ GuardedWrites /\ IndexAgrees
         /\ used.sessions \in Nat /\ used.calls \in Nat
BY ConstantsAssumption DEF HooksInv, Budget, TypeOK

(* A start that composes has the rules of the governance lock.             *)
LEMMA Composed ==
  ASSUME TypeOK, NEW step \in {"compose", "open", "seal"}, NEW i \in Id
  PROVE  /\ Composing(step, i) \in CommandState
         /\ Composing(step, i).at = step /\ Composing(step, i).id = i
         /\ Composing(step, i).rules = glock
BY DEF TypeOK, Composing, CommandState

(* A step of a start or finish that changes no policy and no tool's work.  *)
LEMMA CommandKeeps ==
  ASSUME HooksInv, TypeOK', CallsAs, ClosesOnly,
         UNCHANGED <<tracker, charged, blurred, constitution>>, used'.calls = used.calls,
         SessionsOK', SettledOK', FilesOK', IndexAgrees'
  PROVE  HooksInv'
<1>1. Budget'
  BY InvParts, BudgetKeeps
<1>2. GuardedWrites'
  BY InvParts, GuardedAs
<1> QED
  BY <1>1, <1>2 DEF HooksInv, Budget

(* Ids that are unused, when no memento, line or gc is new.                *)
LEMMA AllUnusedKeep ==
  ASSUME CallsAs, ClosesOnly, UNCHANGED <<tracker, charged, memento, index, gc>>
  PROVE  \A i : Unused(i) => Unused(i)'
BY UnusedKeeps

(* Beginning a session keeps the invariant.                                *)
LEMMA BeginStartKeeps ==
  ASSUME HooksInv, NEW a \in Agent, BeginStart(a)
  PROVE  HooksInv'
<1>1. /\ cmd[a] = None /\ active[a] = None /\ used.sessions + 1 \in Id
      /\ used' = [used EXCEPT !.sessions = @ + 1] /\ settled' = settled \cup {a}
      /\ UNCHANGED <<constitution, glock, seal, active, tracker, memento, index, call, gc,
                     charged, blurred, odd>>
  BY InvParts, ConstantsAssumption DEF BeginStart, policy, files, history, TypeOK, Id
<1>2. PICK i \in Id : i = used.sessions + 1
  BY <1>1
<1>3. PICK n \in CommandState : /\ Advance(a, n) /\ n.id = i /\ n.at \in {"compose", "open"}
                                /\ n.at = "compose" => n.rules \in Text
                                /\ n.at = "open" => Valid(seal)
  <2> DEFINE c == Composing("compose", i)
             d == [c EXCEPT !.at = "open", !.rules = None]
  <2>1. c \in CommandState /\ c.at = "compose" /\ c.id = i /\ c.rules = glock /\ glock \in Text
    BY Composed, InvParts DEF TypeOK
  <2>2. d \in CommandState /\ d.at = "open" /\ d.id = i
    BY <2>1 DEF CommandState
  <2>3. Advance(a, IF Valid(seal) THEN d ELSE c)
    BY <1>2 DEF BeginStart
  <2> HIDE DEF c, d
  <2>4. CASE Valid(seal)
    BY <2>2, <2>3, <2>4
  <2>5. CASE ~Valid(seal)
    BY <2>1, <2>3, <2>5
  <2> QED
    BY <2>4, <2>5
<1>4. Advanced(a, n) /\ n # None
  BY <1>3, InvParts, AdvanceDoes, NoneAssumption
<1>5. used'.sessions = used.sessions + 1 /\ used'.calls = used.calls
      /\ used' \in [sessions: 0 .. MaxSessions, calls: 0 .. MaxCalls, others: 0 .. MaxOthers]
  BY <1>1, InvParts DEF TypeOK, Id
<1>6. TypeOK'
  BY <1>1, <1>4, <1>5, InvParts DEF TypeOK, Advanced
<1>7. CallsAs /\ ClosesOnly
  BY <1>1, SameCalls DEF ClosesOnly
<1>8. \A j : Unused(j) => Unused(j)'
  BY <1>1, <1>7, AllUnusedKeep
<1>9. SessionsOK'
  <2>1. Unused(i) /\ (Unused(cmd[a].id))'
    <3>1. Unused(i)
      BY <1>2, InvParts DEF SessionsOK
    <3>2. cmd'[a].id = i
      BY <1>3, <1>4 DEF Advanced
    <3> QED
      BY <1>8, <3>1, <3>2 DEF Unused
  <2>2. \A j \in Id : j > used'.sessions => Unused(j)'
    BY <1>5, <1>8, InvParts, IdsAre DEF SessionsOK
  <2>3. \A b \in Agent \ {a} : Starting(b) => (Unused(cmd[b].id))'
    BY <1>4, <1>8, InvParts DEF SessionsOK, Advanced, Unused
  <2>4. Starting(a)' /\ cmd'[a].id = used'.sessions /\ cmd'[a].id = used.sessions + 1
    BY <1>2, <1>3, <1>4, <1>5 DEF Starting, At, Advanced
  <2>5. At(a, "compose")' \/ At(a, "seal")' => cmd'[a].rules # None
    BY <1>3, <1>4, NoneAssumption DEF At, Advanced
  <2>6. \A b \in Agent \ {a} : cmd'[b] = cmd[b] /\ active'[b] = active[b]
    BY <1>1, <1>4 DEF Advanced
  <2> QED
    BY <1>1, <1>5, <2>1, <2>2, <2>3, <2>4, <2>5, <2>6, InvParts, SessionsNext
<1>10. SettledOK'
  <2>1. At(a, "compose")' \/ Valid(seal)
    BY <1>3, <1>4 DEF At, Advanced
  <2>2. \A b \in Agent \ {a} : At(b, "compose")' <=> At(b, "compose")
    BY <1>4 DEF At, Advanced
  <2>3. Valid(seal)' <=> Valid(seal)
    BY <1>1 DEF Valid
  <2>4. settled \subseteq Agent
    BY InvParts DEF TypeOK
  <2> QED
    BY <1>1, <2>1, <2>2, <2>3, <2>4, InvParts DEF SettledOK
<1>11. \A b \in Agent : (At(b, "index")' <=> At(b, "index"))
                        /\ (At(b, "index") => cmd'[b].id = cmd[b].id)
  BY <1>1, <1>3, <1>4 DEF At, Advanced
<1>12. Finishing' = Finishing
  BY <1>11 DEF Finishing
<1>13. FilesOK' /\ IndexAgrees'
  BY <1>1, <1>7, <1>11, <1>12, InvParts, ClosesIds, FilesKeep
<1> QED
  BY <1>1, <1>5, <1>6, <1>7, <1>9, <1>10, <1>13, CommandKeeps
(* A step of a start or finish that is under way.                          *)
LEMMA SessionsGoOn ==
  ASSUME HooksInv, NEW a \in Agent, NEW n, Advanced(a, n), used' = used,
         \A b \in Agent \ {a} : active'[b] = active[b], active'[a] \in {None, active[a]},
         \A j \in Id : Unused(j) => Unused(j)',
         \/ n = None
         \/ /\ n.at \in {"seal", "memento", "index"} /\ active'[a] = n.id
            /\ n.at = "seal" => n.rules # None
         \/ n.at = "open" /\ Starting(a) /\ n.id = cmd[a].id /\ active'[a] = None
  PROVE  SessionsOK'
<1>1. TypeOK /\ SessionsOK /\ used.sessions \in Nat
  BY InvParts
<1>2. \A j \in Id : j > used'.sessions => Unused(j)'
  BY <1>1 DEF SessionsOK
<1>3. \A b \in Agent : Starting(b) => cmd[b].id \in Id /\ Unused(cmd[b].id)
  BY <1>1, Fields DEF SessionsOK, Starting, At
<1>4. \A b \in Agent \ {a} : Starting(b) => (Unused(cmd[b].id))'
  BY <1>3 DEF Advanced, Unused
<1>5. Starting(a)' => /\ n.at = "open" /\ Starting(a) /\ n.id = cmd[a].id /\ active'[a] = None
                      /\ (Unused(cmd[a].id))'
  <2> SUFFICES ASSUME Starting(a)'
               PROVE  /\ n.at = "open" /\ Starting(a) /\ n.id = cmd[a].id /\ active'[a] = None
                      /\ (Unused(cmd[a].id))'
    OBVIOUS
  <2>1. n.at = "open" /\ Starting(a) /\ n.id = cmd[a].id /\ active'[a] = None
    BY DEF Starting, At, Advanced
  <2>2. PICK j \in Id : j = cmd[a].id
    BY <1>3, <2>1
  <2>3. Unused(j)' /\ cmd'[a].id = j
    BY <1>3, <2>1, <2>2 DEF Advanced
  <2> QED
    BY <2>1, <2>3 DEF Unused
<1>6. cmd'[a] # None /\ ~Starting(a)' => active'[a] = cmd'[a].id
  BY DEF Starting, At, Advanced
<1>7. At(a, "compose")' \/ At(a, "seal")' => cmd'[a].rules # None
  BY DEF At, Advanced
<1>8. \A b \in Agent \ {a} : cmd'[b] = cmd[b] /\ active'[b] = active[b]
  BY DEF Advanced
<1>9. Starting(a)' => Starting(a) /\ cmd'[a].id = cmd[a].id /\ active'[a] = None
                      /\ (Unused(cmd[a].id))'
  BY <1>5 DEF Advanced
<1> QED
  BY <1>1, <1>2, <1>4, <1>6, <1>7, <1>8, <1>9, SessionsNext

(* No seal changes, and a start that goes on composing stays.              *)
LEMMA SettledKeeps ==
  ASSUME SettledOK, UNCHANGED <<seal, constitution>>, settled' \subseteq settled,
         \A b \in settled' : At(b, "compose") => At(b, "compose")'
  PROVE  SettledOK'
<1>1. Valid(seal)' <=> Valid(seal)
  BY DEF Valid
<1> QED
  BY <1>1 DEF SettledOK

(* A start or finish goes on, whatever became of its seal.                 *)
LEMMA PastSealKeeps ==
  ASSUME HooksInv, NEW a \in Agent, NEW step \in {"open", "memento"},
         At(a, IF step = "open" THEN "compose" ELSE "seal"),
         Advance(a, [cmd[a] EXCEPT !.at = step, !.rules = None]),
         seal' \in Seal \cup {None}, CallsAs, call' \in [Call -> CallState \cup {None}],
         settled' \subseteq settled, SettledOK',
         UNCHANGED <<policy, active, tracker, files, gc, history, odd, used>>
  PROVE  HooksInv'
<1>1. UNCHANGED <<constitution, glock, active, tracker, memento, index, gc, charged, blurred,
                  odd, used>>
  BY DEF policy, files, history
<1>2. PICK c \in CommandState : c = cmd[a]
  BY InvParts, Fields DEF At
<1>3. c.at = IF step = "open" THEN "compose" ELSE "seal"
  BY <1>2 DEF At
<1>5. PICK n \in CommandState : n.at = step /\ n.id = c.id /\ Advance(a, n)
  <2> DEFINE n == [c EXCEPT !.at = step, !.rules = None]
  <2>1. n \in CommandState /\ n.at = step /\ n.id = c.id
    BY DEF CommandState
  <2>2. Advance(a, n)
    BY <1>2
  <2> HIDE DEF n
  <2> QED
    BY <2>1, <2>2
<1>6. Advanced(a, n) /\ n # None
  BY <1>5, InvParts, AdvanceDoes, NoneAssumption
<1>9. TypeOK'
  BY <1>1, <1>6, InvParts DEF TypeOK, Advanced
<1>10. ClosesOnly
  BY <1>1 DEF ClosesOnly
<1>11. \A j : Unused(j) => Unused(j)'
  BY <1>1, <1>10, AllUnusedKeep
<1>12. SessionsOK'
  <2>1. (c.at = "compose" => Starting(a) /\ active[a] = None)
        /\ (c.at = "seal" => active[a] = c.id)
    BY <1>2, InvParts, NoneAssumption DEF SessionsOK, Starting, At
  <2>2. \/ n.at = "memento" /\ active'[a] = n.id
        \/ n.at = "open" /\ Starting(a) /\ n.id = cmd[a].id /\ active'[a] = None
    BY <1>1, <1>2, <1>3, <1>5, <2>1
  <2> QED
    BY <1>1, <1>6, <1>11, <2>2, SessionsGoOn
<1>14. \A b \in Agent : (At(b, "index")' <=> At(b, "index"))
                        /\ (At(b, "index") => cmd'[b].id = cmd[b].id)
  BY <1>2, <1>3, <1>5, <1>6 DEF At, Advanced
<1>15. Finishing' = Finishing
  BY <1>14 DEF Finishing
<1>16. FilesOK' /\ IndexAgrees'
  BY <1>1, <1>10, <1>14, <1>15, InvParts, ClosesIds, FilesKeep
<1> QED
  BY <1>1, <1>9, <1>10, <1>12, <1>16, CommandKeeps

(* Both write a seal of the constitution as it is.                         *)
LEMMA SealKeeps ==
  ASSUME HooksInv, NEW a \in Agent, NEW step \in {"open", "memento"},
         At(a, IF step = "open" THEN "compose" ELSE "seal"), WriteSeal(a, step),
         UNCHANGED <<policy, active, tracker, files, gc, history, odd, used>>
  PROVE  HooksInv'
<1>1. UNCHANGED constitution /\ constitution \in Text
  BY InvParts DEF policy, TypeOK
<1>2. cmd[a].rules \in Text /\ seal' = [source |-> constitution, rules |-> cmd[a].rules]
  BY InvParts, Fields DEF SessionsOK, WriteSeal, At
<1>3. seal' \in Seal /\ Valid(seal)'
  <2>1. seal' \in Seal /\ seal'.source = constitution'
    BY <1>1, <1>2 DEF Seal
  <2> QED
    BY <2>1, NoneAssumption DEF Valid
<1>4. (settled' = settled /\ call' = call) \/ (settled' = {} /\ call' = Unsettled)
  BY DEF WriteSeal
<1>5. /\ CallsAs /\ call' \in [Call -> CallState \cup {None}]
      /\ settled' \subseteq settled
  BY <1>4, InvParts, SameCalls, UnsettledAs DEF TypeOK
<1>6. SettledOK'
  BY <1>3 DEF SettledOK
<1>7. Advance(a, [cmd[a] EXCEPT !.at = step, !.rules = None])
  BY DEF WriteSeal
<1> QED
  BY <1>3, <1>5, <1>6, <1>7, PastSealKeeps

(* A seal that fails is as it was, or gone, and its start has not settled. *)
LEMMA SealFailsKeeps ==
  ASSUME HooksInv, NEW a \in Agent, SealFails(a)
  PROVE  HooksInv'
<1>1. PICK step \in {"open", "memento"} :
        At(a, IF step = "open" THEN "compose" ELSE "seal")
  BY DEF SealFails
<1>2. step = "open" <=> At(a, "compose")
  BY <1>1 DEF At
<1>3. /\ Advance(a, [cmd[a] EXCEPT !.at = step, !.rules = None])
      /\ seal' \in {seal, None} /\ call' = call
      /\ UNCHANGED <<policy, active, tracker, files, gc, history, odd, used>>
  BY <1>2 DEF SealFails
<1>4. seal' \in Seal \cup {None} /\ CallsAs /\ call' \in [Call -> CallState \cup {None}]
  BY <1>3, InvParts, SameCalls DEF TypeOK
<1>5. settled' = IF seal' # seal THEN {}
                 ELSE IF At(a, "compose") THEN settled \ {a} ELSE settled
  BY DEF SealFails
<1>6. \A b \in Agent : b # a => (At(b, "compose") <=> At(b, "compose")')
  BY <1>3, InvParts DEF At, Advance, TypeOK
<1>7. SettledOK'
  <2>1. CASE seal' = seal
    <3>1. \A b \in settled' : At(b, "compose") => At(b, "compose")'
      BY <1>5, <1>6, <2>1, InvParts DEF TypeOK
    <3> QED
      BY <1>3, <1>5, <2>1, <3>1, InvParts, SettledKeeps DEF policy
  <2>2. CASE seal' # seal
    BY <1>5, <2>2 DEF SettledOK
  <2> QED
    BY <2>1, <2>2
<1> QED
  BY <1>1, <1>3, <1>4, <1>5, <1>7, PastSealKeeps

(* Beginning to end a session keeps the invariant.                         *)
LEMMA BeginEndKeeps ==
  ASSUME HooksInv, NEW a \in Agent, BeginEnd(a)
  PROVE  HooksInv'
<1>1. /\ cmd[a] = None /\ active[a] # None
      /\ UNCHANGED <<constitution, glock, seal, active, tracker, memento, index, call, gc,
                     charged, blurred, settled, odd, used>>
  BY DEF BeginEnd, policy, files, history
<1>2. PICK i \in Id : i = active[a]
  BY <1>1, InvParts, Fields
<1>3. PICK n \in CommandState : n.at = "seal" /\ n.id = i /\ n.rules = glock /\ Advance(a, n)
  BY <1>2, InvParts, Composed DEF BeginEnd
<1>4. Advanced(a, n) /\ n # None /\ n.rules # None
  BY <1>3, InvParts, AdvanceDoes, NoneAssumption DEF TypeOK
<1>5. TypeOK'
  BY <1>1, <1>4, InvParts DEF TypeOK, Advanced
<1>6. CallsAs /\ ClosesOnly
  BY <1>1, SameCalls DEF ClosesOnly
<1>7. \A j : Unused(j) => Unused(j)'
  BY <1>1, <1>6, AllUnusedKeep
<1>8. SessionsOK'
  BY <1>1, <1>2, <1>3, <1>4, <1>7, SessionsGoOn
<1>9. SettledOK'
  <2>1. \A b \in settled : At(b, "compose") => At(b, "compose")'
    BY <1>1, <1>4, InvParts DEF At, Advanced, TypeOK
  <2>2. Valid(seal)' <=> Valid(seal)
    BY <1>1 DEF Valid
  <2> QED
    BY <1>1, <2>1, <2>2, InvParts DEF SettledOK
<1>10. \A b \in Agent : (At(b, "index")' <=> At(b, "index"))
                        /\ (At(b, "index") => cmd'[b].id = cmd[b].id)
  BY <1>1, <1>3, <1>4 DEF At, Advanced
<1>11. Finishing' = Finishing
  BY <1>10 DEF Finishing
<1>12. FilesOK' /\ IndexAgrees'
  BY <1>1, <1>6, <1>10, <1>11, InvParts, ClosesIds, FilesKeep
<1> QED
  BY <1>1, <1>5, <1>6, <1>8, <1>9, <1>12, CommandKeeps

(* Writing the memento keeps the invariant.                                *)
LEMMA WriteMementoKeeps ==
  ASSUME HooksInv, NEW a \in Agent, WriteMemento(a)
  PROVE  HooksInv'
<1>1. PICK c \in CommandState : c = cmd[a]
  BY InvParts, Fields DEF WriteMemento, At
<1>2. PICK i \in Id : i = c.id
  BY DEF CommandState
<1>3. /\ c.at = "memento" /\ active[a] = i /\ i \in Ids /\ memento' = memento \cup {i}
      /\ UNCHANGED <<constitution, glock, seal, active, tracker, index, call, gc,
                     charged, blurred, settled, odd, used>>
  <2>1. c.at = "memento" /\ active[a] = i
    BY <1>1, <1>2, InvParts DEF WriteMemento, At, Starting, SessionsOK
  <2>2. i \in Ids
    BY <2>1, InvParts, IdsAre
  <2> QED
    BY <1>1, <1>2, <2>1, <2>2 DEF WriteMemento, policy, files, history
<1>4. PICK n \in CommandState : n.at = "index" /\ n.id = i /\ Advance(a, n)
  <2> DEFINE n == [c EXCEPT !.at = "index"]
  <2>1. n \in CommandState /\ n.at = "index" /\ n.id = i
    BY <1>2 DEF CommandState
  <2>2. Advance(a, n)
    BY <1>1 DEF WriteMemento
  <2> HIDE DEF n
  <2> QED
    BY <2>1, <2>2
<1>5. Advanced(a, n) /\ n # None
  BY <1>4, InvParts, AdvanceDoes, NoneAssumption
<1>6. TypeOK'
  BY <1>3, <1>5, InvParts DEF TypeOK, Advanced
<1>7. CallsAs /\ ClosesOnly
  BY <1>3, SameCalls DEF ClosesOnly
<1>8. \A j : Unused(j) => Unused(j)'
  <2> SUFFICES ASSUME NEW j, Unused(j) PROVE Unused(j)'
    OBVIOUS
  <2>1. j # i
    BY <1>3 DEF Unused
  <2> QED
    BY <1>3, <1>7, <2>1, UnusedKeeps
<1>9. SessionsOK'
  BY <1>3, <1>4, <1>5, <1>8, SessionsGoOn
<1>10. SettledOK'
  <2>1. \A b \in settled : At(b, "compose") => At(b, "compose")'
    BY <1>1, <1>3, <1>5, InvParts DEF At, Advanced, TypeOK
  <2> QED
    BY <1>3, <2>1, InvParts, SettledKeeps
<1>11. \A b \in Agent : /\ At(b, "index")' <=> At(b, "index") \/ b = a
                        /\ At(b, "index") => cmd'[b].id = cmd[b].id /\ b # a
  BY <1>1, <1>3, <1>4, <1>5 DEF At, Advanced
<1>12. cmd'[a].id = i
  BY <1>4, <1>5 DEF Advanced
<1>13. Finishing' = Finishing \cup {i}
  BY <1>11, <1>12 DEF Finishing
<1>14. Ids' = Ids
  BY <1>3 DEF Ids, Listed
<1>15. FilesOK'
  <2>1. \A j \in memento' \ odd : j \in Ids => j \in Finishing'
    BY <1>3, <1>13, InvParts DEF FilesOK
  <2>2. \A b \in Agent : At(b, "index")' => cmd'[b].id \in memento' \cup odd
    BY <1>3, <1>11, <1>12, InvParts DEF FilesOK
  <2>3. gc # None => \A j \in gc.removed \ odd : j \notin Ids \cup memento'
    BY <1>3, InvParts DEF FilesOK
  <2> QED
    BY <1>3, <1>14, <2>1, <2>2, <2>3, InvParts DEF FilesOK
<1>16. IndexAgrees'
  BY <1>3, <1>13, InvParts DEF IndexAgrees
<1> QED
  BY <1>3, <1>6, <1>7, <1>9, <1>10, <1>15, <1>16, CommandKeeps

(* Appending to the index keeps the invariant.                             *)
LEMMA AppendIndexKeeps ==
  ASSUME HooksInv, NEW a \in Agent, AppendIndex(a)
  PROVE  HooksInv'
<1>1. PICK c \in CommandState : c = cmd[a]
  BY InvParts, Fields DEF AppendIndex, At
<1>2. PICK i \in Id : i = c.id
  BY DEF CommandState
<1>3. /\ c.at = "index" /\ active[a] = i /\ i \in Ids /\ index' = index \cup {i}
      /\ active' = [active EXCEPT ![a] = None] /\ settled' = settled \ {a}
      /\ Advance(a, None)
      /\ UNCHANGED <<constitution, glock, seal, tracker, memento, call, gc,
                     charged, blurred, odd, used>>
  <2>1. c.at = "index" /\ active[a] = i
    BY <1>1, <1>2, InvParts DEF AppendIndex, At, Starting, SessionsOK
  <2>2. i \in Ids
    BY <2>1, InvParts, IdsAre
  <2> QED
    BY <1>1, <1>2, <2>1, <2>2 DEF AppendIndex, policy, history
<1>4. Advanced(a, None)
  BY <1>3, InvParts, AdvanceDoes
<1>5. active'[a] = None /\ \A b \in Agent \ {a} : active'[b] = active[b]
  BY <1>3, InvParts DEF TypeOK
<1>6. TypeOK'
  BY <1>3, <1>4, InvParts DEF TypeOK, Advanced
<1>7. CallsAs /\ ClosesOnly
  BY <1>3, <1>5, SameCalls DEF ClosesOnly
<1>8. \A j : Unused(j) => Unused(j)'
  <2> SUFFICES ASSUME NEW j, Unused(j) PROVE Unused(j)'
    OBVIOUS
  <2>1. j # i
    BY <1>3 DEF Unused
  <2> QED
    BY <1>3, <1>7, <2>1, UnusedKeeps
<1>9. SessionsOK'
  BY <1>3, <1>4, <1>5, <1>8, SessionsGoOn
<1>10. SettledOK'
  <2>1. \A b \in settled' : At(b, "compose") => At(b, "compose")'
    BY <1>3, <1>4, InvParts DEF At, Advanced, TypeOK
  <2> QED
    BY <1>3, <2>1, InvParts, SettledKeeps
<1>11. \A b \in Agent : /\ At(b, "index")' <=> At(b, "index") /\ b # a
                        /\ b # a => cmd'[b].id = cmd[b].id
  BY <1>4 DEF At, Advanced
<1>12. \A b \in Agent \ {a} : active[b] # i
  BY <1>3, InvParts, IdsAre DEF SessionsOK
<1>13. \A b \in Agent \ {a} : At(b, "index") => cmd[b].id # i
  BY <1>12, InvParts DEF SessionsOK, Starting, At
<1>14. Finishing' = Finishing \ {i} /\ i \in Finishing
  <2>1. At(a, "index") /\ cmd[a].id = i
    BY <1>1, <1>2 DEF AppendIndex
  <2>2. i \in Finishing
    BY <2>1 DEF Finishing
  <2>3. ASSUME NEW j PROVE j \in Finishing' <=> j \in Finishing /\ j # i
    <3>1. ASSUME j \in Finishing' PROVE j \in Finishing /\ j # i
      BY <1>11, <1>13, <3>1 DEF Finishing
    <3>2. ASSUME j \in Finishing, j # i PROVE j \in Finishing'
      <4>1. PICK b \in Agent : At(b, "index") /\ cmd[b].id = j
        BY <3>2 DEF Finishing
      <4> QED
        BY <1>11, <2>1, <3>2, <4>1 DEF Finishing
    <3> QED
      BY <3>1, <3>2
  <2> QED
    BY <2>2, <2>3
<1>15. Ids' \subseteq Ids \ {i}
  BY <1>5, <1>12 DEF Ids, Listed
<1>16. FilesOK'
  <2>1. \A j \in memento \ odd : j \in Ids' => j \in Finishing'
    BY <1>14, <1>15, InvParts DEF FilesOK
  <2>2. \A b \in Agent : At(b, "index")' => cmd'[b].id \in memento \cup odd
    BY <1>11, InvParts DEF FilesOK
  <2>3. gc # None => \A j \in gc.removed \ odd : j \notin Ids' \cup memento
    BY <1>15, InvParts DEF FilesOK
  <2>4. gc # None /\ gc.at = "rewrite" => gc.lines \subseteq index'
    BY <1>3, InvParts DEF FilesOK
  <2> QED
    BY <1>3, <2>1, <2>2, <2>3, <2>4, InvParts DEF FilesOK
<1>17. IndexAgrees'
  <2>1. i \in memento \cup odd
    BY <1>1, <1>2, <1>3, InvParts, NoneAssumption DEF FilesOK, At
  <2> QED
    BY <1>3, <1>14, <2>1, InvParts DEF IndexAgrees
<1> QED
  BY <1>3, <1>6, <1>7, <1>9, <1>10, <1>16, <1>17, CommandKeeps

(* A command that stops half way keeps the invariant.                      *)
LEMMA StopCommandKeeps ==
  ASSUME HooksInv, NEW a \in Agent, StopCommand(a)
  PROVE  HooksInv'
<1>1. PICK c \in CommandState : c = cmd[a] /\ c # None
  BY InvParts, Fields DEF StopCommand
<1>2. PICK i \in Id : i = c.id
  BY DEF CommandState
<1>3. /\ odd' = IF c.at = "index" THEN odd \cup {i} ELSE odd
      /\ settled' = IF active[a] = None THEN settled \ {a} ELSE settled
      /\ Advance(a, None)
      /\ UNCHANGED <<constitution, glock, seal, active, tracker, memento, index, call, gc,
                     charged, blurred, used>>
  BY <1>1, <1>2 DEF StopCommand, At, policy, files, history
<1>4. Advanced(a, None)
  BY <1>3, InvParts, AdvanceDoes
<1>5. odd' \subseteq Id /\ odd \subseteq odd' /\ settled' \subseteq settled
  BY <1>3, InvParts DEF TypeOK
<1>6. TypeOK'
  BY <1>3, <1>4, <1>5, InvParts DEF TypeOK, Advanced
<1>7. CallsAs /\ ClosesOnly
  BY <1>3, SameCalls DEF ClosesOnly
<1>8. \A j : Unused(j) => Unused(j)'
  BY <1>3, <1>7, AllUnusedKeep
<1>9. SessionsOK'
  BY <1>3, <1>4, <1>8, SessionsGoOn
<1>10. SettledOK'
  <2>1. At(a, "compose") => a \notin settled'
    BY <1>3, InvParts DEF SessionsOK, Starting
  <2>2. \A b \in settled' : At(b, "compose") => At(b, "compose")'
    BY <1>4, <1>5, <2>1, InvParts DEF At, Advanced, TypeOK
  <2> QED
    BY <1>3, <1>5, <2>2, InvParts, SettledKeeps
<1>11. \A b \in Agent : /\ At(b, "index")' <=> At(b, "index") /\ b # a
                        /\ b # a => cmd'[b].id = cmd[b].id
  BY <1>4 DEF At, Advanced
<1>12. Finishing' \subseteq Finishing /\ Finishing \subseteq Finishing' \cup odd'
  BY <1>1, <1>2, <1>3, <1>11 DEF Finishing, At
<1>13. Ids' = Ids
  BY <1>3 DEF Ids, Listed
<1>14. FilesOK'
  <2>1. \A j \in memento \ odd' : j \in Ids => j \in Finishing'
    BY <1>5, <1>12, InvParts DEF FilesOK
  <2>2. \A b \in Agent : At(b, "index")' => cmd'[b].id \in memento \cup odd'
    BY <1>5, <1>11, InvParts DEF FilesOK
  <2>3. gc # None => \A j \in gc.removed \ odd' : j \notin Ids \cup memento
    BY <1>5, InvParts DEF FilesOK
  <2> QED
    BY <1>3, <1>13, <2>1, <2>2, <2>3, InvParts DEF FilesOK
<1>15. IndexAgrees'
  BY <1>3, <1>5, <1>12, InvParts DEF IndexAgrees
<1> QED
  BY <1>3, <1>6, <1>7, <1>9, <1>10, <1>14, <1>15, CommandKeeps
-----------------------------------------------------------------------------
(* gc, and the constitution.                                               *)
LEMMA GcKeeps ==
  ASSUME HooksInv, TypeOK', FilesOK', IndexAgrees',
         UNCHANGED <<constitution, seal, active, tracker, cmd, call, charged, blurred, settled>>,
         used'.sessions = used.sessions, used'.calls = used.calls,
         memento' \subseteq memento, index' \subseteq index,
         gc' # None => (gc # None /\ gc'.removed = gc.removed) \/ gc'.removed \subseteq memento
  PROVE  HooksInv'
<1>1. CallsAs /\ ClosesOnly
  BY SameCalls DEF ClosesOnly
<1>2. \A i \in Id : Unused(i) => Unused(i)'
  <2> SUFFICES ASSUME NEW i \in Id, Unused(i) PROVE Unused(i)'
    OBVIOUS
  <2>1. gc' # None /\ i \in gc'.removed => gc # None /\ i \in gc.removed
    BY DEF Unused
  <2>2. i \notin (memento' \cup index') \ (memento \cup index)
    OBVIOUS
  <2> QED
    BY <1>1, <2>1, <2>2, UnusedKeeps
<1>3. SessionsOK'
  BY <1>2, InvParts, SessionsKeep
<1>4. SettledOK'
  <2>1. \A b \in settled' : At(b, "compose") => At(b, "compose")'
    BY DEF At
  <2> QED
    BY <2>1, InvParts, SettledKeeps
<1> QED
  BY <1>1, <1>3, <1>4, CommandKeeps

(* Removing mementos keeps the invariant.                                  *)
LEMMA GcRemoveKeeps ==
  ASSUME HooksInv, NEW removed \in SUBSET memento, GcRemove(removed)
  PROVE  HooksInv'
<1>1. /\ gc = None /\ memento' = memento \ removed /\ odd' = odd \cup (removed \cap Finishing)
      /\ used' = [used EXCEPT !.others = @ + 1] /\ used.others < MaxOthers
      /\ UNCHANGED <<constitution, glock, seal, active, tracker, index, cmd, call, charged,
                     blurred, settled>>
  BY DEF GcRemove, policy, history
<1>2. PICK g \in GcState : /\ g = [at |-> "read", removed |-> removed, lines |-> {}]
                           /\ g.at = "read" /\ g.removed = removed /\ g.lines = {}
  <2> DEFINE g == [at |-> "read", removed |-> removed, lines |-> {}]
  <2>1. g \in GcState /\ g.at = "read" /\ g.removed = removed /\ g.lines = {}
    BY InvParts DEF GcState, TypeOK
  <2> QED
    BY <2>1
<1>3. gc' = g /\ gc' # None
  BY <1>2, NoneAssumption DEF GcRemove
<1>4. used'.sessions = used.sessions /\ used'.calls = used.calls
      /\ used' \in [sessions: 0 .. MaxSessions, calls: 0 .. MaxCalls, others: 0 .. MaxOthers]
  BY <1>1, InvParts, ConstantsAssumption DEF TypeOK
<1>5. TypeOK'
  BY <1>1, <1>2, <1>3, <1>4, InvParts DEF TypeOK
<1>6. Finishing' = Finishing /\ Ids' = Ids
  BY <1>1 DEF Finishing, At, Ids, Listed
<1>7. FilesOK'
  <2>1. \A j \in removed \ odd' : j \notin Ids \cup memento'
    BY <1>1, InvParts DEF FilesOK
  <2>2. \A b \in Agent : At(b, "index") => cmd[b].id \in memento' \cup odd'
    BY <1>1, InvParts DEF FilesOK, Finishing
  <2>3. \A j \in memento' \ odd' : j \in Ids => j \in Finishing
    BY <1>1, InvParts DEF FilesOK
  <2>4. removed \subseteq Id
    BY InvParts DEF TypeOK
  <2> QED
    BY <1>1, <1>2, <1>3, <1>6, <2>1, <2>2, <2>3, <2>4 DEF FilesOK, At
<1>8. IndexAgrees'
  BY <1>1, <1>2, <1>3, <1>6, InvParts DEF IndexAgrees
<1>9. memento' \subseteq memento /\ index' \subseteq index
      /\ (gc' # None => gc'.removed \subseteq memento)
  BY <1>1, <1>2, <1>3
<1> QED
  BY <1>1, <1>4, <1>5, <1>7, <1>8, <1>9, GcKeeps

(* The collector's read of the index keeps the invariant.                  *)
LEMMA GcReadKeeps ==
  ASSUME HooksInv, GcRead
  PROVE  HooksInv'
<1>1. /\ gc # None /\ gc.at = "read"
      /\ UNCHANGED <<constitution, glock, seal, active, tracker, memento, index, cmd, call,
                     charged, blurred, settled, odd, used>>
  BY DEF GcRead, policy, files, history
<1>2. PICK h \in GcState : h = gc
  BY <1>1, InvParts DEF TypeOK
<1>3. Finishing' = Finishing /\ Ids' = Ids
  BY <1>1 DEF Finishing, At, Ids, Listed
<1>4. CASE gc' = None
  <2>1. index \cap h.removed = {}
    <3>1. Kept(index, gc.removed) # index => gc' # None
      <4> DEFINE g == [h EXCEPT !.at = "rewrite", !.lines = index]
      <4>1. g \in GcState
        BY InvParts DEF GcState, TypeOK
      <4>2. g # None
        BY <4>1, NoneAssumption
      <4> QED
        BY <1>2, <4>2 DEF GcRead
    <3> QED
      BY <1>2, <1>4, <3>1 DEF Kept
  <2>2. TypeOK'
    BY <1>1, <1>4, InvParts DEF TypeOK
  <2>3. FilesOK'
    BY <1>1, <1>3, <1>4, InvParts DEF FilesOK, At
  <2>4. IndexAgrees'
    <3>1. \A j \in h.removed \ odd : j \notin memento /\ j \notin index
      BY <1>1, <1>2, <2>1, InvParts DEF FilesOK
    <3> QED
      BY <1>1, <1>2, <1>3, <1>4, <3>1, InvParts DEF IndexAgrees
  <2> QED
    BY <1>1, <1>4, <2>2, <2>3, <2>4, GcKeeps
<1>5. CASE gc' # None
  <2>1. PICK g \in GcState : g = gc' /\ g.at = "rewrite" /\ g.lines = index /\ g.removed = h.removed
    <3> DEFINE g == [h EXCEPT !.at = "rewrite", !.lines = index]
    <3>1. g \in GcState /\ g.at = "rewrite" /\ g.lines = index /\ g.removed = h.removed
      BY InvParts DEF GcState, TypeOK
    <3>2. gc' = g
      BY <1>2, <1>5 DEF GcRead
    <3> HIDE DEF g
    <3> QED
      BY <3>1, <3>2
  <2>2. TypeOK'
    BY <1>1, <2>1, InvParts DEF TypeOK
  <2>3. FilesOK'
    <3>1. index \subseteq Id
      BY InvParts DEF TypeOK
    <3> QED
      BY <1>1, <1>2, <1>3, <1>5, <2>1, <3>1, InvParts DEF FilesOK, At
  <2>4. IndexAgrees'
    BY <1>1, <1>2, <1>3, <2>1, <1>5, InvParts DEF IndexAgrees
  <2> QED
    BY <1>1, <1>2, <2>1, <2>2, <2>3, <2>4, GcKeeps
<1> QED
  BY <1>4, <1>5

(* The collector's rewrite of the index keeps the invariant.               *)
LEMMA GcRewriteKeeps ==
  ASSUME HooksInv, GcRewrite
  PROVE  HooksInv'
<1>1. /\ gc # None /\ gc.at = "rewrite" /\ gc' = None
      /\ index' = gc.lines \ gc.removed /\ odd' = odd \cup (index \ gc.lines)
      /\ UNCHANGED <<constitution, glock, seal, active, tracker, memento, cmd, call,
                     charged, blurred, settled, used>>
  BY DEF GcRewrite, policy, history, Kept
<1>2. Finishing' = Finishing /\ Ids' = Ids
  BY <1>1 DEF Finishing, At, Ids, Listed
<1>3. index' \subseteq index /\ index \subseteq Id /\ odd' \subseteq Id /\ gc.lines \subseteq index
  BY <1>1, InvParts DEF FilesOK, TypeOK
<1>4. TypeOK'
  BY <1>1, <1>3, InvParts DEF TypeOK
<1>5. FilesOK'
  BY <1>1, <1>2, InvParts DEF FilesOK, At
<1>6. IndexAgrees'
  <2>1. \A j \in gc.removed \ odd : j \notin memento
    BY <1>1, InvParts DEF FilesOK
  <2> QED
    BY <1>1, <1>2, <1>3, <2>1, InvParts DEF IndexAgrees
<1> QED
  BY <1>1, <1>3, <1>4, <1>5, <1>6, GcKeeps

(* A collector that stops half way keeps the invariant.                    *)
LEMMA StopGcKeeps ==
  ASSUME HooksInv, StopGc
  PROVE  HooksInv'
<1>1. /\ gc # None /\ gc' = None /\ odd' = odd \cup gc.removed
      /\ UNCHANGED <<constitution, glock, seal, active, tracker, memento, index, cmd, call,
                     charged, blurred, settled, used>>
  BY DEF StopGc, policy, files, history
<1>2. Finishing' = Finishing /\ Ids' = Ids
  BY <1>1 DEF Finishing, At, Ids, Listed
<1>3. odd' \subseteq Id
  BY <1>1, InvParts, Fields DEF TypeOK
<1>4. TypeOK'
  BY <1>1, <1>3, InvParts DEF TypeOK
<1>5. FilesOK'
  BY <1>1, <1>2, InvParts DEF FilesOK, At
<1>6. IndexAgrees'
  BY <1>1, <1>2, InvParts DEF IndexAgrees
<1> QED
  BY <1>1, <1>4, <1>5, <1>6, GcKeeps

(* Building governance keeps the invariant.                                *)
LEMMA BuildGovernanceKeeps ==
  ASSUME HooksInv, BuildGovernance
  PROVE  HooksInv'
<1>1. /\ glock' = constitution
      /\ UNCHANGED <<constitution, seal, active, tracker, memento, index, cmd, call, gc,
                     charged, blurred, settled, odd, used>>
  BY DEF BuildGovernance, files, history
<1>2. TypeOK'
  BY <1>1, InvParts DEF TypeOK
<1>3. FilesOK' /\ IndexAgrees'
  BY <1>1, InvParts DEF FilesOK, IndexAgrees, Finishing, At, Ids, Listed
<1> QED
  BY <1>1, <1>2, <1>3, GcKeeps

(* An edited constitution keeps the invariant.                             *)
LEMMA EditConstitutionKeeps ==
  ASSUME HooksInv, NEW text \in Text, EditConstitution(text)
  PROVE  HooksInv'
<1>1. /\ constitution' = text /\ settled' = {} /\ call' = Unsettled
      /\ used' = [used EXCEPT !.others = @ + 1] /\ used.others < MaxOthers
      /\ UNCHANGED <<glock, seal, active, tracker, memento, index, cmd, gc, charged, blurred,
                     odd>>
  BY DEF EditConstitution, files, history
<1>2. /\ CallsAs /\ call' \in [Call -> CallState \cup {None}]
      /\ \A p \in Call : call'[p] # None => ~call'[p].calm
  BY <1>1, InvParts, UnsettledAs
<1>3. ClosesOnly
  BY <1>1 DEF ClosesOnly
<1>4. used'.sessions = used.sessions /\ used'.calls = used.calls
      /\ used' \in [sessions: 0 .. MaxSessions, calls: 0 .. MaxCalls, others: 0 .. MaxOthers]
  BY <1>1, InvParts, ConstantsAssumption DEF TypeOK
<1>5. TypeOK'
  BY <1>1, <1>2, <1>4, InvParts DEF TypeOK
<1>6. SessionsOK'
  BY <1>1, <1>2, <1>3, <1>4, InvParts, AllUnusedKeep, SessionsKeep
<1>7. SettledOK' /\ GuardedWrites'
  BY <1>1, <1>2 DEF SettledOK, GuardedWrites, AtCall
<1>8. FilesOK' /\ IndexAgrees'
  BY <1>1, InvParts DEF FilesOK, IndexAgrees, Finishing, At, Ids, Listed
<1>9. Budget'
  BY <1>1, <1>2, <1>3, <1>4, InvParts, BudgetKeeps
<1> QED
  BY <1>5, <1>6, <1>7, <1>8, <1>9 DEF HooksInv, Budget
-----------------------------------------------------------------------------
(* A session opens, and the tools of sessions.                             *)
LEMMA BlurDoes ==
  ASSUME TypeOK, NEW X \in SUBSET Id, Blur(X)
  PROVE  /\ blurred' = blurred \cup X /\ blurred' \subseteq Id
         /\ charged' \in [Id -> Usage]
         /\ \A s \in Id : charged'[s] = Nothing \/ charged'[s] = charged[s]
         /\ \A s \in Id \ blurred' : charged'[s] = charged[s]
         /\ \A s \in Id : charged'[s].loc \in Nat /\ charged'[s].loc <= charged[s].loc
<1>1. Nothing \in Usage /\ Nothing.loc = 0
  BY ConstantsAssumption DEF Nothing, Usage
<1>2. /\ blurred' = blurred \cup X /\ blurred' \subseteq Id
      /\ charged' \in [Id -> Usage]
      /\ \A s \in Id : charged'[s] = Nothing \/ charged'[s] = charged[s]
      /\ \A s \in Id \ blurred' : charged'[s] = charged[s]
  BY <1>1 DEF Blur, TypeOK
<1>3. \A s \in Id : charged[s] \in Usage
  BY Fields
<1> QED
  BY <1>1, <1>2, <1>3, UsageFields

(* The usage of a session, when nothing that it is counted from changes.   *)
LEMMA HoldsKeeps ==
  ASSUME NEW s \in Id, Holds(charged[s], Base(s), Charging(s)),
         charged'[s] = charged[s], Base(s)' = Base(s), Charging(s)' = Charging(s),
         \A p \in Charging(s) : call'[p].path = call[p].path
  PROVE  Holds(charged[s], Base(s), Charging(s))'
<1>1. PathsOf(Charging(s))' = PathsOf(Charging(s))
  BY DEF PathsOf
<1> QED
  BY <1>1 DEF Holds

(* Opening the session's file keeps the invariant.                         *)
LEMMA OpenKeeps ==
  ASSUME HooksInv, NEW a \in Agent, Open(a)
  PROVE  HooksInv'
<1>1. PICK c \in CommandState : c = cmd[a] /\ c # None
  BY InvParts, Fields DEF Open, At
<1>2. PICK i \in Id : i = c.id
  BY DEF CommandState
<1>3. PICK X \in SUBSET Id : X = IF Listed = {} THEN {} ELSE Ids \cup {i}
  BY InvParts, IdsAre
<1>4. /\ c.at = "open" /\ active' = [active EXCEPT ![a] = i] /\ Advance(a, None) /\ Blur(X)
      /\ UNCHANGED <<constitution, glock, seal, tracker, memento, index, call, gc, settled,
                     odd, used>>
  BY <1>1, <1>2, <1>3 DEF Open, At, policy, files
<1>5. /\ blurred' = blurred \cup X /\ blurred' \subseteq Id
      /\ charged' \in [Id -> Usage]
      /\ \A s \in Id : charged'[s] = Nothing \/ charged'[s] = charged[s]
      /\ \A s \in Id \ blurred' : charged'[s] = charged[s]
      /\ \A s \in Id : charged'[s].loc \in Nat /\ charged'[s].loc <= charged[s].loc
  BY <1>4, InvParts, BlurDoes
<1>6. Advanced(a, None)
  BY <1>4, InvParts, AdvanceDoes
<1>7. Starting(a) /\ active[a] = None /\ Unused(i) /\ i <= used.sessions
  BY <1>1, <1>2, <1>4, InvParts DEF Starting, At, SessionsOK
<1>8. active'[a] = i /\ i # None /\ \A b \in Agent \ {a} : active'[b] = active[b]
  BY <1>4, InvParts, IdsAre DEF TypeOK
<1>9. Ids' = Ids \cup {i}
  <2>1. ASSUME NEW j PROVE j \in Ids' <=> j \in Ids \/ j = i
    BY <1>7, <1>8 DEF Ids, Listed
  <2> QED
    BY <2>1
<1>10. TypeOK'
  BY <1>2, <1>4, <1>5, <1>6, InvParts DEF TypeOK, Advanced
<1>11. \A j \in Id \ {i} : Unused(j) => Unused(j)'
  BY <1>4, <1>5, <1>9 DEF Unused
<1>12. SessionsOK'
  <2>1. \A j \in Id : j > used'.sessions => Unused(j)'
    BY <1>4, <1>7, <1>11, InvParts, IdsAre DEF SessionsOK
  <2>2. ASSUME NEW b \in Agent \ {a}, Starting(b) PROVE (Unused(cmd[b].id))'
    <3>1. PICK j \in Id : j = cmd[b].id
      BY <2>2, InvParts, Fields DEF Starting, At
    <3>2. j # i /\ Unused(j)
      BY <1>1, <1>2, <1>7, <2>2, <3>1, InvParts DEF SessionsOK
    <3>3. Unused(j)' /\ cmd'[b].id = j
      BY <1>6, <1>11, <3>1, <3>2 DEF Advanced
    <3> QED
      BY <3>3 DEF Unused
  <2>3. ~Starting(a)' /\ cmd'[a] = None /\ ~At(a, "compose")' /\ ~At(a, "seal")'
    BY <1>6 DEF Starting, At, Advanced
  <2>4. \A b \in Agent \ {a} : cmd'[b] = cmd[b] /\ active'[b] = active[b]
    BY <1>6, <1>8 DEF Advanced
  <2>5. active'[a] = cmd[a].id
    BY <1>1, <1>2, <1>8
  <2> QED
    BY <1>4, <1>7, <2>1, <2>2, <2>3, <2>4, <2>5, InvParts, SessionsNext
<1>13. SettledOK'
  <2>1. \A b \in settled' : At(b, "compose") => At(b, "compose")'
    BY <1>1, <1>4, <1>6, InvParts DEF At, Advanced, TypeOK
  <2> QED
    BY <1>4, <2>1, InvParts, SettledKeeps
<1>14. FilesOK' /\ IndexAgrees'
  <2>1. \A b \in Agent : (At(b, "index")' <=> At(b, "index"))
                         /\ (At(b, "index") => cmd'[b].id = cmd[b].id)
    BY <1>1, <1>4, <1>6 DEF At, Advanced
  <2>2. Finishing' = Finishing
    BY <2>1 DEF Finishing
  <2>3. \A j \in Ids' \ Ids : j \notin memento /\ (gc # None => j \notin gc.removed)
    BY <1>7, <1>9 DEF Unused
  <2> QED
    BY <1>4, <2>1, <2>2, <2>3, InvParts, FilesKeep
<1>15. GuardedWrites'
  BY <1>4, InvParts, SameCalls, GuardedAs
<1>16. AloneOK'
  <2>1. CASE Listed = {}
    BY <1>8, <2>1 DEF AloneOK, Listed
  <2>2. CASE Listed # {}
    BY <1>3, <1>5, <1>9, <2>2 DEF AloneOK, Ids, Listed
  <2> QED
    BY <2>1, <2>2
<1>17. CountsOK'
  <2> SUFFICES ASSUME NEW s \in Id, s \notin blurred', Live(s)'
               PROVE  Holds(charged[s], Base(s), Charging(s))'
    BY DEF CountsOK
  <2>1. /\ charged'[s] = charged[s] /\ Base(s)' = Base(s) /\ Charging(s)' = Charging(s)
        /\ s \notin blurred
    BY <1>4, <1>5 DEF Base, Charging
  <2>2. Holds(charged[s], Base(s), Charging(s))
    <3>1. CASE s = i
      <4>1. charged[s] = Nothing /\ Base(s) = Nothing /\ Charging(s) = {}
        BY <1>7, <3>1 DEF Unused, Base, Charging
      <4> QED
        BY <4>1, FS_EmptySet DEF Holds, Nothing, PathsOf
    <3>2. CASE s # i
      BY <1>4, <1>9, <2>1, <3>2, InvParts DEF Live, AtCall, Budget, CountsOK
    <3> QED
      BY <3>1, <3>2
  <2> QED
    BY <1>4, <2>1, <2>2, HoldsKeeps
<1>18. SavesOK'
  <2> SUFFICES ASSUME NEW p \in Call, AtCall(p, "save")
               PROVE  SaveOK(p)'
    BY <1>4 DEF SavesOK, AtCall
  <2>1. SaveOK(p) /\ i # tracker.session
    BY <1>7, InvParts DEF Budget, SavesOK, Unused
  <2>2. Base(call[p].copy.session)' = Base(call[p].copy.session)
    BY <1>4 DEF Base
  <2> QED
    BY <1>4, <1>5, <1>9, <2>1, <2>2 DEF SaveOK, AtCall
<1>19. LinesOK'
  <2>1. Writing' = Writing /\ InFlight' = InFlight
    BY <1>4 DEF Writing, InFlight, AtCall
  <2>2. Cardinality(Writing) \in Nat
    <3>1. Writing \subseteq InFlight /\ IsFiniteSet(InFlight)
      BY InvParts DEF Budget, LinesOK, Writing, InFlight, AtCall
    <3> QED
      BY <3>1, FS_Subset, FS_CardinalityType
  <2>3. \A s \in Id : charged'[s].loc + Cardinality(Writing) <= used.calls
    <3>1. \A s \in Id : charged[s].loc \in Nat
      BY InvParts, Fields, UsageFields
    <3> QED
      BY <1>5, <2>2, <3>1, InvParts DEF Budget, LinesOK
  <2> QED
    BY <1>4, <2>1, <2>3, InvParts DEF Budget, LinesOK, AtCall
<1> QED
  BY <1>10, <1>12, <1>13, <1>14, <1>15, <1>16, <1>17, <1>18, <1>19 DEF HooksInv
(* A step of the process of one tool call.                                 *)
CallSet(p, n) ==
  /\ call' \in [Call -> CallState \cup {None}]
  /\ call'[p] = n /\ \A q \in Call \ {p} : call'[q] = call[q]

(* A step of a tool call changes that call only.                           *)
LEMMA SetCallDoes ==
  ASSUME TypeOK, NEW p \in Call, NEW n \in CallState \cup {None}, SetCall(p, n)
  PROVE  CallSet(p, n)
BY DEF TypeOK, SetCall, CallSet

(* A step of a tool call touches no session, memento or index.             *)
LEMMA ToolKeeps ==
  ASSUME HooksInv, TypeOK', Budget', GuardedWrites',
         UNCHANGED <<constitution, seal, active, memento, index, cmd, gc, settled, odd>>,
         used'.sessions = used.sessions, \A i \in Id : Unused(i) => Unused(i)'
  PROVE  HooksInv'
<1>1. SessionsOK'
  BY InvParts, SessionsKeep
<1>2. SettledOK'
  <2>1. \A b \in settled' : At(b, "compose") => At(b, "compose")'
    BY DEF At
  <2> QED
    BY <2>1, InvParts, SettledKeeps
<1>3. FilesOK' /\ IndexAgrees'
  <2>1. Finishing' = Finishing /\ Ids' = Ids
    BY DEF Finishing, At, Ids, Listed
  <2>2. \A b \in Agent : At(b, "index")' => At(b, "index") /\ cmd'[b].id = cmd[b].id
    BY DEF At
  <2> QED
    BY <2>1, <2>2, InvParts, FilesKeep
<1> QED
  BY <1>1, <1>2, <1>3 DEF HooksInv, Budget

(* The processes counted.                                                  *)
LEMMA Counting ==
  ASSUME HooksInv
  PROVE  /\ IsFiniteSet(InFlight) /\ Cardinality(InFlight) \in Nat
         /\ IsFiniteSet(Writing) /\ Cardinality(Writing) \in Nat
         /\ \A s : IsFiniteSet(Charging(s)) /\ Cardinality(Charging(s)) \in Nat
<1>1. IsFiniteSet(InFlight)
  BY DEF HooksInv, LinesOK
<1>2. Writing \subseteq InFlight /\ \A s : Charging(s) \subseteq InFlight
  BY DEF Writing, InFlight, Charging, AtCall
<1> QED
  BY <1>1, <1>2, FS_Subset, FS_CardinalityType

(* A call that is there counts for one.                                    *)
LEMMA OneOf ==
  ASSUME NEW S, IsFiniteSet(S), NEW p
  PROVE  /\ p \in S => /\ Cardinality(S) >= 1 /\ Cardinality(S) \in Nat
                       /\ IsFiniteSet(S \ {p}) /\ Cardinality(S \ {p}) = Cardinality(S) - 1
         /\ p \notin S => /\ IsFiniteSet(S \cup {p}) /\ Cardinality(S) \in Nat
                          /\ Cardinality(S \cup {p}) = Cardinality(S) + 1
<1>1. Cardinality(S) \in Nat
  BY FS_CardinalityType
<1>2. p \in S => Cardinality(S) # 0
  BY FS_EmptySet
<1> QED
  BY <1>1, <1>2, FS_AddElement, FS_RemoveElement

(* The saves of others, while nobody opens a session and none is blurred   *)
(* less.                                                                   *)
LEMMA SaveKeeps ==
  ASSUME NEW q \in Call, AtCall(q, "save"), SaveOK(q), call'[q] = call[q],
         UNCHANGED <<tracker, active>>, blurred \subseteq blurred',
         call[q].copy.session \notin blurred' =>
           \A r \in Call : AtCall(r, "save")' => AtCall(r, "save")
  PROVE  SaveOK(q)'
<1>1. Base(call[q].copy.session)' = Base(call[q].copy.session)
  BY DEF Base
<1>2. Ids' = Ids
  BY DEF Ids, Listed
<1> QED
  BY <1>1, <1>2 DEF SaveOK

(* The hook before a tool keeps the invariant.                             *)
LEMMA PreToolKeeps ==
  ASSUME HooksInv, NEW p \in Call, NEW a \in Agent, NEW f \in Path, PreTool(p, a, f)
  PROVE  HooksInv'
<1>1. /\ call[p] = None /\ active[a] # None /\ Allowed(f)
      /\ used' = [used EXCEPT !.calls = @ + 1] /\ used.calls < MaxCalls
      /\ UNCHANGED <<constitution, glock, seal, active, tracker, memento, index, cmd, gc,
                     charged, blurred, settled, odd>>
  BY DEF PreTool, policy, files, history
<1>2. PICK i \in Ids : i = active[a] /\ i \in Id
  BY <1>1, InvParts, IdsAre, Fields
<1>3. PICK n \in CallState :
        /\ n.at = "write" /\ n.path = f /\ n.agent = a /\ n.by = i /\ n.copy.session = 0
        /\ n.calm <=> /\ Listed = {a} /\ a \in settled \cap Loadable
                      /\ seal # None => seal.rules = seal.source
        /\ SetCall(p, n)
  <2> DEFINE calm == /\ Listed = {a} /\ a \in settled \cap Loadable
                     /\ seal # None => seal.rules = seal.source
             n == [at |-> "write", path |-> f, agent |-> a, by |-> i,
                   copy |-> [session |-> 0, usage |-> Nothing], calm |-> calm]
  <2>0. calm \in BOOLEAN
    OBVIOUS
  <2>1. [session |-> 0, usage |-> Nothing] \in Tracker
    BY ConstantsAssumption DEF Tracker, Nothing, Usage
  <2>2. n \in CallState
    <3> HIDE DEF calm
    <3> QED
      BY <1>2, <2>0, <2>1 DEF CallState
  <2>3. /\ n.at = "write" /\ n.path = f /\ n.agent = a /\ n.by = i /\ n.copy.session = 0
        /\ n.calm <=> /\ Listed = {a} /\ a \in settled \cap Loadable
                      /\ seal # None => seal.rules = seal.source
    OBVIOUS
  <2>4. SetCall(p, n)
    BY <1>2 DEF PreTool
  <2> HIDE DEF n
  <2> QED
    BY <2>2, <2>3, <2>4
<1>4. CallSet(p, n) /\ n # None
  BY <1>3, InvParts, SetCallDoes, NoneAssumption
<1>5. /\ used'.calls = used.calls + 1 /\ used'.sessions = used.sessions
      /\ used' \in [sessions: 0 .. MaxSessions, calls: 0 .. MaxCalls, others: 0 .. MaxOthers]
  BY <1>1, InvParts, ConstantsAssumption DEF TypeOK
<1>6. TypeOK'
  BY <1>1, <1>4, <1>5, InvParts DEF TypeOK, CallSet
<1>7. \A j \in Id : Unused(j) => Unused(j)'
  <2>1. Ids' = Ids
    BY <1>1 DEF Ids, Listed
  <2>2. \A j \in Id : Unused(j) => n.by # j /\ n.copy.session # j
    BY <1>2, <1>3, IdsAre, InvParts DEF Unused
  <2> QED
    BY <1>1, <1>4, <2>1, <2>2 DEF Unused, CallSet
<1>8. GuardedWrites'
  <2>1. ASSUME n.calm
        PROVE  f \in Scope[a] \ Denies[constitution]
    <3>1. Listed = {a} /\ a \in settled /\ a \in Loadable
          /\ (seal # None => seal.rules = seal.source)
      BY <1>3, <2>1
    <3>2. First = a
      BY <3>1, InvParts, FirstListed
    <3>3. seal # None /\ seal.source = constitution
      BY <1>1, <3>1, InvParts DEF SettledOK, SessionsOK, Starting, Valid
    <3> QED
      BY <1>1, <3>1, <3>2, <3>3 DEF Allowed
  <2>2. ASSUME NEW q \in Call, call'[q] # None, call'[q].at = "write", call'[q].calm
        PROVE  call'[q].path \in Scope[call'[q].agent] \ Denies[constitution]
    BY <1>3, <1>4, <2>1, <2>2, InvParts DEF CallSet, GuardedWrites, AtCall
  <2> QED
    BY <1>1, <2>2 DEF GuardedWrites, AtCall
<1>9. \A q \in Call : (AtCall(q, "save")' <=> AtCall(q, "save"))
                      /\ (AtCall(q, "save") => call'[q] = call[q])
  BY <1>1, <1>3, <1>4 DEF AtCall, CallSet
<1>10. AloneOK'
  BY <1>1, InvParts DEF Budget, AloneOK
<1>11. CountsOK'
  <2> SUFFICES ASSUME NEW s \in Id, s \notin blurred, Live(s)'
               PROVE  Holds(charged[s], Base(s), Charging(s))'
    BY <1>1 DEF CountsOK
  <2>1. Live(s)
    BY <1>1, <1>9 DEF Live, Ids, Listed
  <2>2. Charging(s)' = Charging(s) /\ \A q \in Charging(s) : call'[q].path = call[q].path
    BY <1>1, <1>3, <1>4 DEF Charging, CallSet
  <2>3. Base(s)' = Base(s) /\ charged'[s] = charged[s]
    BY <1>1 DEF Base
  <2> QED
    BY <2>1, <2>2, <2>3, InvParts, HoldsKeeps DEF Budget, CountsOK
<1>12. SavesOK'
  BY <1>1, <1>9, InvParts, SaveKeeps DEF Budget, SavesOK
<1>13. LinesOK'
  <2>1. InFlight' = InFlight \cup {p} /\ Writing' = Writing \cup {p}
        /\ p \notin InFlight /\ p \notin Writing
    BY <1>1, <1>3, <1>4 DEF InFlight, Writing, AtCall, CallSet
  <2>2. /\ IsFiniteSet(InFlight') /\ Cardinality(InFlight') = Cardinality(InFlight) + 1
        /\ Cardinality(Writing') = Cardinality(Writing) + 1
        /\ Cardinality(InFlight) \in Nat /\ Cardinality(Writing) \in Nat
    BY <2>1, Counting, OneOf
  <2>3. /\ tracker.usage.loc \in Nat /\ \A s \in Id : charged[s].loc \in Nat
        /\ \A q \in Call : AtCall(q, "save") => call[q].copy.usage.loc \in Nat
    BY InvParts, Fields, TrackerFields, UsageFields DEF TypeOK, AtCall
  <2>4. /\ tracker.usage.loc + (Cardinality(InFlight) + 1) <= used.calls + 1
        /\ \A q \in Call : AtCall(q, "save") =>
             call[q].copy.usage.loc + (Cardinality(InFlight) + 1) <= used.calls + 1
        /\ \A s \in Id : charged[s].loc + (Cardinality(Writing) + 1) <= used.calls + 1
    BY <2>2, <2>3, InvParts DEF Budget, LinesOK
  <2> QED
    BY <1>1, <1>5, <1>9, <2>2, <2>4 DEF LinesOK
<1> QED
  BY <1>1, <1>5, <1>6, <1>7, <1>8, <1>10, <1>11, <1>12, <1>13, ToolKeeps DEF Budget

(* A write to a file keeps the invariant.                                  *)
LEMMA TouchKeeps ==
  ASSUME HooksInv, NEW p \in Call, Touch(p)
  PROVE  HooksInv'
<1>1. PICK c \in CallState : c = call[p] /\ c # None
  BY InvParts, Fields DEF Touch, AtCall
<1>2. PICK b \in Id : b = c.by /\ c.path \in Path
  BY DEF CallState
<1>3. /\ c.at = "write"
      /\ charged' = IF b \in blurred THEN charged
                    ELSE [charged EXCEPT ![b] = Plus(@, c.path)]
      /\ UNCHANGED <<constitution, glock, seal, active, tracker, memento, index, cmd, gc,
                     blurred, settled, odd, used>>
  BY <1>1, <1>2 DEF Touch, AtCall, policy, files
<1>4. PICK n \in CallState : /\ n.at = "track" /\ n.path = c.path /\ n.by = b /\ n.copy = c.copy
                             /\ SetCall(p, n)
  <2> DEFINE n == [c EXCEPT !.at = "track", !.calm = FALSE]
  <2>1. n \in CallState /\ n.at = "track" /\ n.path = c.path /\ n.by = b /\ n.copy = c.copy
    BY <1>2 DEF CallState
  <2>2. SetCall(p, n)
    BY <1>1 DEF Touch
  <2> HIDE DEF n
  <2> QED
    BY <2>1, <2>2
<1>5. CallSet(p, n) /\ n # None
  BY <1>4, InvParts, SetCallDoes, NoneAssumption
<1>6. InFlight' = InFlight /\ Writing' = Writing \ {p} /\ p \in Writing
  BY <1>1, <1>3, <1>4, <1>5 DEF InFlight, Writing, AtCall, CallSet
<1>7. /\ Cardinality(Writing') = Cardinality(Writing) - 1 /\ Cardinality(Writing) >= 1
      /\ Cardinality(Writing) \in Nat
  BY <1>6, Counting, OneOf
<1>8. \A s \in Id : charged[s] \in Usage /\ charged[s].loc \in Nat
                    /\ charged[s].loc + Cardinality(Writing) <= used.calls
  BY InvParts, Fields, UsageFields DEF Budget, LinesOK
<1>9. PICK u \in Usage : /\ u = Plus(charged[b], c.path)
                         /\ u.paths = charged[b].paths \cup {c.path}
                         /\ u.loc = charged[b].loc + 1
  <2> DEFINE u == Plus(charged[b], c.path)
  <2>1. used.calls \in 0 .. MaxCalls
    BY InvParts DEF TypeOK
  <2>2. charged[b].loc + 1 \in 0 .. MaxCalls /\ charged[b].paths \subseteq Path
    BY <1>7, <1>8, <2>1, UsageFields, ConstantsAssumption
  <2>3. u \in Usage /\ u.paths = charged[b].paths \cup {c.path} /\ u.loc = charged[b].loc + 1
    BY <1>2, <2>2 DEF Plus, Usage
  <2> QED
    BY <2>3
<1>10. /\ charged' \in [Id -> Usage]
       /\ \A s \in Id \ {b} : charged'[s] = charged[s]
       /\ charged'[b] = IF b \in blurred THEN charged[b] ELSE u
  BY <1>3, <1>9, InvParts DEF TypeOK
<1>11. TypeOK'
  BY <1>3, <1>5, <1>10, InvParts DEF TypeOK, CallSet
<1>12. \A j \in Id : Unused(j) => Unused(j)'
  <2>1. Ids' = Ids
    BY <1>3 DEF Ids, Listed
  <2>2. \A j \in Id : Unused(j) => j # b /\ n.by # j /\ n.copy.session # j
    BY <1>1, <1>2, <1>4 DEF Unused
  <2> QED
    BY <1>3, <1>5, <1>10, <2>1, <2>2 DEF Unused, CallSet
<1>13. GuardedWrites'
  <2>1. \A q \in Call : AtCall(q, "write")' => AtCall(q, "write") /\ call'[q] = call[q]
    BY <1>4, <1>5 DEF AtCall, CallSet
  <2> QED
    BY <1>3, <2>1, InvParts, GuardedKeeps
<1>14. \A q \in Call : (AtCall(q, "save")' <=> AtCall(q, "save"))
                       /\ (AtCall(q, "save") => call'[q] = call[q])
  BY <1>1, <1>3, <1>4, <1>5 DEF AtCall, CallSet
<1>15. AloneOK'
  BY <1>3, InvParts DEF Budget, AloneOK
<1>16. CountsOK'
  <2> SUFFICES ASSUME NEW s \in Id, s \notin blurred, Live(s)'
               PROVE  Holds(charged[s], Base(s), Charging(s))'
    BY <1>3 DEF CountsOK
  <2>1. Live(s) /\ Base(s)' = Base(s)
    BY <1>3, <1>14 DEF Live, Ids, Listed, Base
  <2>2. Holds(charged[s], Base(s), Charging(s))
    BY <2>1, InvParts DEF Budget, CountsOK
  <2>3. CASE s # b
    <3>1. Charging(s)' = Charging(s) /\ \A q \in Charging(s) : call'[q].path = call[q].path
      BY <1>1, <1>2, <1>4, <1>5, <2>3 DEF Charging, CallSet
    <3> QED
      BY <1>10, <2>1, <2>2, <2>3, <3>1, HoldsKeeps
  <2>4. CASE s = b
    <3>1. /\ Charging(s)' = Charging(s) \cup {p} /\ p \notin Charging(s)
          /\ call'[p].path = c.path
          /\ \A q \in Charging(s) : call'[q].path = call[q].path
      BY <1>1, <1>2, <1>3, <1>4, <1>5, <2>4 DEF Charging, CallSet
    <3>2. PathsOf(Charging(s))' = PathsOf(Charging(s)) \cup {c.path}
      BY <3>1 DEF PathsOf
    <3>3. /\ Cardinality(Charging(s)') = Cardinality(Charging(s)) + 1
          /\ Cardinality(Charging(s)) \in Nat
      BY <3>1, Counting, OneOf
    <3>4. Base(s).loc \in Nat
      BY InvParts, TrackerFields, UsageFields DEF TypeOK, Base, Nothing
    <3>5. charged'[s].paths = charged[s].paths \cup {c.path}
          /\ charged'[s].loc = charged[s].loc + 1
      BY <1>9, <1>10, <2>4
    <3>6. /\ charged'[s].paths = Base(s).paths \cup PathsOf(Charging(s))'
          /\ charged'[s].loc = Base(s).loc + Cardinality(Charging(s)')
      BY <2>2, <3>2, <3>3, <3>4, <3>5 DEF Holds
    <3> QED
      BY <2>1, <3>6 DEF Holds
  <2> QED
    BY <2>3, <2>4
<1>17. SavesOK'
  BY <1>3, <1>14, InvParts, SaveKeeps DEF Budget, SavesOK
<1>18. LinesOK'
  <2>1. \A s \in Id : charged'[s].loc + Cardinality(Writing') <= used.calls
    <3>1. used.calls \in Nat
      BY InvParts
    <3> QED
      BY <1>7, <1>8, <1>9, <1>10, <3>1
  <2> QED
    BY <1>3, <1>6, <1>14, <2>1, InvParts DEF Budget, LinesOK
<1> QED
  BY <1>3, <1>11, <1>12, <1>13, <1>15, <1>16, <1>17, <1>18, ToolKeeps DEF Budget
(* The sessions that a read of the tracker mixes up.                       *)
LEMMA ReadTrackerKeeps ==
  ASSUME HooksInv, NEW p \in Call, ReadTracker(p)
  PROVE  HooksInv'
<1>1. PICK c \in CallState : c = call[p] /\ c # None
  BY InvParts, Fields DEF ReadTracker, AtCall
<1>2. PICK b \in Id : b = c.by /\ c.copy \in Tracker
  BY DEF CallState
<1>3. /\ c.at = "track"
      /\ UNCHANGED <<constitution, glock, seal, active, tracker, memento, index, cmd, gc,
                     settled, odd, used>>
  BY <1>1 DEF ReadTracker, AtCall, policy, files
<1>4. \A q \in Call : AtCall(q, "save") => call[q].copy.session \in Id
  BY InvParts DEF Budget, SavesOK, SaveOK
<1>5. Ids' = Ids
  BY <1>3 DEF Ids, Listed
<1>6. ASSUME NEW n \in CallState \cup {None}, CallSet(p, n), NEW X \in SUBSET Id, Blur(X),
             \/ n = None /\ b \in X
             \/ /\ n \in CallState /\ n.at = "save" /\ n.path = c.path /\ n.by = b
                /\ n.copy.session \in Ids /\ n.copy.usage = Base(n.copy.session)
                /\ n.copy.session = b \/ {b, n.copy.session} \subseteq X
                /\ \A q \in Call : AtCall(q, "save") =>
                     {call[q].copy.session, n.copy.session} \subseteq X
      PROVE  HooksInv'
  <2>1. /\ blurred' = blurred \cup X /\ blurred' \subseteq Id
        /\ charged' \in [Id -> Usage]
        /\ \A s \in Id : charged'[s] = Nothing \/ charged'[s] = charged[s]
        /\ \A s \in Id \ blurred' : charged'[s] = charged[s]
        /\ \A s \in Id : charged'[s].loc \in Nat /\ charged'[s].loc <= charged[s].loc
    BY <1>6, InvParts, BlurDoes
  <2>2. TypeOK'
    BY <1>3, <1>6, <2>1, InvParts DEF TypeOK, CallSet
  <2>3. n # None => n.at = "save" /\ n.path = c.path /\ n.by = b /\ n.copy.session \in Ids
    BY <1>6
  <2>4. \A j \in Id : Unused(j) => Unused(j)'
    <3>1. \A j \in Id : Unused(j) => n = None \/ (n.by # j /\ n.copy.session # j)
      BY <1>1, <1>2, <2>3 DEF Unused
    <3> QED
      BY <1>3, <1>5, <1>6, <2>1, <3>1 DEF Unused, CallSet
  <2>5. GuardedWrites'
    <3>1. \A q \in Call : AtCall(q, "write")' => AtCall(q, "write") /\ call'[q] = call[q]
      BY <1>6, <2>3 DEF AtCall, CallSet
    <3> QED
      BY <1>3, <3>1, InvParts, GuardedKeeps
  <2>6. AloneOK'
    BY <1>3, <2>1, InvParts DEF Budget, AloneOK
  <2>7. \A q \in Call \ {p} : (AtCall(q, "save")' <=> AtCall(q, "save")) /\ call'[q] = call[q]
    BY <1>6 DEF AtCall, CallSet
  <2>8. ~AtCall(p, "save") /\ (AtCall(p, "save")' <=> n # None)
    BY <1>1, <1>3, <1>6, <2>3 DEF AtCall, CallSet
  <2>9. CountsOK'
    <3> SUFFICES ASSUME NEW s \in Id, s \notin blurred', Live(s)'
                 PROVE  Holds(charged[s], Base(s), Charging(s))'
      BY DEF CountsOK
    <3>1. Live(s) /\ Base(s)' = Base(s) /\ charged'[s] = charged[s] /\ s \notin blurred
      <4>1. n # None => (call'[p].copy.session = s => s \in Ids)
        BY <1>6, <2>3 DEF CallSet
      <4>2. Live(s)
        BY <1>3, <1>5, <2>7, <2>8, <4>1 DEF Live
      <4> QED
        BY <1>3, <2>1, <4>2 DEF Base
    <3>2. Charging(s)' = Charging(s) /\ \A q \in Charging(s) : call'[q].path = call[q].path
      <4>1. CASE n = None
        <5>1. s # b
          BY <1>6, <2>1, <4>1, NoneAssumption
        <5> QED
          BY <1>1, <1>2, <1>6, <4>1, <5>1 DEF Charging, CallSet
      <4>2. CASE n # None
        BY <1>1, <1>2, <1>3, <1>6, <2>3, <4>2 DEF Charging, CallSet
      <4> QED
        BY <4>1, <4>2
    <3> QED
      BY <3>1, <3>2, InvParts, HoldsKeeps DEF Budget, CountsOK
  <2>10. SavesOK'
    <3>1. ASSUME NEW q \in Call \ {p}, AtCall(q, "save")'
          PROVE  SaveOK(q)'
      <4>1. AtCall(q, "save") /\ SaveOK(q) /\ call'[q] = call[q]
        BY <2>7, <3>1, InvParts DEF Budget, SavesOK
      <4>2. call[q].copy.session \notin blurred' => n = None
        BY <1>6, <2>1, <4>1
      <4> QED
        BY <1>3, <2>1, <2>7, <2>8, <4>1, <4>2, SaveKeeps
    <3>2. ASSUME AtCall(p, "save")'
          PROVE  SaveOK(p)'
      <4>1. n # None
        BY <2>8, <3>2
      <4>2. PICK s \in Id : s = n.copy.session /\ s \in Ids
        BY <2>3, <4>1, InvParts, IdsAre
      <4>3. call'[p] = n /\ n.by = b /\ n.copy.usage = Base(s)
        BY <1>6, <4>1, <4>2 DEF CallSet
      <4>4. b = s \/ {b, s} \subseteq blurred'
        BY <1>6, <2>1, <4>1, <4>2
      <4>5. s \notin blurred' => \A q \in Call : AtCall(q, "save")' => q = p
        <5>1. s \notin blurred' => \A q \in Call : ~AtCall(q, "save")
          BY <1>6, <2>1, <4>1, <4>2
        <5> QED
          BY <2>7, <5>1
      <4>6. \A t \in Ids \ blurred' : t = s
        <5> SUFFICES ASSUME NEW t \in Ids, t \notin blurred' PROVE t = s
          OBVIOUS
        <5>1. PICK e \in Agent, f \in Agent : active[e] = t /\ active[f] = s
                /\ active[e] # None /\ active[f] # None
          BY <4>2 DEF Ids, Listed
        <5>2. e = f
          BY <2>1, <5>1, InvParts DEF Budget, AloneOK
        <5> QED
          BY <5>1, <5>2
      <4>7. (Base(call[p].copy.session))' = Base(s)
        BY <1>3, <4>2, <4>3 DEF Base
      <4> QED
        BY <1>5, <4>2, <4>3, <4>4, <4>5, <4>6, <4>7 DEF SaveOK
    <3> QED
      BY <3>1, <3>2 DEF SavesOK
  <2>11. LinesOK'
    <3>1. Writing' = Writing
      BY <1>1, <1>3, <2>3, <1>6 DEF Writing, AtCall, CallSet
    <3>2. \A s \in Id : charged'[s].loc + Cardinality(Writing') <= used.calls
      <4>1. \A s \in Id : charged[s].loc \in Nat
        BY InvParts, Fields, UsageFields
      <4> QED
        BY <2>1, <3>1, <4>1, InvParts, Counting DEF Budget, LinesOK
    <3>3. InFlight' = IF n = None THEN InFlight \ {p} ELSE InFlight
      BY <1>1, <1>6 DEF InFlight, CallSet
    <3>4. p \in InFlight
      BY <1>1 DEF InFlight
    <3>5. /\ IsFiniteSet(InFlight') /\ Cardinality(InFlight') \in Nat
          /\ Cardinality(InFlight') <= Cardinality(InFlight) /\ Cardinality(InFlight) \in Nat
      <4>1. CASE n = None
        <5>1. /\ IsFiniteSet(InFlight \ {p}) /\ Cardinality(InFlight) \in Nat
              /\ Cardinality(InFlight \ {p}) = Cardinality(InFlight) - 1
              /\ Cardinality(InFlight) >= 1
          BY <3>4, Counting, OneOf
        <5> QED
          BY <3>3, <4>1, <5>1
      <4>2. CASE n # None
        BY <3>3, <4>2, Counting
      <4> QED
        BY <4>1, <4>2
    <3>6. /\ tracker.usage.loc \in Nat
          /\ \A q \in Call : AtCall(q, "save") => call[q].copy.usage.loc \in Nat
      BY InvParts, Fields, TrackerFields, UsageFields DEF TypeOK, AtCall
    <3>7. tracker.usage.loc + Cardinality(InFlight') <= used.calls
      BY <3>5, <3>6, InvParts DEF Budget, LinesOK
    <3>8. ASSUME NEW q \in Call, AtCall(q, "save")'
          PROVE  call'[q].copy.usage.loc + Cardinality(InFlight') <= used.calls
      <4>1. CASE q # p
        BY <2>7, <3>5, <3>6, <3>8, <4>1, InvParts DEF Budget, LinesOK
      <4>2. CASE q = p
        <5>1. n # None /\ call'[p] = n /\ n.copy.usage = Base(n.copy.session)
          BY <1>6, <2>8, <3>8, <4>2 DEF CallSet
        <5>2. n.copy.usage.loc \in Nat /\ n.copy.usage.loc <= tracker.usage.loc
          BY <3>6, <5>1 DEF Base, Nothing
        <5> QED
          BY <3>5, <3>6, <3>7, <4>2, <5>1, <5>2, InvParts
      <4> QED
        BY <4>1, <4>2
    <3> QED
      BY <1>3, <3>2, <3>5, <3>7, <3>8 DEF LinesOK
  <2> QED
    BY <1>3, <2>2, <2>4, <2>5, <2>6, <2>9, <2>10, <2>11, ToolKeeps DEF Budget
<1>7. CASE Listed = {}
  <2>1. Blur({b}) /\ SetCall(p, None)
    BY <1>1, <1>2, <1>7 DEF ReadTracker
  <2>2. CallSet(p, None)
    BY <2>1, InvParts, SetCallDoes
  <2>3. PICK X \in SUBSET Id : X = {b}
    OBVIOUS
  <2> QED
    BY <1>6, <2>1, <2>2, <2>3
<1>8. CASE Listed # {}
  <2>1. PICK s \in Ids : s = active[First] /\ s \in Id
    BY <1>8, InvParts, FirstListed
  <2>2. PICK t \in Tracker : /\ t = Restarted(s) /\ t.session = s /\ t.usage = Base(s)
    <3> DEFINE t == [session |-> s, usage |-> Nothing]
    <3>1. t \in Tracker /\ t.session = s /\ t.usage = Nothing
      BY <2>1, ConstantsAssumption DEF Tracker, Nothing, Usage
    <3>2. CASE tracker.session = s
      BY <3>2, InvParts DEF Restarted, Base, TypeOK
    <3>3. CASE tracker.session # s
      <4>1. Restarted(s) = t /\ Base(s) = Nothing
        BY <3>3 DEF Restarted, Base
      <4> HIDE DEF t
      <4> QED
        BY <3>1, <4>1
    <3> QED
      BY <3>2, <3>3
  <2>3. PICK X \in SUBSET Id :
          X = (IF s # b THEN {s, b} ELSE {}) \cup (IF Saving # {} THEN Saving \cup {s} ELSE {})
    <3>1. Saving \subseteq Id
      BY <1>4 DEF Saving
    <3> QED
      BY <2>1, <3>1
  <2>4. Blur(X)
    BY <1>1, <1>2, <1>8, <2>1, <2>3 DEF ReadTracker
  <2>5. PICK n \in CallState : /\ n.at = "save" /\ n.path = c.path /\ n.by = b /\ n.copy = t
                               /\ SetCall(p, n)
    <3> DEFINE n == [c EXCEPT !.at = "save", !.copy = t]
    <3>1. n \in CallState /\ n.at = "save" /\ n.path = c.path /\ n.by = b /\ n.copy = t
      BY <1>2 DEF CallState
    <3>2. SetCall(p, n)
      BY <1>1, <1>8, <2>1, <2>2 DEF ReadTracker
    <3> HIDE DEF n
    <3> QED
      BY <3>1, <3>2
  <2>6. CallSet(p, n)
    BY <2>5, InvParts, SetCallDoes
  <2>7. \A q \in Call : AtCall(q, "save") => {call[q].copy.session, s} \subseteq X
    BY <2>3 DEF Saving
  <2>8. s = b \/ {b, s} \subseteq X
    BY <2>3
  <2> QED
    BY <1>6, <2>1, <2>2, <2>4, <2>5, <2>6, <2>7, <2>8
<1> QED
  BY <1>7, <1>8
(* Saving the tracker keeps the invariant.                                 *)
LEMMA SaveTrackerKeeps ==
  ASSUME HooksInv, NEW p \in Call, SaveTracker(p)
  PROVE  HooksInv'
<1>1. PICK c \in CallState : c = call[p] /\ c # None
  BY InvParts, Fields DEF SaveTracker, AtCall
<1>2. /\ c.at = "save" /\ SaveOK(p) /\ AtCall(p, "save") /\ SetCall(p, None)
      /\ tracker' = [c.copy EXCEPT !.usage = Plus(@, c.path)]
      /\ UNCHANGED <<constitution, glock, seal, active, memento, index, cmd, gc,
                     charged, blurred, settled, odd, used>>
  BY <1>1, InvParts DEF SaveTracker, AtCall, Budget, SavesOK, policy, files, history
<1>3. PICK s \in Id : s = c.copy.session
  BY <1>1, <1>2 DEF SaveOK
<1>4. /\ c.by \in Id /\ c.path \in Path /\ c.copy \in Tracker /\ c.copy.usage \in Usage
      /\ c.copy.usage.loc \in Nat /\ c.copy.usage.paths \subseteq Path
  BY TrackerFields, UsageFields DEF CallState
<1>5. CallSet(p, None)
  BY <1>2, InvParts, SetCallDoes
<1>6. /\ InFlight' = InFlight \ {p} /\ Writing' = Writing
      /\ IsFiniteSet(InFlight') /\ Cardinality(InFlight) \in Nat /\ Cardinality(InFlight) >= 1
      /\ Cardinality(InFlight') = Cardinality(InFlight) - 1
  <2>1. InFlight' = InFlight \ {p} /\ Writing' = Writing /\ p \in InFlight
    BY <1>1, <1>2, <1>5 DEF InFlight, Writing, AtCall, CallSet
  <2> QED
    BY <2>1, Counting, OneOf
<1>7. c.copy.usage.loc + Cardinality(InFlight) <= used.calls /\ used.calls \in 0 .. MaxCalls
  BY <1>1, <1>2, InvParts DEF Budget, LinesOK, TypeOK
<1>8. PICK t \in Tracker : /\ t = tracker' /\ t.session = s
                           /\ t.usage.paths = c.copy.usage.paths \cup {c.path}
                           /\ t.usage.loc = c.copy.usage.loc + 1
  <2> DEFINE u == Plus(c.copy.usage, c.path)
             t == [c.copy EXCEPT !.usage = u]
  <2>1. c.copy.usage.loc + 1 \in 0 .. MaxCalls
    BY <1>4, <1>6, <1>7, ConstantsAssumption
  <2>2. u \in Usage /\ u.paths = c.copy.usage.paths \cup {c.path} /\ u.loc = c.copy.usage.loc + 1
    BY <1>4, <2>1 DEF Plus, Usage
  <2>3. t = tracker'
    BY <1>2
  <2> HIDE DEF u
  <2>4. t \in Tracker /\ t.session = s /\ t.usage = u
    BY <1>3, <1>4, <2>2 DEF Tracker
  <2> HIDE DEF t
  <2> QED
    BY <2>2, <2>3, <2>4
<1>9. TypeOK'
  BY <1>2, <1>5, <1>8, InvParts DEF TypeOK, CallSet
<1>10. Ids' = Ids
  BY <1>2 DEF Ids, Listed
<1>11. \A j \in Id : Unused(j) => Unused(j)'
  <2>1. \A j \in Id : Unused(j) => j # s
    BY <1>1, <1>3 DEF Unused
  <2> QED
    BY <1>2, <1>5, <1>8, <1>10, <2>1 DEF Unused, CallSet
<1>12. GuardedWrites'
  <2>1. \A q \in Call : AtCall(q, "write")' => AtCall(q, "write") /\ call'[q] = call[q]
    BY <1>5 DEF AtCall, CallSet
  <2> QED
    BY <1>2, <2>1, InvParts, GuardedKeeps
<1>13. AloneOK'
  BY <1>2, InvParts DEF Budget, AloneOK
<1>14. \A q \in Call : AtCall(q, "save")' => q # p /\ AtCall(q, "save") /\ call'[q] = call[q]
  BY <1>5 DEF AtCall, CallSet
<1>15. CountsOK'
  <2> SUFFICES ASSUME NEW z \in Id, z \notin blurred, Live(z)'
               PROVE  Holds(charged[z], Base(z), Charging(z))'
    BY <1>2 DEF CountsOK
  <2>1. CASE z = s
    <3>1. /\ Holds(charged[s], Base(s), Charging(s)) /\ c.by = s /\ c.copy.usage = Base(s)
      <4>1. Live(s)
        BY <1>1, <1>2, <1>3 DEF Live
      <4>2. s \notin blurred
        BY <2>1
      <4> QED
        BY <1>1, <1>2, <1>3, <4>1, <4>2, InvParts DEF SaveOK, Budget, CountsOK
    <3>2. /\ Charging(s)' = Charging(s) \ {p} /\ p \in Charging(s) /\ call[p].path = c.path
          /\ \A q \in Charging(s)' : call'[q].path = call[q].path
      BY <1>1, <1>2, <1>5, <3>1 DEF Charging, CallSet
    <3>3. PathsOf(Charging(s)) = PathsOf(Charging(s))' \cup {c.path}
      BY <3>2 DEF PathsOf
    <3>4. /\ Cardinality(Charging(s)') = Cardinality(Charging(s)) - 1
          /\ Cardinality(Charging(s)) \in Nat
      BY <3>2, Counting, OneOf
    <3>5. Base(s)' = t.usage
      BY <1>8 DEF Base
    <3>6. /\ charged[s].paths = t.usage.paths \cup PathsOf(Charging(s))'
          /\ charged[s].loc = t.usage.loc + Cardinality(Charging(s)')
      BY <1>4, <1>8, <3>1, <3>3, <3>4 DEF Holds
    <3> QED
      BY <1>2, <2>1, <3>5, <3>6 DEF Holds
  <2>2. CASE z # s
    <3>1. z \in Ids
      <4>1. tracker'.session # z
        BY <1>8, <2>2
      <4>2. ASSUME NEW q \in Call, AtCall(q, "save")', call'[q].copy.session = z
            PROVE  FALSE
        <5>1. AtCall(q, "save") /\ q # p /\ SaveOK(q) /\ call[q].copy.session = z
          BY <1>14, <4>2, InvParts DEF Budget, SavesOK
        <5> QED
          BY <1>2, <5>1 DEF SaveOK
      <4> QED
        BY <1>10, <4>1, <4>2 DEF Live
    <3>2. tracker.session # z /\ c.by # z
      BY <1>1, <1>2, <1>3, <2>2, <3>1 DEF SaveOK
    <3>3. Base(z)' = Base(z)
      BY <1>8, <2>2, <3>2 DEF Base
    <3>4. Charging(z)' = Charging(z) /\ \A q \in Charging(z) : call'[q].path = call[q].path
      BY <1>1, <1>5, <3>2 DEF Charging, CallSet
    <3>5. Holds(charged[z], Base(z), Charging(z))
      BY <3>1, InvParts DEF Live, Budget, CountsOK
    <3> QED
      BY <1>2, <3>3, <3>4, <3>5, HoldsKeeps
  <2> QED
    BY <2>1, <2>2
<1>16. SavesOK'
  <2> SUFFICES ASSUME NEW q \in Call, AtCall(q, "save")'
               PROVE  SaveOK(q)'
    BY DEF SavesOK
  <2>1. q # p /\ AtCall(q, "save") /\ call'[q] = call[q] /\ SaveOK(q)
    BY <1>14, InvParts DEF Budget, SavesOK
  <2>2. PICK z \in Id : z = call[q].copy.session
    BY <2>1 DEF SaveOK
  <2>3. z \in blurred /\ s \in blurred
    BY <1>1, <1>2, <1>3, <2>1, <2>2 DEF SaveOK
  <2>4. \A x \in Ids \ blurred : tracker'.session # x
    BY <1>8, <2>3
  <2>5. call[q].by = z \/ {call[q].by, z} \subseteq blurred
    BY <2>1, <2>2 DEF SaveOK
  <2> QED
    BY <1>2, <1>10, <2>1, <2>2, <2>3, <2>4, <2>5 DEF SaveOK
<1>17. LinesOK'
  <2>1. tracker'.usage.loc + Cardinality(InFlight') <= used.calls
    BY <1>4, <1>6, <1>7, <1>8
  <2>2. ASSUME NEW q \in Call, AtCall(q, "save")'
        PROVE  call'[q].copy.usage.loc + Cardinality(InFlight') <= used.calls
    <3>1. AtCall(q, "save") /\ call'[q] = call[q]
      BY <1>14, <2>2
    <3>2. call[q].copy.usage.loc \in Nat
      BY <3>1, InvParts, Fields, TrackerFields, UsageFields DEF AtCall
    <3> QED
      BY <1>6, <1>7, <3>1, <3>2, InvParts DEF Budget, LinesOK
  <2> QED
    BY <1>2, <1>6, <2>1, <2>2, InvParts DEF Budget, LinesOK
<1> QED
  BY <1>2, <1>9, <1>11, <1>12, <1>13, <1>15, <1>16, <1>17, ToolKeeps DEF Budget

(* A hook that stops half way keeps the invariant.                         *)
LEMMA StopCallKeeps ==
  ASSUME HooksInv, NEW p \in Call, StopCall(p)
  PROVE  HooksInv'
<1>1. PICK c \in CallState : c = call[p] /\ c # None
  BY InvParts, Fields DEF StopCall
<1>2. PICK b \in Id : b = c.by
  BY DEF CallState
<1>3. PICK X \in SUBSET Id : X = IF AtCall(p, "write") THEN {} ELSE {b}
  OBVIOUS
<1>4. /\ Blur(X) /\ SetCall(p, None)
      /\ UNCHANGED <<constitution, glock, seal, active, tracker, memento, index, cmd, gc,
                     settled, odd, used>>
  BY <1>1, <1>2, <1>3 DEF StopCall, policy, files
<1>5. /\ blurred' = blurred \cup X /\ blurred' \subseteq Id
      /\ charged' \in [Id -> Usage]
      /\ \A s \in Id : charged'[s] = Nothing \/ charged'[s] = charged[s]
      /\ \A s \in Id \ blurred' : charged'[s] = charged[s]
      /\ \A s \in Id : charged'[s].loc \in Nat /\ charged'[s].loc <= charged[s].loc
  BY <1>4, InvParts, BlurDoes
<1>6. CallSet(p, None)
  BY <1>4, InvParts, SetCallDoes
<1>7. TypeOK'
  BY <1>4, <1>5, <1>6, InvParts DEF TypeOK, CallSet
<1>8. Ids' = Ids
  BY <1>4 DEF Ids, Listed
<1>9. \A j \in Id : Unused(j) => Unused(j)'
  BY <1>4, <1>5, <1>6, <1>8 DEF Unused, CallSet
<1>10. GuardedWrites'
  <2>1. \A q \in Call : AtCall(q, "write")' => AtCall(q, "write") /\ call'[q] = call[q]
    BY <1>6 DEF AtCall, CallSet
  <2> QED
    BY <1>4, <2>1, InvParts, GuardedKeeps
<1>11. AloneOK'
  BY <1>4, <1>5, InvParts DEF Budget, AloneOK
<1>12. \A q \in Call : AtCall(q, "save")' => q # p /\ AtCall(q, "save") /\ call'[q] = call[q]
  BY <1>6 DEF AtCall, CallSet
<1>13. CountsOK'
  <2> SUFFICES ASSUME NEW s \in Id, s \notin blurred', Live(s)'
               PROVE  Holds(charged[s], Base(s), Charging(s))'
    BY DEF CountsOK
  <2>1. Live(s) /\ Base(s)' = Base(s) /\ charged'[s] = charged[s] /\ s \notin blurred
    <3>1. Live(s)
      BY <1>4, <1>8, <1>12 DEF Live
    <3> QED
      BY <1>4, <1>5, <3>1 DEF Base
  <2>2. p \notin Charging(s)
    BY <1>1, <1>2, <1>3, <1>5 DEF Charging, AtCall
  <2>3. Charging(s)' = Charging(s) /\ \A q \in Charging(s) : call'[q].path = call[q].path
    BY <1>6, <2>2 DEF Charging, CallSet
  <2> QED
    BY <2>1, <2>3, InvParts, HoldsKeeps DEF Budget, CountsOK
<1>14. SavesOK'
  <2>1. ASSUME NEW q \in Call, AtCall(q, "save")' PROVE SaveOK(q)'
    <3>1. AtCall(q, "save") /\ call'[q] = call[q] /\ SaveOK(q)
      BY <1>12, <2>1, InvParts DEF Budget, SavesOK
    <3> QED
      BY <1>4, <1>5, <1>12, <3>1, SaveKeeps
  <2> QED
    BY <2>1 DEF SavesOK
<1>15. LinesOK'
  <2>1. InFlight' = InFlight \ {p} /\ p \in InFlight
    BY <1>1, <1>6 DEF InFlight, CallSet
  <2>2. /\ IsFiniteSet(InFlight') /\ Cardinality(InFlight') \in Nat
        /\ Cardinality(InFlight) \in Nat /\ Cardinality(InFlight') <= Cardinality(InFlight)
    <3>1. /\ IsFiniteSet(InFlight \ {p}) /\ Cardinality(InFlight) \in Nat
          /\ Cardinality(InFlight \ {p}) = Cardinality(InFlight) - 1
          /\ Cardinality(InFlight) >= 1
      BY <2>1, Counting, OneOf
    <3> QED
      BY <2>1, <3>1
  <2>3. Writing' \subseteq Writing
    BY <1>6 DEF Writing, AtCall, CallSet
  <2>4. /\ Cardinality(Writing') \in Nat /\ Cardinality(Writing) \in Nat
        /\ Cardinality(Writing') <= Cardinality(Writing)
    BY <2>3, Counting, FS_Subset, FS_CardinalityType
  <2>5. \A s \in Id : charged'[s].loc + Cardinality(Writing') <= used.calls
    <3>1. \A s \in Id : charged[s].loc \in Nat
                        /\ charged[s].loc + Cardinality(Writing) <= used.calls
      BY InvParts, Fields, UsageFields DEF Budget, LinesOK
    <3>2. used.calls \in Nat
      BY InvParts
    <3> QED
      BY <1>5, <2>4, <3>1, <3>2
  <2>6. tracker.usage.loc + Cardinality(InFlight') <= used.calls
    <3>1. tracker.usage.loc \in Nat
      BY InvParts, TrackerFields, UsageFields DEF TypeOK
    <3> QED
      BY <2>2, <3>1, InvParts DEF Budget, LinesOK
  <2>7. ASSUME NEW q \in Call, AtCall(q, "save")'
        PROVE  call'[q].copy.usage.loc + Cardinality(InFlight') <= used.calls
    <3>1. AtCall(q, "save") /\ call'[q] = call[q]
      BY <1>12, <2>7
    <3>2. call[q].copy.usage.loc \in Nat
      BY <3>1, InvParts, Fields, TrackerFields, UsageFields DEF AtCall
    <3> QED
      BY <2>2, <3>1, <3>2, InvParts DEF Budget, LinesOK
  <2> QED
    BY <1>4, <2>2, <2>5, <2>6, <2>7 DEF LinesOK
<1> QED
  BY <1>4, <1>7, <1>9, <1>10, <1>11, <1>13, <1>14, <1>15, ToolKeeps DEF Budget

-----------------------------------------------------------------------------
(* All the steps together.                                                 *)

(* Nothing is open, saved, written or removed at the start.                *)
LEMMA InitKeeps == Init => HooksInv
<1> SUFFICES ASSUME Init PROVE HooksInv
  OBVIOUS
<1>1. /\ \A a \in Agent : active[a] = None /\ cmd[a] = None
      /\ \A p \in Call : call[p] = None
      /\ constitution = Original /\ glock = Original /\ seal = None /\ gc = None
      /\ tracker = [session |-> 0, usage |-> Nothing]
      /\ memento = {} /\ index = {} /\ settled = {} /\ odd = {} /\ blurred = {}
      /\ used = [sessions |-> 0, calls |-> 0, others |-> 0]
      /\ charged = [i \in Id |-> Nothing]
  BY DEF Init
<1>2. Nothing \in Usage /\ Nothing.paths = {} /\ Nothing.loc = 0
  BY ConstantsAssumption DEF Nothing, Usage
<1>3. tracker \in Tracker /\ tracker.session = 0 /\ tracker.usage = Nothing
  BY <1>1, <1>2 DEF Tracker
<1>4. TypeOK
  <2>1. used \in [sessions: 0 .. MaxSessions, calls: 0 .. MaxCalls, others: 0 .. MaxOthers]
    BY <1>1, ConstantsAssumption
  <2>2. /\ active \in [Agent -> Id \cup {None}]
        /\ cmd \in [Agent -> CommandState \cup {None}]
        /\ call \in [Call -> CallState \cup {None}]
        /\ charged \in [Id -> Usage]
    BY <1>2 DEF Init
  <2> QED
    BY <1>1, <1>3, <2>1, <2>2, ConstantsAssumption DEF TypeOK
<1>5. /\ \A a \in Agent : \A s : ~At(a, s)
      /\ \A p \in Call : \A s : ~AtCall(p, s)
      /\ Ids = {}
      /\ InFlight = {} /\ Writing = {} /\ \A s : Charging(s) = {}
  BY <1>1 DEF At, AtCall, Ids, Listed, InFlight, Writing, Charging
<1>6. SessionsOK
  <2>1. \A i \in Id : Unused(i)
    BY <1>1, <1>3, <1>4, <1>5, IdsAre DEF Unused
  <2> QED
    BY <1>1, <1>5, <2>1 DEF SessionsOK, Starting
<1>7. SettledOK /\ AloneOK /\ SavesOK /\ GuardedWrites
  BY <1>1, <1>5 DEF SettledOK, AloneOK, SavesOK, GuardedWrites
<1>8. CountsOK
  BY <1>3, <1>4, <1>5, IdsAre DEF CountsOK, Live
<1>9. LinesOK
  <2>1. IsFiniteSet({}) /\ Cardinality({}) = 0
    BY FS_EmptySet
  <2>2. used.calls = 0 /\ \A s \in Id : charged[s].loc = 0
    BY <1>1, <1>2
  <2> QED
    BY <1>2, <1>3, <1>5, <2>1, <2>2 DEF LinesOK
<1>10. FilesOK /\ IndexAgrees
  BY <1>1, <1>5 DEF FilesOK, IndexAgrees
<1> QED
  BY <1>4, <1>6, <1>7, <1>8, <1>9, <1>10 DEF HooksInv

(* Every step of a start or finish keeps the invariant.                    *)
LEMMA EveryCommandKeeps ==
  ASSUME HooksInv, NEW a \in Agent, Command(a)
  PROVE  HooksInv'
<1>1. CASE BeginStart(a)
  BY <1>1, BeginStartKeeps
<1>2. CASE StartSeals(a)
  BY <1>2, SealKeeps DEF StartSeals
<1>3. CASE Open(a)
  BY <1>3, OpenKeeps
<1>4. CASE BeginEnd(a)
  BY <1>4, BeginEndKeeps
<1>5. CASE EndSeals(a)
  BY <1>5, SealKeeps DEF EndSeals
<1>6. CASE WriteMemento(a)
  BY <1>6, WriteMementoKeeps
<1>7. CASE AppendIndex(a)
  BY <1>7, AppendIndexKeeps
<1>8. CASE StopCommand(a)
  BY <1>8, StopCommandKeeps
<1>9. CASE SealFails(a)
  BY <1>9, SealFailsKeeps
<1> QED
  BY <1>1, <1>2, <1>3, <1>4, <1>5, <1>6, <1>7, <1>8, <1>9 DEF Command

(* Every step of a tool call does.                                         *)
LEMMA EveryCallKeeps ==
  ASSUME HooksInv, NEW p \in Call, ToolCall(p)
  PROVE  HooksInv'
<1>1. CASE \E a \in Agent, f \in Path : PreTool(p, a, f)
  BY <1>1, PreToolKeeps
<1>2. CASE Touch(p)
  BY <1>2, TouchKeeps
<1>3. CASE ReadTracker(p)
  BY <1>3, ReadTrackerKeeps
<1>4. CASE SaveTracker(p)
  BY <1>4, SaveTrackerKeeps
<1>5. CASE StopCall(p)
  BY <1>5, StopCallKeeps
<1> QED
  BY <1>1, <1>2, <1>3, <1>4, <1>5 DEF ToolCall

(* Every step of gc does.                                                  *)
LEMMA EveryGcKeeps ==
  ASSUME HooksInv, GcStep
  PROVE  HooksInv'
<1>1. CASE \E removed \in SUBSET memento \ {{}} : GcRemove(removed)
  BY <1>1, GcRemoveKeeps
<1>2. CASE GcRead
  BY <1>2, GcReadKeeps
<1>3. CASE GcRewrite
  BY <1>3, GcRewriteKeeps
<1>4. CASE StopGc
  BY <1>4, StopGcKeeps
<1> QED
  BY <1>1, <1>2, <1>3, <1>4 DEF GcStep

(* So does a step of something else.                                       *)
LEMMA StutterKeeps ==
  ASSUME HooksInv, UNCHANGED vars
  PROVE  HooksInv'
<1>1. UNCHANGED <<constitution, glock, seal, active, tracker, memento, index, cmd, call, gc,
                  charged, blurred, settled, odd, used>>
  BY DEF vars, policy, files, history
<1>2. TypeOK'
  BY <1>1, InvParts DEF TypeOK
<1>3. CallsAs /\ ClosesOnly
  BY <1>1, SameCalls DEF ClosesOnly
<1>4. SessionsOK'
  BY <1>1, <1>3, InvParts, AllUnusedKeep, SessionsKeep
<1>5. SettledOK'
  <2>1. \A b \in Agent : At(b, "compose") => At(b, "compose")'
    BY <1>1 DEF At
  <2>2. settled \subseteq Agent
    BY InvParts DEF TypeOK
  <2> QED
    BY <1>1, <2>1, <2>2, InvParts, SettledKeeps
<1>6. FilesOK' /\ IndexAgrees'
  <2>1. Finishing' = Finishing /\ Ids' = Ids
    BY <1>1 DEF Finishing, At, Ids, Listed
  <2>2. \A b \in Agent : At(b, "index")' => At(b, "index") /\ cmd'[b].id = cmd[b].id
    BY <1>1 DEF At
  <2> QED
    BY <1>1, <2>1, <2>2, InvParts, FilesKeep
<1> QED
  BY <1>1, <1>2, <1>3, <1>4, <1>5, <1>6, CommandKeeps

(* The invariant holds in every state the system reaches.                  *)
THEOREM HooksInvariant == Spec => []HooksInv
<1>1. Init => HooksInv
  BY InitKeeps
<1>2. HooksInv /\ [Next]_vars => HooksInv'
  <2> SUFFICES ASSUME HooksInv, [Next]_vars PROVE HooksInv'
    OBVIOUS
  <2>1. CASE \E a \in Agent : Command(a)
    BY <2>1, EveryCommandKeeps
  <2>2. CASE \E p \in Call : ToolCall(p)
    BY <2>2, EveryCallKeeps
  <2>3. CASE GcStep
    BY <2>3, EveryGcKeeps
  <2>4. CASE \E text \in Text : EditConstitution(text)
    BY <2>4, EditConstitutionKeeps
  <2>5. CASE BuildGovernance
    BY <2>5, BuildGovernanceKeeps
  <2>6. CASE UNCHANGED vars
    BY <2>6, StutterKeeps
  <2> QED
    BY <2>1, <2>2, <2>3, <2>4, <2>5, <2>6 DEF Next
<1> QED
  BY <1>1, <1>2, PTL DEF Spec

(* Every variable keeps its type.                                          *)
THEOREM HooksTypes == Spec => []TypeOK
<1>1. HooksInv => TypeOK
  BY DEF HooksInv
<1> QED
  BY <1>1, HooksInvariant, PTL

(* A write goes where the ticket of the caller's own session and the       *)
(* constitution let it, when that session is alone, its ticket is there,   *)
(* its start found or made a valid seal, and no edit of the constitution   *)
(* and no stale or torn seal came after that.                              *)
THEOREM WritesGuarded == Spec => []GuardedWrites
<1>1. HooksInv => GuardedWrites
  BY DEF HooksInv
<1> QED
  BY <1>1, HooksInvariant, PTL

(* The one budget file holds what its session's tools wrote, unless calls  *)
(* or sessions overlapped or a hook failed.                                *)
THEOREM UsageCounted == Spec => []BudgetCounted
<1>1. HooksInv => BudgetCounted
  <2> SUFFICES ASSUME HooksInv, NEW s, s = tracker.session, s # 0, s \notin blurred,
                      ~ \E p \in Call : call[p] # None /\ call[p].by = s /\ ~AtCall(p, "write")
               PROVE  tracker.usage = charged[s]
    BY DEF BudgetCounted
  <2>1. s \in Id /\ tracker.usage \in Usage /\ charged[s] \in Usage
    <3>1. tracker \in Tracker
      BY InvParts DEF TypeOK
    <3> QED
      BY <3>1, TrackerFields, InvParts, Fields
  <2>2. Charging(s) = {}
    BY DEF Charging, AtCall
  <2>3. Holds(charged[s], tracker.usage, {})
    BY <2>1, <2>2, InvParts DEF Budget, CountsOK, Live, Base
  <2>4. charged[s].paths = tracker.usage.paths /\ charged[s].loc = tracker.usage.loc
    BY <2>1, <2>3, UsageFields, FS_EmptySet DEF Holds, PathsOf
  <2> QED
    BY <2>1, <2>4, UsageEqual
<1> QED
  BY <1>1, HooksInvariant, PTL

(* Finish and gc leave a memento exactly where they leave a line of the    *)
(* index, unless one was stopped half way or they overlapped.              *)
THEOREM IndexKept == Spec => []IndexAgrees
<1>1. HooksInv => IndexAgrees
  BY DEF HooksInv
<1> QED
  BY <1>1, HooksInvariant, PTL

=============================================================================

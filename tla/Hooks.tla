------------------------------- MODULE Hooks -------------------------------
(***************************************************************************)
(* What Claude Code's hooks do around an agent's session, exo/stdlib/      *)
(* hooks.py: SessionStart and SessionEnd start and finish a session        *)
(* (module Session; here only what start and finish do to the files        *)
(* below), PreToolUse checks the path of a Write or Edit, PostToolUse      *)
(* charges it to the budget.  They share the sealed policy of exo/stdlib/  *)
(* compose.py, one budget tracker, and the mementos with their index,      *)
(* which exo/stdlib/gc.py prunes.  Every hook is a process of its own: the *)
(* tool calls of an agent, and those of several agents, run in parallel.   *)
(***************************************************************************)
EXTENDS Naturals, FiniteSets

CONSTANTS
  MaxAgents,   \* agents 1 .. MaxAgents, in the order of their session files
  MaxSessions, \* bound: session ids
  Call,        \* the hook processes of tool calls
  MaxCalls,    \* bound: tool calls
  MaxOthers,   \* bound: edits of the constitution and gc commands
  Path,        \* paths that tools write
  Text,        \* texts of the constitution
  Original,    \* the one at the start
  Denies,      \* the paths each text denies
  Scope,       \* the paths the ticket of each agent allows
  Loadable,    \* the agents whose ticket file is there and can be parsed
  None         \* no seal, no session, no process

Agent == 1 .. MaxAgents
Id == 1 .. MaxSessions

ASSUME ConstantsAssumption ==
  /\ {MaxAgents, MaxSessions, MaxCalls, MaxOthers} \subseteq Nat
  /\ Original \in Text
  /\ Denies \in [Text -> SUBSET Path]
  /\ Scope \in [Agent -> SUBSET Path]
  /\ Loadable \subseteq Agent

VARIABLES
  constitution, \* the text of .exo/CONSTITUTION.md
  glock,        \* the text the governance lock was compiled from
  seal,         \* .exo/policy.sealed.json: the text hashed, the text of the rules
  active,       \* the active session of each agent
  tracker,      \* agent-claude-code.budget.json
  memento,      \* the sessions with a memento file
  index,        \* the sessions with a line in index.jsonl
  cmd,          \* the start or finish each agent is in
  call,         \* the tool call each process is in
  gc,           \* the gc command under way
  charged,      \* history: the paths and lines that tools of a session wrote
  blurred,      \* history: sessions whose tool calls got mixed up
  settled,      \* history: agents who found or made a seal that still holds
  odd,          \* history: sessions cut off between memento and index
  used          \* sessions opened, tools called, edits made and gcs begun

policy == <<constitution, glock>>
files == <<memento, index>>
history == <<charged, blurred>>
vars == <<policy, seal, active, tracker, files, cmd, call, gc, history, settled,
          odd, used>>

Usage == [paths: SUBSET Path, loc: 0 .. MaxCalls]
Seal == [source: Text, rules: Text]
Tracker == [session: Id \cup {0}, usage: Usage]

(* A start or finish, the process of a tool call, and a gc command. *)
CommandState == [at: {"compose", "open", "seal", "memento", "index"},
                 rules: Text \cup {None}, id: Id]
CallState == [at: {"write", "track", "save"}, path: Path, agent: Agent, by: Id,
              copy: Tracker, calm: BOOLEAN]
GcState == [at: {"read", "rewrite"}, removed: SUBSET Id, lines: SUBSET Id]

ASSUME NoneAssumption ==
  None \notin Nat \cup Text \cup Seal \cup CommandState \cup CallState \cup GcState

TypeOK ==
  /\ constitution \in Text /\ glock \in Text
  /\ seal \in Seal \cup {None}
  /\ active \in [Agent -> Id \cup {None}]
  /\ tracker \in Tracker
  /\ memento \subseteq Id /\ index \subseteq Id
  /\ cmd \in [Agent -> CommandState \cup {None}]
  /\ call \in [Call -> CallState \cup {None}]
  /\ gc \in GcState \cup {None}
  /\ charged \in [Id -> Usage] /\ blurred \subseteq Id
  /\ settled \subseteq Agent /\ odd \subseteq Id
  /\ used \in [sessions: 0 .. MaxSessions, calls: 0 .. MaxCalls, others: 0 .. MaxOthers]

Nothing == [paths |-> {}, loc |-> 0]

Init ==
  /\ constitution = Original /\ glock = Original
  /\ seal = None
  /\ active = [a \in Agent |-> None]
  /\ tracker = [session |-> 0, usage |-> Nothing]
  /\ memento = {} /\ index = {}
  /\ cmd = [a \in Agent |-> None]
  /\ call = [p \in Call |-> None]
  /\ gc = None
  /\ charged = [i \in Id |-> Nothing] /\ blurred = {}
  /\ settled = {} /\ odd = {}
  /\ used = [sessions |-> 0, calls |-> 0, others |-> 0]

-----------------------------------------------------------------------------
At(a, step) == cmd[a] # None /\ cmd[a].at = step
Advance(a, next) == cmd' = [cmd EXCEPT ![a] = next]

(* The calls whose check was made under a policy that changes. *)
Unsettled == [p \in Call |-> IF call[p] = None THEN None ELSE [call[p] EXCEPT !.calm = FALSE]]

(* From now on the usage of these sessions is not compared any more. *)
Blur(ids) ==
  /\ blurred' = blurred \cup ids
  /\ charged' = [i \in Id |-> IF i \in ids THEN Nothing ELSE charged[i]]

(* The entries of scan_sessions, and the one the hooks take. *)
Listed == {a \in Agent : active[a] # None}
First == CHOOSE a \in Listed : \A b \in Listed : a <= b
Ids == {active[a] : a \in Listed}

(* verify_sealed_policy, of a file nobody tampered with.  The mutant looks *)
(* for the file only.                                                      *)
ValidMutant(s) == s # None
Valid(s) == s # None /\ s.source = constitution

(* compose reads the lock first, ... *)
Composing(step, i) == [at |-> step, rules |-> glock, id |-> i]

(* ... then hashes the sources and writes the seal. *)
WriteSeal(a, next) ==
  /\ seal' = [source |-> constitution, rules |-> cmd[a].rules]
  /\ Advance(a, [cmd[a] EXCEPT !.at = next, !.rules = None])
  /\ IF cmd[a].rules = constitution THEN UNCHANGED <<settled, call>>
     ELSE settled' = {} /\ call' = Unsettled

(* compose may fail: there is no governance lock, the configuration cannot *)
(* be parsed, or the seal cannot be written, and is torn.  start and       *)
(* finish go on all the same, under what there is.                         *)
SealFails(a) ==
  /\ At(a, "compose") \/ At(a, "seal")
  /\ seal' \in {seal, None}
  /\ settled' = IF seal' # seal THEN {}
                ELSE IF At(a, "compose") THEN settled \ {a} ELSE settled
  /\ Advance(a, [cmd[a] EXCEPT !.at = IF At(a, "compose") THEN "open" ELSE "memento",
                               !.rules = None])
  /\ UNCHANGED <<policy, active, tracker, files, call, gc, history, odd, used>>

(* start: the policy is sealed again if it has to, and the session opens. *)
BeginStart(a) ==
  /\ cmd[a] = None /\ active[a] = None /\ used.sessions < MaxSessions
  /\ used' = [used EXCEPT !.sessions = @ + 1]
  /\ LET c == Composing("compose", used.sessions + 1)
     IN  Advance(a, IF Valid(seal) THEN [c EXCEPT !.at = "open", !.rules = None] ELSE c)
  /\ settled' = settled \cup {a}
  /\ UNCHANGED <<policy, seal, active, tracker, files, call, gc, history, odd>>

StartSeals(a) ==
  /\ At(a, "compose")
  /\ WriteSeal(a, "open")
  /\ UNCHANGED <<policy, active, tracker, files, gc, history, odd, used>>

Open(a) ==
  LET i == cmd[a].id
  IN  /\ At(a, "open")
      /\ active' = [active EXCEPT ![a] = i]
      /\ Blur(IF Listed = {} THEN {} ELSE Ids \cup {i})
      /\ Advance(a, None)
      /\ UNCHANGED <<policy, seal, tracker, files, call, gc, settled, odd, used>>

(* finish: the policy is sealed again in any case, then come the memento   *)
(* and the line of the index, and the session is over.                     *)
BeginEnd(a) ==
  /\ cmd[a] = None /\ active[a] # None
  /\ Advance(a, Composing("seal", active[a]))
  /\ UNCHANGED <<policy, seal, active, tracker, files, call, gc, history, settled, odd, used>>

EndSeals(a) ==
  /\ At(a, "seal")
  /\ WriteSeal(a, "memento")
  /\ UNCHANGED <<policy, active, tracker, files, gc, history, odd, used>>

WriteMemento(a) ==
  /\ At(a, "memento")
  /\ memento' = memento \cup {cmd[a].id}
  /\ Advance(a, [cmd[a] EXCEPT !.at = "index"])
  /\ UNCHANGED <<policy, seal, active, tracker, index, call, gc, history, settled, odd, used>>

AppendIndex(a) ==
  /\ At(a, "index")
  /\ index' = index \cup {cmd[a].id}
  /\ active' = [active EXCEPT ![a] = None]
  /\ settled' = settled \ {a}
  /\ Advance(a, None)
  /\ UNCHANGED <<policy, seal, tracker, memento, call, gc, history, odd, used>>

(* A start or finish fails or is killed; a session it was finishing stays. *)
StopCommand(a) ==
  /\ cmd[a] # None
  /\ odd' = IF At(a, "index") THEN odd \cup {cmd[a].id} ELSE odd
  /\ settled' = IF active[a] = None THEN settled \ {a} ELSE settled
  /\ Advance(a, None)
  /\ UNCHANGED <<policy, seal, active, tracker, files, call, gc, history, used>>

-----------------------------------------------------------------------------
SetCall(p, next) == call' = [call EXCEPT ![p] = next]
AtCall(p, step) == call[p] # None /\ call[p].at = step

(* check_scope_for_tool: the rules as they are in the seal, valid or not,  *)
(* and the scope of the first session listed, whoever the caller is; if    *)
(* its ticket cannot be loaded, the check fails and lets the call pass.    *)
Allowed(f) ==
  /\ seal # None => f \notin Denies[seal.rules]
  /\ Listed = {} \/ First \notin Loadable \/ f \in Scope[First]

PreTool(p, a, f) ==
  /\ call[p] = None /\ used.calls < MaxCalls
  /\ active[a] # None /\ Allowed(f)
  /\ used' = [used EXCEPT !.calls = @ + 1]
  /\ SetCall(p, [at |-> "write", path |-> f, agent |-> a, by |-> active[a],
                 copy |-> [session |-> 0, usage |-> Nothing],
                 calm |-> /\ Listed = {a} /\ a \in settled \cap Loadable
                          /\ seal # None => seal.rules = seal.source])
  /\ UNCHANGED <<policy, seal, active, tracker, files, cmd, gc, history, settled, odd>>

(* The mutant adds what was there to the lines as well. *)
PlusMutant(usage, f) == [paths |-> usage.paths \cup {f}, loc |-> 2 * usage.loc + 1]
Plus(usage, f) == [paths |-> usage.paths \cup {f}, loc |-> usage.loc + 1]

(* The tool writes a line to its path. *)
Touch(p) ==
  LET c == call[p]
  IN  /\ AtCall(p, "write")
      /\ charged' = IF c.by \in blurred THEN charged
                    ELSE [charged EXCEPT ![c.by] = Plus(@, c.path)]
      /\ SetCall(p, [c EXCEPT !.at = "track", !.calm = FALSE])
      /\ UNCHANGED <<policy, seal, active, tracker, files, cmd, gc, blurred, settled, odd, used>>

(* _track_budget: the tracker is read, begun anew when it is another       *)
(* session's, and written back; the mutant goes on with what it holds.     *)
RestartedMutant(s) == [tracker EXCEPT !.session = s]
Restarted(s) == IF tracker.session = s THEN tracker ELSE [session |-> s, usage |-> Nothing]

(* Sessions in the middle of the same. *)
Saving == {call[q].copy.session : q \in {r \in Call : AtCall(r, "save")}}

ReadTracker(p) ==
  LET c == call[p]
      s == active[First]
      mixed == (IF s # c.by THEN {s, c.by} ELSE {})
                 \cup (IF Saving # {} THEN Saving \cup {s} ELSE {})
  IN  /\ AtCall(p, "track")
      /\ IF Listed = {} THEN Blur({c.by}) /\ SetCall(p, None)
         ELSE /\ Blur(mixed)
              /\ SetCall(p, [c EXCEPT !.at = "save", !.copy = Restarted(s)])
      /\ UNCHANGED <<policy, seal, active, tracker, files, cmd, gc, settled, odd, used>>

SaveTracker(p) ==
  LET c == call[p]
  IN  /\ AtCall(p, "save")
      /\ tracker' = [c.copy EXCEPT !.usage = Plus(@, c.path)]
      /\ SetCall(p, None)
      /\ UNCHANGED <<policy, seal, active, files, cmd, gc, history, settled, odd, used>>

(* A call is cancelled, or its hook dies and the write goes uncounted. *)
StopCall(p) ==
  /\ call[p] # None
  /\ Blur(IF AtCall(p, "write") THEN {} ELSE {call[p].by})
  /\ SetCall(p, None)
  /\ UNCHANGED <<policy, seal, active, tracker, files, cmd, gc, settled, odd, used>>

-----------------------------------------------------------------------------
(* gc removes old mementos, then takes their lines out of the index.  The  *)
(* age may be zero, so any memento may go; when none does, gc writes       *)
(* nothing, and is left out.                                               *)
Finishing == {cmd[a].id : a \in {b \in Agent : At(b, "index")}}

GcRemove(removed) ==
  /\ gc = None /\ used.others < MaxOthers
  /\ memento' = memento \ removed
  /\ odd' = odd \cup (removed \cap Finishing)
  /\ gc' = [at |-> "read", removed |-> removed, lines |-> {}]
  /\ used' = [used EXCEPT !.others = @ + 1]
  /\ UNCHANGED <<policy, seal, active, tracker, index, cmd, call, history, settled>>

(* _compact_index; the mutant keeps the wrong lines. *)
KeptMutant(lines, removed) == lines \cap removed
Kept(lines, removed) == lines \ removed

GcRead ==
  /\ gc # None /\ gc.at = "read"
  /\ gc' = IF Kept(index, gc.removed) = index THEN None
           ELSE [gc EXCEPT !.at = "rewrite", !.lines = index]
  /\ UNCHANGED <<policy, seal, active, tracker, files, cmd, call, history, settled, odd, used>>

(* Lines appended since are lost. *)
GcRewrite ==
  /\ gc # None /\ gc.at = "rewrite"
  /\ index' = Kept(gc.lines, gc.removed)
  /\ odd' = odd \cup (index \ gc.lines)
  /\ gc' = None
  /\ UNCHANGED <<policy, seal, active, tracker, memento, cmd, call, history, settled, used>>

StopGc ==
  /\ gc # None
  /\ odd' = odd \cup gc.removed
  /\ gc' = None
  /\ UNCHANGED <<policy, seal, active, tracker, files, cmd, call, history, settled, used>>

(* The constitution is edited, and build-governance compiles it. *)
EditConstitution(text) ==
  /\ text # constitution /\ used.others < MaxOthers
  /\ constitution' = text
  /\ used' = [used EXCEPT !.others = @ + 1]
  /\ settled' = {} /\ call' = Unsettled
  /\ UNCHANGED <<glock, seal, active, tracker, files, cmd, gc, history, odd>>

BuildGovernance ==
  /\ glock # constitution
  /\ glock' = constitution
  /\ UNCHANGED <<constitution, seal, active, tracker, files, cmd, call, gc, history,
                 settled, odd, used>>

-----------------------------------------------------------------------------
Command(a) ==
  \/ BeginStart(a) \/ StartSeals(a) \/ Open(a)
  \/ BeginEnd(a) \/ EndSeals(a) \/ WriteMemento(a) \/ AppendIndex(a)
  \/ SealFails(a)
  \/ StopCommand(a)

ToolCall(p) ==
  \/ \E a \in Agent, f \in Path : PreTool(p, a, f)
  \/ Touch(p) \/ ReadTracker(p) \/ SaveTracker(p) \/ StopCall(p)

GcStep ==
  \/ \E removed \in SUBSET memento \ {{}} : GcRemove(removed)
  \/ GcRead \/ GcRewrite \/ StopGc

Next ==
  \/ \E a \in Agent : Command(a)
  \/ \E p \in Call : ToolCall(p)
  \/ GcStep
  \/ \E text \in Text : EditConstitution(text)
  \/ BuildGovernance

Spec == Init /\ [][Next]_vars

-----------------------------------------------------------------------------
(* Nothing is written outside the scope of the caller's own ticket, or     *)
(* where the constitution denies it, when the caller's session is the only *)
(* one, its ticket is there, it started after the last edit of the         *)
(* constitution and then found a valid seal or made one, and no seal was   *)
(* made since from a lock that had not been compiled again, or torn.  A    *)
(* session whose own seal failed is not guarded.                           *)
GuardedWrites ==
  \A p \in Call :
    AtCall(p, "write") /\ call[p].calm =>
      call[p].path \in Scope[call[p].agent] \ Denies[constitution]

(* The budget tracker holds exactly what the tools of its session wrote,   *)
(* across the sessions that used the one file before, unless tool calls or *)
(* sessions overlapped, or a hook failed.                                  *)
BudgetCounted ==
  LET s == tracker.session
      open == \E p \in Call : call[p] # None /\ call[p].by = s /\ ~AtCall(p, "write")
  IN  s # 0 /\ s \notin blurred /\ ~open => tracker.usage = charged[s]

(* A session has a memento if and only if it has a line in the index, once *)
(* finish and gc are done with it, unless one was stopped half way, or gc  *)
(* overlapped the end of a finish.                                         *)
IndexAgrees ==
  LET busy == Finishing \cup (IF gc = None THEN {} ELSE gc.removed)
  IN  \A i \in Id \ (odd \cup busy) : i \in memento <=> i \in index
=============================================================================

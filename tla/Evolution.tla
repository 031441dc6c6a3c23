----------------------------- MODULE Evolution -----------------------------
(***************************************************************************)
(* Governed writes and self-evolution, exo/stdlib/engine.py and            *)
(* exo/stdlib/evolution.py.  do writes a ticket's patches; apply_proposal  *)
(* writes those of an approved proposal and recompiles the constitution.   *)
(* Both preview the whole patch list and then write file by file, looking  *)
(* at the ticket lock, the governance lock and the rules again before each *)
(* file.  approve, apply_proposal and distill each read a proposal and     *)
(* later write it back whole.  policy_set writes and compiles a            *)
(* constitution with a capability in the place of a proposal.              *)
(* A command may stop between any two steps:                               *)
(* because a step is refused, a check fails, or the process is killed.     *)
(* Git is kept strict, as in the default configuration; the constitution,  *)
(* the governance lock and the tickets are committed, as install does, the *)
(* proposals are not.  Contents of files other than the constitution are   *)
(* left out, and with them the line count of the budget.                   *)
(***************************************************************************)
EXTENDS Governance, Naturals, Sequences

CONSTANTS
  Actor,        \* EXO_ACTOR values, each running one command at a time
  Human,        \* the actors called human or human:...
  Trusted,      \* self_evolution.trusted_approvers
  Initial,      \* the constitutions init may find or write
  Granted,      \* the actors that know a policy_set capability
  Ticket,       \* ticket ids
  Proposal,     \* proposal ids
  Main,         \* the branch work starts from; each ticket has its own
  Cut,          \* which tickets may have a branch at the start
  Area,         \* the part of the repository each path is in
  Scope,        \* the paths each ticket's scope allows
  MaxFiles,     \* the max_files_changed of each ticket
  TicketType,   \* the type of each ticket
  PatchList,    \* the patch lists anyone writes
  Drafts,       \* what is proposed: kind, ticket and requires
  MaxCommands,  \* bound: commands begun
  MaxOutside,   \* bound: what happens outside the engine
  None          \* no command, no lock, no proposal

Kind == {"governance_change", "practice_change", "tooling_change"}
Review == [by: Actor, decision: {"approved", "rejected"}]
Draft == [kind: Kind, ticket: Ticket, approvals: Nat \ {0}, human: BOOLEAN]
Edit == [path: Path, text: Text]
Branch == Ticket \cup {Main}

ASSUME ConstantsAssumption ==
  /\ Human \subseteq Actor /\ Trusted \subseteq Actor /\ Granted \subseteq Actor
  /\ Initial \subseteq {t \in Text : Compiles(t)}
  /\ Cut \subseteq SUBSET Ticket
  /\ Drafts \subseteq Draft
  /\ PatchList \subseteq Seq(Edit)
  /\ MaxCommands \in Nat /\ MaxOutside \in Nat

VARIABLES
  constitution, \* the text of .exo/CONSTITUTION.md
  glock,        \* .exo/governance.lock.json
  dirty,        \* the paths written since the git HEAD
  branch,       \* the branch checked out
  tip,          \* what each branch that exists has committed
  lock,         \* the ticket of the unexpired ticket lock
  done,         \* the tickets whose status is done
  proposal,     \* the proposal files
  patch,        \* the patch file of each proposal
  cooling,      \* the audit log has a recent governance apply
  cmd,          \* the command each actor is running
  filed,        \* history: the review files of each proposal, in order
  crossed,      \* history: proposals two commands had read at once
  enforced,     \* history: the apply that made the governance lock
  slipped,      \* history: a write without authority, a manual one, or an
                \*   apply's of the constitution that was in force already
  late,         \* history: writes of a command since it had authority
  calls         \* commands begun, and events outside

tree == <<constitution, dirty, branch, tip>>
evidence == <<crossed, enforced, slipped>>
vars == <<tree, glock, lock, done, proposal, patch, cooling, cmd, filed,
          evidence, late, calls>>

(* A proposal file. *)
File == [draft: Drafts,
         status: {"draft", "proposed", "approved", "rejected", "applied"},
         reviews: Seq(Review)]

(* A governance lock that apply_proposal made, and what a commit holds, as *)
(* evidence too which apply made its governance lock.                      *)
Applied == [proposal: Proposal, text: Text]
Commit == [text: Text, glock: Text \cup {NoLock}, enforced: Applied \cup {None},
           done: SUBSET Ticket]

(* A command: its copy of the proposal, the edits still to write, the      *)
(* paths written (its usage of the budget), and whether nobody else        *)
(* has changed what it works on.                                           *)
Command == [op: {"do", "approve", "apply", "distill", "policy"},
            at: {"authorize", "write", "check", "scope", "marked", "save", "log"},
            ticket: Ticket, proposal: Proposal \cup {None},
            copy: File \cup {None}, ops: Seq(Edit), files: SUBSET Path,
            text: Text \cup {None}, alone: BOOLEAN]

ASSUME NoneAssumption ==
  /\ None \notin Proposal
  /\ None \notin File \cup Command \cup Applied \cup Commit

TypeOK ==
  /\ constitution \in Text
  /\ glock \in Text \cup {NoLock}
  /\ dirty \subseteq Path
  /\ branch \in Branch
  /\ tip \in [Branch -> Commit \cup {None}]
  /\ lock \in Ticket \cup {None}
  /\ done \subseteq Ticket
  /\ proposal \in [Proposal -> File \cup {None}]
  /\ patch \in [Proposal -> PatchList \cup {<<>>}]
  /\ cooling \in BOOLEAN
  /\ cmd \in [Actor -> Command \cup {None}]
  /\ filed \in [Proposal -> Seq(Review)]
  /\ crossed \subseteq Proposal
  /\ enforced \in Applied \cup {None}
  /\ slipped \in BOOLEAN
  /\ late \in [Actor -> Nat]
  /\ calls \in [commands: 0 .. MaxCommands, outside: 0 .. MaxOutside]

(* What a commit of the working tree holds. *)
Snapshot == [text |-> constitution, glock |-> glock, enforced |-> enforced, done |-> done]

Init ==
  /\ constitution \in Initial
  /\ glock = constitution
  /\ dirty = {}
  /\ branch = Main
  /\ lock \in Ticket \cup {None}
  /\ done = {}
  /\ proposal = [p \in Proposal |-> None]
  /\ patch = [p \in Proposal |-> <<>>]
  /\ cooling = FALSE
  /\ cmd = [a \in Actor |-> None]
  /\ filed = [p \in Proposal |-> <<>>]
  /\ crossed = {}
  /\ enforced = None
  /\ slipped = FALSE
  /\ late = [a \in Actor |-> 0]
  /\ calls = [commands |-> 0, outside |-> 0]
  /\ tip \in {[b \in Branch |-> IF b \in cut \cup {Main} THEN Snapshot ELSE None] :
               cut \in Cut}

-----------------------------------------------------------------------------
At(a, step) == cmd[a] # None /\ cmd[a].at = step

(* The command of an actor goes on as next; Disturb says that it changed   *)
(* what the others work on.                                                *)
Advance(a, next) == cmd' = [cmd EXCEPT ![a] = next]
Changed(b) == IF cmd[b] = None THEN None ELSE [cmd[b] EXCEPT !.alone = FALSE]
Disturb(a, next) == cmd' = [b \in Actor |-> IF b = a THEN next ELSE Changed(b)]
DisturbAll == cmd' = [b \in Actor |-> Changed(b)]

Begun(a) ==
  /\ cmd[a] = None /\ calls.commands < MaxCommands
  /\ calls' = [calls EXCEPT !.commands = @ + 1]

New(op, step, t, p, copy, ops) ==
  [op |-> op, at |-> step, ticket |-> t, proposal |-> p, copy |-> copy,
   ops |-> ops, files |-> {}, text |-> None, alone |-> TRUE]

(* ensure_lock, by ticket whoever its owner is, and verify_integrity: what *)
(* a governed write needs, whichever the path.                             *)
Authority(t) == lock = t /\ Intact(glock, constitution)

(* The kernel and memory boundaries, the ticket's scope and the rules. *)
Protected(path) == Area[path] \in {"kernel", "memory"}
Permitted(t, path) ==
  /\ ~Protected(path)
  /\ path \in Scope[t]
  /\ ~Denied(glock, "write", path)

(* _preview_budget, of the files of this command. *)
WithinBudget(t, files) == Cardinality(files) <= MaxFiles[t]

(* _authorize_write; the mutant takes the preview's word for the rest.     *)
AuthorizedMutant(t, path, files) == Permitted(t, path)
Authorized(t, path, files) ==
  Authority(t) /\ Permitted(t, path) /\ WithinBudget(t, files \cup {path})

Paths(ops) == {ops[i].path : i \in 1 .. Len(ops)}

(* The commands that have read a proposal and will write it back. *)
Holders(p) == {a \in Actor : cmd[a] # None /\ cmd[a].proposal = p}

-----------------------------------------------------------------------------
(* _apply_patches reads on before it writes: no path twice, and every file *)
(* within its bounds.  A command reads until it has previewed its patches; *)
(* what changes in between only gets it refused, now or at its first file. *)
Previewed(t, ops) ==
  /\ Authority(t)
  /\ \A path \in Paths(ops) : Permitted(t, path)
  /\ Cardinality(Paths(ops)) = Len(ops)
  /\ WithinBudget(t, Paths(ops))

(* What git's diff against HEAD reports, of the paths not ignored. *)
Differing ==
  {path \in dirty : Area[path] = "constitution" => constitution # tip[branch].text}

Clean == Differing = {} /\ glock = tip[branch].glock

(* git checkout of what a branch has committed: the tree is that of the    *)
(* commit, policy and governance lock included.  A ticket file that was    *)
(* saved and not committed is carried over, or the checkout fails.         *)
Checkout(commit) ==
  /\ constitution' = commit.text
  /\ glock' = commit.glock
  /\ enforced' = commit.enforced
  /\ done' = commit.done \cup (done \ tip[branch].done)
  /\ dirty' = {}

First(ops) == IF ops = <<>> THEN "check" ELSE "authorize"

(* do, on a clean tree: _enforce_lock_branch checks out the branch of the  *)
(* ticket, or cuts it from the base branch.  ops, those of the patch file  *)
(* and the do script, are previewed under the policy found there; refused, *)
(* the command ends, but the branch stays checked out.                     *)
BeginDo(a, t, ops) ==
  LET commit == IF tip[t] = None THEN tip[Main] ELSE tip[t]
      next == IF Previewed(t, ops)' THEN New("do", First(ops), t, None, None, ops) ELSE None
  IN  /\ Begun(a) /\ Authority(t) /\ Clean
      /\ UNCHANGED <<lock, proposal, patch, cooling, filed, crossed, slipped>>
      /\ branch' = t
      /\ IF branch = t
         THEN UNCHANGED <<constitution, glock, enforced, done, dirty, tip>> /\ Advance(a, next)
         ELSE /\ Checkout(commit)
              /\ tip' = [tip EXCEPT ![t] = commit]
              /\ Disturb(a, next)

(* _write_ticket_file, of one after another, each authorized again. *)
Authorize(a) ==
  LET c == cmd[a]
  IN  /\ At(a, "authorize")
      /\ Authorized(c.ticket, Head(c.ops).path, c.files)
      /\ Advance(a, [c EXCEPT !.at = "write"])
      /\ UNCHANGED <<tree, glock, lock, done, proposal, patch, cooling, filed,
                     evidence, calls>>

Write(a) ==
  LET c == cmd[a]
      edit == Head(c.ops)
  IN  /\ At(a, "write")
      /\ constitution' = IF Area[edit.path] = "constitution" THEN edit.text ELSE constitution
      /\ dirty' = dirty \cup {edit.path}
      /\ slipped' = \/ slipped \/ ~Authority(c.ticket) \/ c.op = "policy"
                    \/ c.op = "apply" /\ Area[edit.path] = "constitution" /\ edit.text = glock
      /\ Disturb(a, [c EXCEPT !.at = IF Len(c.ops) = 1 THEN "check" ELSE "authorize",
                              !.ops = Tail(@),
                              !.files = @ \cup {edit.path},
                              !.text = IF Area[edit.path] = "constitution"
                                       THEN edit.text ELSE @])
      /\ UNCHANGED <<branch, tip, glock, lock, done, proposal, patch, cooling, filed,
                     crossed, enforced, calls>>

(* The commands of the do script, which write what they like, and the      *)
(* checks, which pass.                                                     *)
RunDo(a, written, text) ==
  /\ At(a, "check") /\ cmd[a].op = "do"
  /\ constitution' = IF \E path \in written : Area[path] = "constitution"
                     THEN text ELSE constitution
  /\ dirty' = dirty \cup written
  /\ slipped' = (slipped \/ constitution' # constitution)
  /\ LET c == [cmd[a] EXCEPT !.at = "scope"]
     IN  IF written = {} THEN Advance(a, c) ELSE Disturb(a, c)
  /\ UNCHANGED <<branch, tip, glock, lock, done, proposal, patch, cooling, filed,
                 crossed, enforced, calls>>

(* _enforce_git_change_scope and _enforce_git_budget, of what differs from *)
(* the clean tree that do began with.  The mutant overlooks the integrity. *)
DiffAcceptedMutant(t) ==
  /\ \A path \in Differing : path \in Scope[t] /\ ~Denied(glock, "write", path)
  /\ WithinBudget(t, Differing)
DiffAccepted(t) ==
  /\ Intact(glock, constitution)
  /\ \A path \in Differing : path \in Scope[t] /\ ~Denied(glock, "write", path)
  /\ WithinBudget(t, Differing)

FinishDo(a) ==
  LET c == cmd[a]
  IN  /\ At(a, "scope")
      /\ branch = c.ticket
      /\ DiffAccepted(c.ticket)
      /\ done' = done \cup {c.ticket}
      /\ Advance(a, [c EXCEPT !.at = "marked"])
      /\ UNCHANGED <<tree, glock, lock, proposal, patch, cooling, filed, evidence, calls>>

(* _audit_lock_branch_policy, with a lock of this ticket younger than a    *)
(* day; audit adds the governance lock's state.                            *)
BranchIssues(t) ==
  {"BRANCH_POLICY_VIOLATION" : x \in {b \in {branch} : b # t}}
  \cup {"STALE_LOCK_DONE_TICKET" : x \in {t} \cap done}
  \cup {"LOCK_BRANCH_SCOPE_DRIFT" : x \in Differing \ Scope[t]}
  \cup {"LOCK_BRANCH_RULE_DRIFT" :
          x \in {path \in Differing \cap Scope[t] : Denied(glock, "write", path)}}
  \cup {"LOCK_BRANCH_BUDGET_DRIFT" : x \in {d \in {Differing} : ~WithinBudget(t, d)}}

AuditIssues(t) ==
  BranchIssues(t)
  \cup {"GOVERNANCE_DRIFT" : x \in {g \in {glock} : ~Intact(g, constitution)}}
  \cup {"RULE_SANITY" : x \in {g \in {glock} \ {NoLock} : ~Sane(g)}}

-----------------------------------------------------------------------------
(* propose; the patch file may be there, with patches in it, or be made    *)
(* empty for the author to fill.  A governance change needs a human.       *)
Propose(p, draft, ops) ==
  /\ proposal[p] = None
  /\ Intact(glock, constitution)
  /\ draft.kind = "governance_change" => draft.human
  /\ proposal' = [proposal EXCEPT ![p] = [draft |-> draft, status |-> "draft", reviews |-> <<>>]]
  /\ patch' = [patch EXCEPT ![p] = ops]
  /\ UNCHANGED <<tree, glock, lock, done, cooling, cmd, filed, evidence, calls>>

(* gate_summary, of the reviews in the file: a rejection only does not     *)
(* count.  The mutant goes by the status.                                  *)
Votes(f, voters) ==
  {i \in 1 .. Len(f.reviews) : f.reviews[i].decision = "approved" /\ f.reviews[i].by \in voters}
ReadyMutant(f) == f.status # "rejected"
Ready(f) ==
  /\ Cardinality(Votes(f, Human \cup Trusted)) >= f.draft.approvals
  /\ f.draft.human => Votes(f, Human) # {}

(* The mutant records what the review file says. *)
ReviewOfMutant(a, decision) ==
  [by |-> a, decision |-> IF decision = "approved" THEN "approve" ELSE "reject"]
ReviewOf(a, decision) == [by |-> a, decision |-> decision]

(* approve: the proposal is read, the review file written, ... *)
BeginApprove(a, p, decision) ==
  /\ Begun(a) /\ Intact(glock, constitution) /\ proposal[p] # None
  /\ Advance(a, New("approve", "save", proposal[p].draft.ticket, p,
                    [proposal[p] EXCEPT !.reviews = Append(@, ReviewOf(a, decision))], <<>>))
  /\ filed' = [filed EXCEPT ![p] = Append(@, ReviewOf(a, decision))]
  /\ UNCHANGED <<tree, glock, lock, done, proposal, patch, cooling, evidence>>

(* A proposal file is written back from a copy.  What others saved since   *)
(* it was read is gone.                                                    *)
Save(a, p, f) ==
  /\ proposal' = [proposal EXCEPT ![p] = f]
  /\ crossed' = IF Holders(p) \ {a} # {} THEN crossed \cup {p} ELSE crossed

(* ... and the proposal with the review, in a status of its own. *)
ReviewedStatusMutant(f) == [f EXCEPT !.reviews = <<f.reviews[Len(f.reviews)]>>]
ReviewedStatus(f) ==
  [f EXCEPT !.status = IF f.reviews[Len(f.reviews)].decision = "rejected" THEN "rejected"
                       ELSE IF Ready(f) THEN "approved" ELSE "proposed"]

SaveReview(a) ==
  LET c == cmd[a]
  IN  /\ At(a, "save") /\ c.op = "approve"
      /\ Save(a, c.proposal, ReviewedStatus(c.copy))
      /\ Advance(a, None)
      /\ UNCHANGED <<tree, glock, lock, done, patch, cooling, filed, enforced,
                     slipped, calls>>

-----------------------------------------------------------------------------
(* _validate_evolution_ticket *)
TicketFits(kind, t) ==
  CASE kind = "governance_change" -> TicketType[t] = "governance"
    [] kind = "practice_change" -> TicketType[t] \in {"practice", "docs", "governance"}
    [] kind = "tooling_change" -> TRUE

(* The part of the repository a kind of proposal has to change. *)
Target(kind) ==
  CASE kind = "governance_change" -> "constitution"
    [] kind = "practice_change" -> "practice"
    [] kind = "tooling_change" -> "script"

(* apply_proposal: approved by its reviews, whatever its status. *)
BeginApply(a, p) ==
  LET f == proposal[p]
      ops == patch[p]
  IN  /\ Begun(a) /\ f # None
      /\ Ready(f)
      /\ TicketFits(f.draft.kind, f.draft.ticket)
      /\ \E path \in Paths(ops) : Area[path] = Target(f.draft.kind)
      /\ f.draft.kind = "governance_change" => Votes(f, Human) # {} /\ ~cooling
      /\ Previewed(f.draft.ticket, ops)
      /\ Advance(a, New("apply", First(ops), f.draft.ticket, p, f, ops))
      /\ UNCHANGED <<tree, glock, lock, done, proposal, patch, cooling, filed, evidence>>

(* compile_constitution, of what the constitution says by then. *)
Compiled ==
  /\ Compiles(constitution)
  /\ glock' = constitution

(* Checks pass, and a constitution that was patched is compiled, whatever  *)
(* the kind of the proposal.                                               *)
Compile(a) ==
  LET c == cmd[a]
  IN  /\ At(a, "check") /\ c.op = "apply" /\ c.text # None
      /\ Compiled
      /\ enforced' = [proposal |-> c.proposal, text |-> c.text]
      /\ Disturb(a, [c EXCEPT !.at = "save"])
      /\ UNCHANGED <<tree, lock, done, proposal, patch, cooling, filed, crossed,
                     slipped, calls>>

SaveApplied(a) ==
  LET c == cmd[a]
  IN  /\ c # None /\ c.op = "apply"
      /\ At(a, "save") \/ (At(a, "check") /\ c.text = None)
      /\ Save(a, c.proposal, [c.copy EXCEPT !.status = "applied"])
      /\ Advance(a, [c EXCEPT !.at = "log"])
      /\ UNCHANGED <<tree, glock, lock, done, patch, cooling, filed, enforced,
                     slipped, calls>>

(* The cooldown is counted from the audit log. *)
LogApplied(a) ==
  /\ At(a, "log")
  /\ cooling' = (cooling \/ cmd[a].copy.draft.kind = "governance_change")
  /\ Advance(a, None)
  /\ UNCHANGED <<tree, glock, lock, done, proposal, patch, filed, evidence, calls>>

(* distill asks for no integrity, but for the status; the lessons it       *)
(* writes are left out.                                                    *)
BeginDistill(a, p) ==
  /\ Begun(a) /\ proposal[p] # None /\ proposal[p].status = "applied"
  /\ Advance(a, New("distill", "save", proposal[p].draft.ticket, p, proposal[p], <<>>))
  /\ UNCHANGED <<tree, glock, lock, done, proposal, patch, cooling, filed, evidence>>

SaveDistilled(a) ==
  LET c == cmd[a]
  IN  /\ At(a, "save") /\ c.op = "distill"
      /\ Save(a, c.proposal, c.copy)
      /\ Advance(a, None)
      /\ UNCHANGED <<tree, glock, lock, done, patch, cooling, filed, enforced,
                     slipped, calls>>

-----------------------------------------------------------------------------
(* policy_set, by those whose capability the configuration lists, under    *)
(* the lock of a governance ticket: it writes a bundle, if it is given     *)
(* one, as the constitution, and compiles; neither write looks at the lock *)
(* or the policy again.  The engine's policy_set asks for integrity first, *)
(* the syscall of that name, which the front ends call, does not.          *)
Capable(a) == a \in Granted

BeginPolicySet(a, edits) ==
  /\ Capable(a) /\ Begun(a)
  /\ lock # None /\ TicketType[lock] = "governance"
  /\ \A i \in 1 .. Len(edits) : Area[edits[i].path] = "constitution"
  /\ Advance(a, New("policy", IF edits = <<>> THEN "check" ELSE "write", lock, None, None, edits))
  /\ UNCHANGED <<tree, glock, lock, done, proposal, patch, cooling, filed, evidence>>

Applying == \E b \in Actor : cmd[b] # None /\ cmd[b].op = "apply"

(* A governance lock that no proposal stands for. *)
Imposed ==
  /\ Compiled
  /\ enforced' = None
  /\ slipped' = (slipped \/ Applying)

CompilePolicy(a) ==
  /\ At(a, "check") /\ cmd[a].op = "policy"
  /\ Imposed
  /\ Disturb(a, None)
  /\ UNCHANGED <<tree, lock, done, proposal, patch, cooling, filed, crossed, calls>>

-----------------------------------------------------------------------------
(* A command ends where it is: done, refused, failed or killed.  A review  *)
(* that was filed may be missing from the proposal.                        *)
Stop(a) ==
  /\ cmd[a] # None
  /\ crossed' = IF cmd[a].op = "approve" THEN crossed \cup {cmd[a].proposal} ELSE crossed
  /\ Advance(a, None)
  /\ UNCHANGED <<tree, glock, lock, done, proposal, patch, cooling, filed,
                 enforced, slipped, calls>>

(* build_governance, of anyone: nothing asks who changed the constitution. *)
BuildGovernance ==
  /\ glock # constitution
  /\ Imposed
  /\ DisturbAll
  /\ UNCHANGED <<tree, lock, done, proposal, patch, cooling, filed, crossed, calls>>

(* Outside the engine: the lock lapses and others take one, people edit    *)
(* the constitution or a patch file, use git, and time passes.             *)
Outside ==
  /\ calls.outside < MaxOutside
  /\ calls' = [calls EXCEPT !.outside = @ + 1]

Relock(t) ==
  /\ Outside /\ lock # t
  /\ lock' = t
  /\ DisturbAll
  /\ UNCHANGED <<tree, glock, done, proposal, patch, cooling, filed, evidence>>

EditByHand(path, text) ==
  /\ Outside
  /\ constitution' = IF Area[path] = "constitution" THEN text ELSE constitution
  /\ dirty' = dirty \cup {path}
  /\ slipped' = TRUE
  /\ DisturbAll
  /\ UNCHANGED <<branch, tip, glock, lock, done, proposal, patch, cooling, filed,
                 crossed, enforced>>

EditPatch(p, ops) ==
  /\ Outside /\ proposal[p] # None
  /\ patch' = [patch EXCEPT ![p] = ops]
  /\ UNCHANGED <<tree, glock, lock, done, proposal, cooling, cmd, filed, evidence>>

(* What differs is committed, or put away to go on with what a branch has  *)
(* committed.                                                              *)
GitCommit ==
  /\ Outside /\ (dirty # {} \/ tip[branch] # Snapshot)
  /\ tip' = [tip EXCEPT ![branch] = Snapshot]
  /\ dirty' = {}
  /\ DisturbAll
  /\ UNCHANGED <<constitution, branch, glock, lock, done, proposal, patch, cooling,
                 filed, evidence>>

GitCheckout(b) ==
  /\ Outside /\ tip[b] # None /\ (~Clean \/ b # branch)
  /\ Checkout(tip[b])
  /\ branch' = b
  /\ slipped' = (slipped \/ Applying)
  /\ DisturbAll
  /\ UNCHANGED <<tip, lock, proposal, patch, cooling, filed, crossed>>

CooldownOver ==
  /\ cooling
  /\ cooling' = FALSE
  /\ UNCHANGED <<tree, glock, lock, done, proposal, patch, cmd, filed, evidence, calls>>

-----------------------------------------------------------------------------
ProposalStep(a) ==
  \/ \E p \in Proposal :
       \/ BeginApply(a, p) \/ BeginDistill(a, p)
       \/ \E decision \in {"approved", "rejected"} : BeginApprove(a, p, decision)
  \/ SaveReview(a) \/ Compile(a) \/ SaveApplied(a) \/ LogApplied(a) \/ SaveDistilled(a)

Step(a) ==
  \/ \E t \in Ticket, ops \in PatchList \cup {<<>>} : BeginDo(a, t, ops)
  \/ \E written \in SUBSET Path, text \in Text : RunDo(a, written, text)
  \/ Authorize(a) \/ Write(a) \/ FinishDo(a)
  \/ \E edits \in {<<>>} \cup {<<edit>> : edit \in Edit} : BeginPolicySet(a, edits)
  \/ CompilePolicy(a) \/ Stop(a)

OutsideStep ==
  \/ BuildGovernance \/ CooldownOver
  \/ \E t \in Ticket \cup {None} : Relock(t)
  \/ \E path \in Path, text \in Text : EditByHand(path, text)
  \/ \E p \in Proposal, ops \in PatchList :
       EditPatch(p, ops) \/ \E draft \in Drafts : Propose(p, draft, ops)
  \/ GitCommit
  \/ \E b \in Branch : GitCheckout(b)

(* The writes of a command since there last was authority for its ticket.  *)
Tally ==
  late' = [a \in Actor |->
    IF cmd'[a] = None \/ (lock' = cmd'[a].ticket /\ Intact(glock', constitution')) THEN 0
    ELSE IF At(a, "write") /\ cmd'[a].at # "write" /\ ~Authority(cmd[a].ticket)
    THEN late[a] + 1 ELSE late[a]]

Next == ((\E a \in Actor : Step(a) \/ ProposalStep(a)) \/ OutsideStep) /\ Tally

Spec == Init /\ [][Next]_vars

-----------------------------------------------------------------------------
(* Once the ticket's lock is gone, or the constitution has drifted from    *)
(* the governance lock, a command that has files left to write, writes at  *)
(* most the one it was about to: a patch list is never written out under   *)
(* a lock or a policy that went meanwhile.                                 *)
OneLateWrite == \A a \in Actor : late[a] <= 1

(* The rules that apply_proposal put in force come from a proposal that as *)
(* many trusted or human reviews approve as it requires, a human's among   *)
(* them if it requires one, whatever reviews overlapped, got lost or came  *)
(* twice; and from its own patch.  A checkout may bring the rules of an    *)
(* earlier commit back: then this holds of the apply that made those.  It  *)
(* need not be its own patch once some write had lost its authority, a     *)
(* patch left the policy as it was (which leaves others the authority to   *)
(* write before it is compiled), or someone edited, built or set a policy, *)
(* or checked a branch out during an apply, by hand.                       *)
Approvers(p, voters) ==
  {i \in DOMAIN filed[p] : filed[p][i].by \in voters /\ filed[p][i].decision = "approved"}

ReviewedPolicy ==
  enforced # None =>
    LET p == enforced.proposal
        draft == proposal[p].draft
    IN  /\ Cardinality(Approvers(p, Human \cup Trusted)) >= draft.approvals
        /\ draft.human => Approvers(p, Human) # {}
        /\ ~slipped => glock = enforced.text

(* When do has just marked its ticket done and nobody else touched the     *)
(* tree, the branch, the lock or the policy since it began, audit has      *)
(* nothing to report but that lock and any clash of rule ids.              *)
DoPassesAudit ==
  \A a \in Actor :
    At(a, "marked") /\ cmd[a].alone =>
      AuditIssues(cmd[a].ticket) \subseteq {"STALE_LOCK_DONE_TICKET", "RULE_SANITY"}

(* Every review file is in its proposal, unless two commands held the      *)
(* proposal at once, an approval was cut off between the two, or is there  *)
(* right now.                                                              *)
ReviewsCounted ==
  \A p \in Proposal :
    p \notin crossed /\ (\A a \in Holders(p) : cmd[a].op # "approve")
    /\ proposal[p] # None => proposal[p].reviews = filed[p]

(* A new constitution that apply_proposal put in force has a human's       *)
(* approval, whatever the kind of the proposal.                            *)
HumanApproves ==
  enforced # None /\ enforced.text \notin Initial => Approvers(enforced.proposal, Human) # {}
=============================================================================

# ExoProtocol in TLA+

ExoProtocol (`src/exo`) governs coding agents that work on one repository. It
is no server: every `exo` command, MCP tool call and hook is a short process
that reads and writes JSON files under `.exo/`. What keeps agents out of each
other's way is the order in which these processes read and write those files,
and what makes work durable is what is on disk when one of them is killed.
This directory models that: the processes' steps between two file operations,
in any interleaving, with kills where the code can be killed.

## Inventory

| component | code | state | operations | modelled in (proved in `…Proofs`) |
|---|---|---|---|---|
| ticket lock | `kernel/tickets.py` | `.exo/locks/ticket.lock.json` | acquire, renew, heartbeat, release, load (which may unlink) | `TicketLock` |
| distributed leases | `stdlib/distributed_leases.py` | one git ref per ticket on a remote; the clone's ticket lock | claim/renew, heartbeat, release, cleanup | `GitLease` over `LeaseRegister` |
| control ledger | `kernel/ledger.py` | `.exo/logs/ledger.log.jsonl`, heads file, two flocks | append, filtered reads, idempotency and write-once checks, head, cas_head, ack, causal order | `Execution`, `TopicHead` |
| syscalls | `control/syscalls.py` | none but the ledger | submit, check, decide_override, begin, commit, head, cas_head, ack, escalate, policy_set | `Execution`, `TopicHead`, `Evolution` |
| worker | `orchestrator/worker.py` | cursor file | poll_once, run_loop | `Execution` |
| orchestrator | `orchestrator/engine.py` | none | run_task | `Execution` |
| sessions | `orchestrator/session.py` | active and suspended files per actor, handoff records, mementos, index | start, finish, handoff, suspend, resume, scan, cleanup | `Session` |
| conflict detection | `stdlib/conflicts.py` | none | scope partition, advisory scans | `Session` (the partition) |
| tickets | `kernel/tickets.py` | one YAML file per ticket, the archive | allocate ids, save, hierarchy, blockers, archive, mint | `Tickets` (without mint) |
| governance | `kernel/governance.py`, `stdlib/compose.py` | constitution, governance lock, sealed policy | compile, verify, evaluate rules, compose, verify the seal | `Governance`, `Evolution`, `Hooks` |
| kernel policy | `kernel/engine.py` | none | check_action | an open choice of outcome in `Execution`; planned |
| write engine | `stdlib/engine.py` | files of the ticket's scope, budget in memory, ticket status | do, apply, policy_set, audit, next, plan, promote, lease commands, push, observe | `Evolution`, `Tickets`, `TicketLock` |
| evolution | `stdlib/evolution.py` | proposals, patches, reviews, audit log | observe, propose, approve, apply, distill | `Evolution` (without observe) |
| dispatch | `stdlib/dispatch.py` | none | choose_next_ticket | `Tickets` |
| hooks | `stdlib/hooks.py` | budget tracker | session start and end, scope check, budget of tool calls, stop, notification | `Hooks` |
| gc | `stdlib/gc.py` | none | remove old cursors and mementos, compact the session index, archive | `Hooks`, `Tickets` |
| follow-ups | `stdlib/follow_up.py` | tickets | create tickets from a finished session | `Tickets` |
| front ends | `cli.py`, `mcp_server.py` | none | one process per command, one actor for all MCP clients | the arguments the modules choose |

Not modelled, and not planned: scans and reports that keep no state
(`features`, `requirements`, `reconcile`, `drift`, `coherence`, `scan`,
`doctor`, `timeline`, `traces`, `metrics`, `suggest`, `pr_check`); notes that
are one append or one search (`reflect`, `recall`, `scratchpad`,
`memory_leak`, `tools`); one-shot setup and text generation (`install`,
`upgrade`, `adapters`, `defaults`, `config_schema`, `archive`, `ci_fix`,
`triage`); sequences of git commands (`sidecar`); argument parsing and
formatting of the front ends; and the plumbing (`utils`, `audit`, `receipts`,
`errors`). `verify_hook_integrity` and `auto_heal_hooks` would guard the hooks
themselves, but nothing in `src/exo` calls them.

How they interact: a session start acquires or checks the ticket lock, a
concurrent one scans the sibling sessions instead; finish, suspend and handoff
release the lock. A distributed lease is copied into the clone's ticket lock
after it was pushed. Submitting an intent appends to the ledger and moves the
topic's head; a worker subscribes to the topic, has the intent checked,
begins it, runs it, commits a result; a person may override the decision at
any time. A person or agent writes under a ticket with do, or under a proposal
with apply, which recompiles the constitution; next gives tickets out, finish
creates follow-ups, and hooks check and charge the tool calls of whoever is in
a session. There is no shared memory and no message: all of it is files, two
flocks (submit, decision), one flock each for guarded lock operations and for
ticket ids, and a git remote with compare-and-swap pushes.

What is hard, and what the properties are aimed at:

- *Check, then act, on files.* Nearly every command reads a file, decides,
  and writes later. Some of these pairs run under a flock, some do not.
- *Leases that expire under their holder*, by clocks of different machines.
- *Kills between two writes* of one command (session commands make up to six).
- *At-least-once polling*: a worker's cursor, its restart, several workers.
- *Copies saved whole*: tickets, proposals, the tracker and the session index
  are read, changed and written back, without a lock; what others wrote is lost.
- *Policy that changes under a command*: the constitution, its compiled lock and
  the sealed policy are three files, updated one after another.
- *Limits and retries*: a poll reads a batch; cas_head retries with what it saw.

What makes each component correct: the lock and the lease exclude, up to stated
exceptions, and tokens order successive holders; an intent gets one policy
decision, duplicates need an overlap, no intent is skipped; a session is never
lost nor revived after it finished; a topic's intents form a chain; the rules in
force have the reviews they need, and nothing is written out after its authority
went; a ticket is given out once, within limits, after its blockers; tool calls
obey the policy and are charged to their session. `PROJECT.json` lists the
hazards line by line with the properties that cover them.

## Modules

**`TicketLock`** The lock file, and processes that share it. Everything under
the flock is one action (`AcquireNew`, `AcquireRenew`, `HeartbeatLock`,
`ReleaseLock`, `GuardedUnlink`); `load_lock` takes no flock and is two
(`ReadExpired`, `UnlinkStale`), as is every release, which decides before it
calls `release_lock` (`CheckRelease`, `FinishSession`, then `ReleaseLock`). Time
is a counter of hours. `grant` and `lost` are history: what an actor was last
told, and how it came to be false. `CheckRenewal` and `Renew` are lease-renew
without `--owner`, which renews in the name of whoever has the lock. `CheckSync`
and `WriteLock` are the end of a `--distributed` command, which looks at the
file without the flock and then overwrites it with any lease the remote may have
granted (`Leasing`: the processes that run these; `LeaseEnd`, `LeaseToken`: the
leases). A torn lock file (a kill inside `dump_json`) is left out.

**`GitLease`** The remote ref of each ticket is the number of the commit it
points to; `commits` holds the records. A command is two reads (`Query`,
`Fetch`) and a compare-and-swap push (`PushUpdate`, `PushDelete`), then the
local copy (`SyncCheck`, `SyncWrite`, `UnlockLocal`); it may stop anywhere
(`Abort`). The plain lock commands of a clone write the same file without a look
at the remote: `PlainAcquire` drops its "distributed" entry, `PlainHeartbeat`
keeps it and adds to its end, `PlainRelease` removes it. Hence a lock file
excludes only while it is `Backed`: a copy of a lease that has not lapsed. Each
clone has a clock (`Skew`). `fate` and `root` are history. The git remote itself
is modelled from what `_push_update` and `_push_delete` rely on. Of
`cleanup_locks`, each ref is treated by itself, as in its loop.
**`LeaseRegister`** is the abstract specification: one atomic register per
ticket, whose lease passes between owners only when expired or through empty.
The refinement maps the register to the record behind the ref: a command takes
effect at its push, and all that it read before must still be good.

**`Execution`** The ledger as a sequence of records and the processes that
work on intents. Reads and appends of one call are separate actions when the
code holds no lock between them (`BeginRead`/`BeginAppend`,
`CommitRead`/`CommitAppend`); `check` holds the decision lock from `CheckRead`
to `CheckRecord`. A record's line number stands for its random id. The cursor
counts intents only: records of other types make a poll do nothing, and a batch
of `Limit` records holds any number of intents up to `Limit`. `check_action` is
a choice among `Policy`. A worker's configuration guard (`require_session`)
only refuses to poll and is left out; the topic's head is in `TopicHead`.

**`Session`** One action per file operation of start, finish, handoff, suspend,
resume and cleanup, in the code's order, and a kill between any two (`Crash`,
`CleanupCrash`). An actor runs one command at a time; cleanup, which a doctor or
hook runs, interleaves with all of them. The lock is the record of `TicketLock`
without its expiry; `LockChanges` stands for that and for what other commands do
to the lock, and its distributed release is left to `GitLease`. An actor also
works under a lock whose owner's name its own extends by `:` and more (`Under`,
`Extends`), as the session-start hook names the agents of one owner. A repeated
start that returns the session it finds changes nothing and is no action. Scopes
are abstracted to the pairs of tickets that overlap (`Clash`); a sibling whose
session is on the starter's own ticket is skipped, as in the code. Verification
and the text of bootstraps and mementos are left out: they can refuse a command
before its first write, or change nothing that a property here sees. An actor is
assumed to run one session command at a time; that all MCP clients are the one
actor `agent:mcp` (`mcp_server.py:473`) breaks this, and is not modelled.

**`TopicHead`** The log reduced to topic and parent, and the heads file, which
is one file for all topics and is truncated before it is written. Submissions
and cas_head run under the submit lock, as one action per file operation;
`head()` repairs a missing entry without it. `append_record` appends and counts
lines in two steps, so that another process's record may come between.
Explicit parents are abstracted to a flag. A truncated file reads as empty, as
`_load_heads` treats what it cannot parse. Ids are line numbers.

**`Governance`** Operators only: what compiling, verifying and evaluating rules
do. A text stands for its hash, and a compiled lock for the text it was made
from, so that "intact" is equality.

**`Evolution`** (extends `Governance`) do, approve, apply_proposal, distill and
policy_set as commands of one actor each. What a command only reads before its
first write is one step with that read (`BeginDo`, `BeginApply`), because a
change in between can only get it refused; after that there is one step per file
(`Authorize`, `Write`), per compile and per save of the proposal. A command may
stop anywhere (`Stop`). Paths have an area (constitution, practice, script,
kernel, memory, ordinary), only the constitution has a text, and the budget
counts files, not lines. Git is the strict default: a branch per ticket, a clean
tree for do. `tip` is what each branch has committed: the constitution, the
governance lock and the tickets, which are tracked, but not the proposals. do
checks out its ticket's branch or cuts it from `Main` (`Checkout`), and so goes
on under the policy committed there; `Cut` says which branches exist at the
start. Sidecar worktrees, which share no checkout, are not modelled. `Outside`
is what people do meanwhile: take the lock, edit the constitution or a patch
file, commit (`GitCommit`), check out a branch or put changes away
(`GitCheckout`); and `BuildGovernance` and `CooldownOver` may come at any time.
policy_set takes the syscall's form, which the front ends call and which does
not verify integrity. `audit` changes nothing: it is the operator `AuditIssues`.
`filed`, `crossed`, `enforced`, `slipped`, `late` are history.

**`Tickets`** The ticket files as one function, and each command as a copy it
read and the files it will write from it. `Allocate` runs under the id guard;
`Fill` replaces its placeholder; `Link` saves the parent's copy from before;
`BeginPlan` and `PlanAs` are plan, whose script lists any tickets (`Planned`),
of any kind, status and parent, without an id or with one that may be in use;
`Choose`/`Claim`/`Start` is next, whose copy is older than its lock;
`BeginFinish` to `Release` is the ticket side of finish, with its follow-ups;
`BeginArchive`/`Rename` is archive, and gc's. An id stands for its random
string, so ids do not clash. Which sessions exist is left to `Session`: an actor
may finish, suspend or resume with the ticket it last locked. The score of
dispatch is left open, so that any candidate may be chosen. `touched` and `past`
are history: which copies are out of date, and what came of it. The walk up the
parents, `Climb`, stops after 20 tickets as the code's does. Nobody checks what
init and plan file, so that their tickets are marked `listed`.

**`Hooks`** Session start and end around the sealed policy (`Composing` reads
the lock, `WriteSeal` hashes the constitution later), a tool call in four steps
(`PreTool`, `Touch`, `ReadTracker`, `SaveTracker`), and gc's two reads and two
writes; the write of one file is one step. A compose that fails is swallowed by
start and finish alike, which go on under the old, a missing or a torn seal
(`SealFails`). There is one tracker for all agents, and hooks take the first
session listed for the caller's own, as in the code. The scope check passes
whatever it cannot evaluate; `Loadable` says whose ticket it can load. Session
files are reduced to who has one. `settled` is who started since the
constitution was last edited and found a valid seal or made one. `charged`,
`blurred`, `settled`, `odd` are history.

`Session`, `TicketLock` and `Tickets` meet in the ticket lock and the ticket's
status; each models the part of it that the others abstract, rather than one
module with all three, whose states TLC could not enumerate.

`MC*` modules only define instances: process sets, orders of magnitude,
symmetry. `*Mutant` operators restate one definition with a plausible bug; they
are used by no specification, only to show that a property depends on the code.

## Runs

Each passing run states what it shows in `PROJECT.json`. The bounds:

- `ticket_lock`: 3 processes, 2 of one actor, the third of another and running
  lease-renew and `--distributed` commands; 2 tickets; durations 1 and 2, one
  clock tick, tokens to 2, leases of the remote that end at 2. Symmetric in the
  tickets and the first two processes. Enough for a stale reader, a stale
  releaser, a stale copy and two owners in succession; more processes add only
  more of the same.
- `git_lease`: 2 clones, each acting for one of 2 owners, one ticket, durations 1
  and 2, 2 commits, one tick: a claim, its renewal or its expiry and a takeover,
  or a deletion and a claim from the start, with every command able to be stale
  by one commit. Plain commands run in one clone and ask for 2, so that a plain
  heartbeat makes a lock file outlive its lease while the other clone takes the
  lease over. Plain commands in the other clone would only do to its file what
  they do to this one. Tickets do not interact on the remote. The clocks agree;
  what skewed clocks leave true, `FencingOrdersOwners`, is proved for any skew,
  as it is for any number of commits.
- `execution`: 2 workers, 1 client, 1 intent, and one override, client command,
  failed check or crash. `execution_two` has 1 worker, 1 client and 2 intents,
  and liveness, so no symmetry. Two processes suffice for every duplicate; the
  second intent is needed for cursors and batches.
- `session`: 2 actors, the second named after the first, so that it works under
  the first's lock but not the other way round; 2 tickets with overlapping
  scopes, 2 sessions, without kills. `session_sweep` has 1 actor and 1 ticket,
  and adds a cleanup and a kill, so that every cut of every command meets every
  scan; its properties speak of one actor's files, which no other actor's
  command writes.
- `topic_head`: 2 processes, 2 topics, 2 intents and another record between
  them, a retry, and one cas_head or crash. A chain, a lost update and a wrong
  count each need two intents; only the count needs the third line.
- `evolution`: a human and a trusted agent, a governance and a work ticket, one
  proposal, three commands and one event outside: two commands overlap and a
  third sees the outcome, and the event may disturb any step of them, or bring
  back or drift the policy between them. The governance ticket has a branch from
  the start, which a do checks out, and with it the policy from before an apply;
  the work ticket's is cut by its first do. The patch list writes a practice
  file and then a new constitution: the constitution comes last because
  authority ends with the write that makes it differ from its lock. A second
  proposal adds nothing, as proposals meet only in the constitution. The paths
  are the constitution and a practice file: the kernel and memory boundaries
  (`Protected`) and tooling changes are in the module but not met here.
- `tickets`: 2 actors, 4 ids, 4 commands, one lane of one, a limit of two, one
  kind of follow-up. It starts from what init seeds, an intent and a task of it
  (`Seeded`), and plan may list an epic of no intent, a blocked task with the
  title of a follow-up, and an active task (`Planned`), with a new id or over
  any that is used. Every exemption below comes from two commands that overlap
  or from a plan; the others undo or use what they left.
- `hooks`: 2 agents, one of them with a ticket that loads, 2 sessions, 2 tool
  calls, and one edit of the constitution or one gc, which share no file; any
  seal may fail. Two calls lose a count; one edit makes a seal stale; two
  sessions give the index two lines.

Of the violation runs, `ticket_lock_single` has the bounds of `ticket_lock`, and
`evolution_human` two commands and nothing outside.

Several properties except what the code does lose, and each exception is named
by history that the actions write: `slipped` (a constitution written without
authority, by hand, or by an apply as it already was in force, or a branch
checked out by hand during an apply), `crossed` (a proposal two commands held at
once), `stale` (a ticket saved from an old copy, or by plan over another),
`listed` (filed by init or plan), `extra` (made active by other than an
undisturbed next), `reopened`, `blurred` (calls or agents mixed up in the
tracker), an agent not `settled` (its seal failed, or was overtaken by an edit
or a bad seal), `odd` (a session whose memento and index line were parted by a
kill or by gc). A property then says that nothing else breaks the promise.

`CHECK_DEADLOCK FALSE` is given where the system may rest: all intents handled,
the bounded number of sessions started, the log full.

**Fairness** (`execution_two` only): weak fairness of a worker's poll steps and
of a process's steps on an intent it took up. `run_loop` polls without end, and
a process that is not killed runs on; kills, overrides and commands are not
fair, and neither is saving the cursor. The lock a check waits for is a flock,
which the kernel grants when free; with one intent at a time per process weak
fairness is enough. `EventuallyHandled` counts an intent as handled once begun:
the code makes no stronger promise, because a worker that dies after begin
leaves an intent every later poll skips.

## Where code and documentation disagree

Two disagreements have a run that ends in a violation; `PROJECT.json` quotes
both sides.

1. `ticket_lock_single`: a reader of an expired lock unlinks a fresh one, and a
   second ticket is locked beside the first.
2. `evolution_human`: a practice change that only a trusted agent approved may
   patch the constitution too, and apply compiles it: a human is required by
   the kind of a proposal, not by what it changes.

The passing properties state what does hold instead, and name the exceptions:
`ExclusiveUnlessLost` the only four ways to lose a lock (an unguarded unlink, a
release by someone else, a renewal in one's name that ends sooner, and the copy
of a distributed lease); `ExclusiveAcrossClones` that two clones hold unexpired
lock files of one ticket only when one was prolonged or replaced by a plain
command, or its lease withdrawn; `OneHolderPerTicket` that actors share a ticket
under one lock only if its owner's name is theirs or begins theirs;
`DuplicatesOverlap` that one idempotency key begins a decision twice, or an
effect gets two results, only in overlapping calls; `ScopesApart` that scopes
overlap only if two starts overlapped (the scan skips siblings on the starter's
own ticket, so that two concurrent sessions may share one); `HeadsKeepUp` that a
head falls behind only by a cas_head, a crash, or a `head()` that repaired a
missing entry meanwhile. The models also contain, without a property that
mentions it: an override that a check under way decides after (`Override` takes
no decision lock), a cleanup that removes a session started after its scan (the
fate "swept"), and two claims in one clone of which the second overwrites the
local lock of the first (`SyncCheck`, `SyncWrite`). Further behaviour the models
have, which a team may want to decide about:

- a session that outlived its lock releases the next holder's (`TicketLock`);
- the copy of a distributed lease overwrites a live local lock that was taken
  after its check (`TicketLock`);
- a plain heartbeat or renewal keeps a clone's lock file alive after the lease
  on the remote lapsed and went to another clone (`GitLease`);
- two overlapping commits of an effect both append (`Execution`);
- two starts may read one handoff record, and cleanup writes no memento
  (`Session`);
- lease-renew without `--owner` may bring the end of another's lease nearer;
- policy_set needs no human, writes the constitution and compiles it in two
  steps, and through the syscall does not check integrity first;
- in a governance change, the patched constitution no longer matches its lock,
  so that files after it in the patch list are refused; it has to come last;
- an apply whose patch leaves the constitution as it is in force does not end
  anybody's authority, and compiles, at its end, whatever others wrote
  meanwhile;
- the placeholder of an id being filled in can be given out by next;
- an archived blocker keeps its dependents blocked for ever;
- plan and promote do not check the hierarchy, and plan saves a ticket over the
  one that has its id, whatever that one's state;
- do's checkout of a branch cut before an apply puts the older constitution and
  governance lock back in force, for that branch;
- finish looks for open follow-ups by `todo` and `in_progress`
  (`follow_up.py:177`), a status the program never sets, so that a follow-up
  already active is created again;
- compose during drift stores the rules of the old text under the hash of the
  new one, and the seal passes as valid from then on;
- a session whose compose fails opens all the same, under a stale seal or none;
- the scope check allows what it cannot check, and one budget tracker, keyed by
  the first session listed, serves all agents;
- index lines left by an interrupted gc are never pruned.

## Proofs

tlapm proves, for every value of the constants that satisfies the assumptions
named in the modules, every invariant and action property that a passing run
checks, and the refinement. No theorem assumes anything else but, in three of
`GitLeaseProofs`, that clocks agree. The assumptions say that bounds are numbers
and that null values are not values (`ConstantsAssumption`, `NullAssumption`,
`NoneAssumption`); that patches are sequences of edits; and that what there is
at the start was never worked on (`SeedsAssumption`: todo, no follow-up, no
children; what plan lists later may be anything). In particular the theorems
hold for any number of processes, tickets, sessions, commands and kills, where a
run has two or three.

Each module of proofs starts with an inductive invariant, part by part, then has
a lemma for what each kind of step does, one lemma per action, and the theorems.
Few of the properties are inductive by themselves: most are about what a command
does with something it read earlier, and the invariant says what is still true
of that.

- `TicketLockProofs`: `TypeCorrect`, `GrantsMatchLockFile`, `MutualExclusion`,
  `LiveLockKeepsHands`. `GrantOnDisk` with the type invariant is inductive: each
  action that changes the lock, lease-renew in another's name included, either
  changes the grant with it or marks the grants it removed as lost, the copy of
  a distributed lease included. `ExclusiveUnlessLost` follows, because one file
  has one owner. `NoHandoverWhileLive` is proved action by action; for
  `WriteLock` it needs that a pending copy was checked against no lock of
  another ticket or owner (`SyncsChecked`), so that one it hands over came in
  between.
- `GitLeaseProofs`: `TypeCorrect`, `LeaseInvariant`, `FencingOrder`, and under
  zero skew `NoEarlyTakeover`, `MutualExclusion`, `Refinement`. `LeaseInv`: a
  prepared record is fit to succeed the commit it would replace *if that commit
  is still the head* (`TaskReady`), the head is the last commit of its root
  (`RootsAgree`), a lock file that names a commit is of its ticket and owner and
  ends no sooner (`LocksAgree`), which plain commands keep. Fencing
  needs no clock; the others assume `NoSkew`, without which a clone that runs
  ahead takes a lease early. `Refinement` shows that each push is a step of
  `LeaseRegister` and everything else a stutter.
- `ExecutionProofs`: `ExecutionInvariant`, `TypesCorrect`, `OneDecision`,
  `OnlyOverlapsDuplicate`, `WorkIsFresh`, `NoneSkipped`. `ExecInv`: a record
  refers to earlier lines (`LogOK`); what a process found when it last read the
  ledger is out of date only by lines written since (`TaskOK`), so a duplicate
  needs an overlap; who is about to record a decision has the decision lock, and
  there is none yet (`CheckOK`). `NoneSkipped` adds that a worker's rest of a
  batch is a stretch of the queue and everything before it was passed
  (`PollOK`); a submission takes the next place of that queue (`QueueOK`).
- `SessionProofs`: `SessionInvariant`, `SessionTypes`, `NoneVanishes`,
  `FinishedStays`, `LockExcludes`, `ConcurrentApart`. `SessionInv` says, step by
  step of each command, what its actor's files hold (`FilesOK`), so that a kill
  at any step leaves a session accounted for; no session is held twice
  (`IdsOK`); only a session being moved is in both files (`FinishOK`); a covered
  actor has, or works under, the lock of its ticket (`LockOK`); starts under way
  at once have met, and a start behind its gate keeps clear of those it has not
  met (`ScopesOK`).
- `TicketsProofs`: `TicketsInvariant`, `TicketTypes`, `GivenOutOnce`,
  `LimitsRespected`, `BlockersDone`, `ChildrenKept`, `FollowUpsFiledOnce`,
  `ResolvesToIntent`. `TicketsInv` is about copies: what a command read is what
  the file holds unless the ticket is in its `touched` (`Fresh`), and what it
  decided by it still holds but for the touched tickets: that there is room
  (`Room`), that the blockers are done (`Ready`), that there is no such
  follow-up yet (`Unfiled`). So a save keeps the files in order, or marks the
  ticket `stale` (`WriteFiles`). `ResolvesToIntent` needs a second invariant,
  `Hierarchy`: but for tickets that plan or init filed (`Wild`), every file and
  every copy of a ticket, however old, says the same kind, and what
  ticket-create files has a parent of a fitting kind; a chain that meets none of
  the exceptions then ends within three of the twenty rounds. That `Climb`, a
  recursive function, is defined at all is proved round by round
  (`ClimbExists`).
- `EvolutionProofs`: `EvolutionInvariant`, `EvolutionTypes`, `LateOnce`,
  `NoReviewLost`, `PolicyReviewed`, `AuditPassed`. `EvolutionInv`: the reviews a
  command read, or a proposal has, can be embedded in those filed on it
  (`Embeds`: none invented and none twice), and agree with them while no two
  commands crossed (`Uncrossed`); an apply between its write of the constitution
  and its compile is the only one, and what it wrote is not in force, so that
  nobody has authority (`InForce`, `Pending`). The first attempt failed on an
  apply that writes the constitution as it is in force: the others keep their
  authority, and the apply compiles what they wrote. That is why `slipped`
  covers it.
- `HooksProofs`: `HooksInvariant`, `HooksTypes`, `WritesGuarded`,
  `UsageCounted`, `IndexKept`. `HooksInv`: what a session's tools wrote is the
  tracker's usage and the writes of its calls that have not been saved
  (`CountsOK`); a process that saves for an unblurred session is the only one,
  and what it read is still so (`SaveOK`); ids not yet open have left no trace
  (`Unused`); what gc is about to write back lacks only what it removed
  (`FilesOK`).
- `TopicHeadProofs`: `HeadInvariant`, `HeadTypes`, `ParentsEarlier`,
  `NoUpdateLost`, `ChainKept`. `HeadInv`: every line that the heads file, or an
  image of it that a call has read, holds for a topic is an intent of it, or the
  line its last intent was wrongly told it had (`Fits`); a call under the submit
  lock knows each topic's last intent, unless `cas_head`, a crash or an
  overtaken `head()` is to blame (`FreshOK`).

Every inductive invariant was checked by TLC on its run's instance before it was
proved. Only model-checked: `EventuallyHandled`, as liveness is out of tlapm's
reach, and the two violations, which are counterexamples.

## Plan

1. `TicketLock`, `GitLease`/`LeaseRegister` with proofs; `Execution`,
   `Session`, `TopicHead` (done).
2. `Governance`, `Evolution`: governed writes, proposals from draft to applied,
   policy and drift (done).
3. `Tickets`: ids, hierarchy, dispatch, follow-ups, archive (done).
4. `Hooks`: sealed policy, tool calls, mementos and gc (done).
5. Proofs: every invariant and action property of the passing runs (done).
6. Next to prove: what `TicketLock` and `Session` promise as an abstract lock
   with sessions under it, and a ledger that is decided once, as abstract
   specifications that `TicketLock`, `Session` and `Execution` implement.
7. `CausalOrder`: `intent_causal_order` against a definition of a topological
   order; acks and quorum.
8. `Policy`: `check_action` against a reference of its decision.

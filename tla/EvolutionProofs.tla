-------------------------- MODULE EvolutionProofs --------------------------
(* Theorems about governed writes and proposals, for any number of actors, *)
(* tickets, proposals and commands, any patches, texts, scopes and budgets. *)
EXTENDS Evolution, FiniteSetTheorems, SequenceTheorems, TLAPS

-----------------------------------------------------------------------------
(* The inductive invariant.                                                *)

(* Every review of r is one of s, and no two of them the same one.         *)
Embeds(r, s) ==
  \E g \in [1 .. Len(r) -> 1 .. Len(s)] :
    /\ \A i, j \in 1 .. Len(r) : g[i] = g[j] => i = j
    /\ \A i \in 1 .. Len(r) : r[i] = s[g[i]]

(* The steps each command goes through, and what it has at them.           *)
Shape(c) ==
  /\ c.op = "approve" => c.at = "save"
  /\ c.op = "do" => c.at \in {"authorize", "write", "check", "scope", "marked"}
  /\ c.op = "apply" => c.at \in {"authorize", "write", "check", "save", "log"}
  /\ c.op = "distill" => c.at = "save"
  /\ c.op = "policy" => c.at \in {"write", "check"}
  /\ c.at \in {"authorize", "write"} => c.ops # <<>>
  /\ c.op = "policy" /\ c.at = "write" => Len(c.ops) = 1
  /\ c.op \in {"approve", "apply", "distill"} <=> c.proposal # None

(* A command that holds a proposal: what it read of it is still the draft, *)
(* and all the reviews it knows were filed.                                *)
Holding(c) ==
  c.proposal # None =>
    /\ proposal[c.proposal] # None /\ c.copy # None
    /\ c.copy.draft = proposal[c.proposal].draft
    /\ Embeds(c.copy.reviews, filed[c.proposal])
    /\ c.op = "apply" => Ready(c.copy)

(* A do that nobody disturbed since it marked its ticket done.             *)
Marked(c) ==
  c.at = "marked" /\ c.alone => branch = c.ticket /\ DiffAccepted(c.ticket)

CommandOK(c) == Shape(c) /\ Holding(c) /\ Marked(c)

ProposalOK(p) ==
  /\ proposal[p] = None => filed[p] = <<>>
  /\ proposal[p] # None => Embeds(proposal[p].reviews, filed[p])

(* No write is late before the first one that is.                          *)
LateOK ==
  \A a \in Actor :
    /\ late[a] <= 1
    /\ cmd[a] = None \/ cmd[a].at = "write" => late[a] = 0

(* While no two commands crossed on a proposal, they all read what it      *)
(* says, and only a review being saved is filed and not in it.             *)
Holds(a, p) == cmd[a] # None /\ cmd[a].proposal = p
Approves(a, p) == Holds(a, p) /\ cmd[a].op = "approve"

Uncrossed(p) ==
  p \notin crossed =>
    /\ \A a \in Actor : Holds(a, p) /\ cmd[a].op # "approve" =>
         cmd[a].copy.reviews = proposal[p].reviews
    /\ proposal[p] # None /\ (\A a \in Actor : ~Approves(a, p)) =>
         proposal[p].reviews = filed[p]
    /\ \A a \in Actor :
         Approves(a, p) /\ (\A b \in Actor : Approves(b, p) => b = a) =>
           cmd[a].copy.reviews = filed[p]

(* What ReviewedPolicy says of the reviews, of the apply in force and of   *)
(* those whose rules a checkout may bring back.                            *)
Reviewed(e) ==
  e # None =>
    /\ proposal[e.proposal] # None
    /\ Cardinality(Approvers(e.proposal, Human \cup Trusted))
         >= proposal[e.proposal].draft.approvals
    /\ proposal[e.proposal].draft.human => Approvers(e.proposal, Human) # {}

EnforcedOK ==
  /\ Reviewed(enforced)
  /\ \A b \in Branch : tip[b] # None => Reviewed(tip[b].enforced)

(* There is a commit to check out, and one to compare with.                *)
TipsOK == tip[Main] # None /\ tip[branch] # None

(* An apply that has written the constitution and not compiled it yet is   *)
(* the only one, and what it wrote is there and not in force, so nobody    *)
(* has authority.                                                          *)
Pending(a) ==
  /\ cmd[a] # None /\ cmd[a].op = "apply" /\ cmd[a].text # None
  /\ cmd[a].at \in {"authorize", "write", "check"}

InForce ==
  ~slipped =>
    /\ enforced # None => glock = enforced.text
    /\ \A b \in Branch :
         tip[b] # None /\ tip[b].enforced # None => tip[b].glock = tip[b].enforced.text
    /\ \A a \in Actor : Pending(a) => constitution = cmd[a].text /\ glock # cmd[a].text
    /\ \A a, b \in Actor : Pending(a) /\ Pending(b) => a = b

CommandsOK == \A a \in Actor : cmd[a] # None => CommandOK(cmd[a])
ProposalsOK == \A p \in Proposal : ProposalOK(p)
AllUncrossed == \A p \in Proposal : Uncrossed(p)

EvolutionInv ==
  TypeOK /\ CommandsOK /\ ProposalsOK /\ LateOK /\ AllUncrossed /\ EnforcedOK /\ TipsOK
  /\ InForce

-----------------------------------------------------------------------------
(* Sequences of reviews.                                                   *)
Reviews == Seq(Review)

(* Reviews are embedded in themselves.                                     *)
LEMMA EmbedsSelf ==
  ASSUME NEW r \in Reviews
  PROVE  Embeds(r, r)
<1> DEFINE g == [i \in 1 .. Len(r) |-> i]
<1>1. g \in [1 .. Len(r) -> 1 .. Len(r)]
  OBVIOUS
<1>2. /\ \A i, j \in 1 .. Len(r) : g[i] = g[j] => i = j
      /\ \A i \in 1 .. Len(r) : r[i] = r[g[i]]
  OBVIOUS
<1> QED
  BY <1>1, <1>2 DEF Embeds

(* Reviews stay embedded when more are filed.                              *)
LEMMA EmbedsMore ==
  ASSUME NEW r \in Reviews, NEW s \in Reviews, NEW v \in Review, Embeds(r, s)
  PROVE  Embeds(r, Append(s, v))
<1>1. PICK g \in [1 .. Len(r) -> 1 .. Len(s)] :
        /\ \A i, j \in 1 .. Len(r) : g[i] = g[j] => i = j
        /\ \A i \in 1 .. Len(r) : r[i] = s[g[i]]
  BY DEF Embeds
<1>2. /\ Len(Append(s, v)) = Len(s) + 1 /\ Len(s) \in Nat /\ Len(r) \in Nat
      /\ \A i \in 1 .. Len(s) : Append(s, v)[i] = s[i]
  BY AppendProperties, LenProperties DEF Reviews
<1>3. g \in [1 .. Len(r) -> 1 .. Len(Append(s, v))]
  BY <1>2
<1>4. \A i \in 1 .. Len(r) : r[i] = Append(s, v)[g[i]]
  BY <1>1, <1>2
<1> QED
  BY <1>1, <1>3, <1>4 DEF Embeds

(* One review added to both keeps the one embedded in the other.           *)
LEMMA EmbedsBoth ==
  ASSUME NEW r \in Reviews, NEW s \in Reviews, NEW v \in Review, Embeds(r, s)
  PROVE  Embeds(Append(r, v), Append(s, v))
<1>1. PICK g \in [1 .. Len(r) -> 1 .. Len(s)] :
        /\ \A i, j \in 1 .. Len(r) : g[i] = g[j] => i = j
        /\ \A i \in 1 .. Len(r) : r[i] = s[g[i]]
  BY DEF Embeds
<1> DEFINE t == Append(s, v)
           q == Append(r, v)
<1>2. /\ Len(t) = Len(s) + 1 /\ Len(s) \in Nat /\ t[Len(s) + 1] = v
      /\ \A i \in 1 .. Len(s) : t[i] = s[i]
  BY AppendProperties, LenProperties DEF Reviews
<1>3. /\ Len(q) = Len(r) + 1 /\ Len(r) \in Nat /\ q[Len(r) + 1] = v
      /\ \A i \in 1 .. Len(r) : q[i] = r[i]
  BY AppendProperties, LenProperties DEF Reviews
<1> HIDE DEF t, q
<1> DEFINE h == [i \in 1 .. Len(q) |-> IF i = Len(r) + 1 THEN Len(s) + 1 ELSE g[i]]
<1>4. \A i \in 1 .. Len(q) : i = Len(r) + 1 \/ i \in 1 .. Len(r)
  BY <1>3
<1>5. h \in [1 .. Len(q) -> 1 .. Len(t)]
  BY <1>2, <1>3, <1>4
<1>6. \A i, j \in 1 .. Len(q) : h[i] = h[j] => i = j
  BY <1>1, <1>2, <1>3, <1>4
<1>7. \A i \in 1 .. Len(q) : q[i] = t[h[i]]
  BY <1>1, <1>2, <1>3, <1>4
<1> HIDE DEF h
<1> QED
  BY <1>5, <1>6, <1>7 DEF Embeds, t, q

(* So whoever approved in r approved in s, as often.                       *)
VotesIn(s, voters) ==
  {i \in 1 .. Len(s) : s[i].decision = "approved" /\ s[i].by \in voters}

(* The votes among some reviews are finitely many.                         *)
LEMMA VotesFinite ==
  ASSUME NEW s \in Reviews, NEW voters
  PROVE  IsFiniteSet(VotesIn(s, voters)) /\ Cardinality(VotesIn(s, voters)) \in Nat
<1>1. Len(s) \in Nat
  BY LenProperties DEF Reviews
<1>2. IsFiniteSet(1 .. Len(s)) /\ VotesIn(s, voters) \in SUBSET (1 .. Len(s))
  BY <1>1, FS_Interval DEF VotesIn
<1> QED
  BY <1>2, FS_Subset, FS_CardinalityType

(* Embedded reviews have no more votes of any kind.                        *)
LEMMA EmbedsVotes ==
  ASSUME NEW r \in Reviews, NEW s \in Reviews, NEW voters, Embeds(r, s)
  PROVE  /\ Cardinality(VotesIn(r, voters)) <= Cardinality(VotesIn(s, voters))
         /\ VotesIn(r, voters) # {} => VotesIn(s, voters) # {}
<1>1. PICK g \in [1 .. Len(r) -> 1 .. Len(s)] :
        /\ \A i, j \in 1 .. Len(r) : g[i] = g[j] => i = j
        /\ \A i \in 1 .. Len(r) : r[i] = s[g[i]]
  BY DEF Embeds
<1> DEFINE S == VotesIn(r, voters)
           T == VotesIn(s, voters)
           f == [i \in S |-> g[i]]
<1>2. \A i \in S : i \in 1 .. Len(r) /\ g[i] \in T
  BY <1>1 DEF VotesIn
<1>3. IsFiniteSet(T)
  BY VotesFinite
<1> HIDE DEF S, T
<1>4. f \in [S -> T] /\ \A i, j \in S : f[i] = f[j] => i = j
  BY <1>1, <1>2
<1>5. f \in Injection(S, T)
  BY <1>4 DEF Injection, IsInjective
<1> HIDE DEF f
<1>6. Cardinality(S) <= Cardinality(T)
  BY <1>3, <1>5, FS_Injection
<1>7. S # {} => T # {}
  BY <1>2
<1> QED
  BY <1>6, <1>7 DEF S, T

-----------------------------------------------------------------------------
(* Types.                                                                  *)
CmdType == [Actor -> Command \cup {None}]
FileType == [Proposal -> File \cup {None}]
FiledType == [Proposal -> Reviews]

(* The variables other than cmd and late.                                  *)
Rest ==
  /\ constitution \in Text
  /\ glock \in Text \cup {NoLock}
  /\ dirty \subseteq Path
  /\ branch \in Branch
  /\ tip \in [Branch -> Commit \cup {None}]
  /\ lock \in Ticket \cup {None}
  /\ done \subseteq Ticket
  /\ proposal \in FileType
  /\ patch \in [Proposal -> PatchList \cup {<<>>}]
  /\ cooling \in BOOLEAN
  /\ filed \in FiledType
  /\ crossed \subseteq Proposal
  /\ enforced \in Applied \cup {None}
  /\ slipped \in BOOLEAN
  /\ calls \in [commands: 0 .. MaxCommands, outside: 0 .. MaxOutside]

(* The type invariant, commands and late writes apart.                     *)
LEMMA TypeFacts ==
  TypeOK <=> Rest /\ cmd \in CmdType /\ late \in [Actor -> Nat]
BY DEF TypeOK, Rest, CmdType, FileType, FiledType, Reviews

(* The types after a step.                                                 *)
LEMMA TypesNext ==
  ASSUME Rest', cmd' \in CmdType, late' \in [Actor -> Nat]
  PROVE  TypeOK'
BY DEF TypeOK, Rest, CmdType, FileType, FiledType, Reviews

(* The types of a command's fields.                                        *)
LEMMA CommandFields ==
  ASSUME NEW c \in Command
  PROVE  /\ c # None /\ c.ticket \in Ticket /\ c.proposal \in Proposal \cup {None}
         /\ c.copy \in File \cup {None} /\ c.ops \in Seq(Edit) /\ c.files \subseteq Path
         /\ c.text \in Text \cup {None} /\ c.alone \in BOOLEAN
         /\ c.op \in {"do", "approve", "apply", "distill", "policy"}
         /\ c.at \in {"authorize", "write", "check", "scope", "marked", "save", "log"}
BY NoneAssumption DEF Command

(* The types of a proposal file's fields.                                  *)
LEMMA FileFields ==
  ASSUME NEW f \in File
  PROVE  /\ f # None /\ f.draft \in Drafts /\ f.draft \in Draft /\ f.reviews \in Reviews
         /\ f.draft.approvals \in Nat /\ f.draft.human \in BOOLEAN /\ f.draft.ticket \in Ticket
BY NoneAssumption, ConstantsAssumption DEF File, Draft, Reviews

(* The types of what a commit holds.                                       *)
LEMMA TipAt ==
  ASSUME Rest, NEW b \in Branch, tip[b] # None
  PROVE  /\ tip[b] \in Commit /\ tip[b].text \in Text /\ tip[b].glock \in Text \cup {NoLock}
         /\ tip[b].enforced \in Applied \cup {None} /\ tip[b].done \subseteq Ticket
BY DEF Rest, Commit

(* A running command is a command.                                         *)
LEMMA CmdAt ==
  ASSUME TypeOK, NEW a \in Actor, cmd[a] # None
  PROVE  cmd[a] \in Command
BY TypeFacts DEF CmdType

(* A filed proposal is a file, and its reviews are reviews.                *)
LEMMA FileAt ==
  ASSUME TypeOK, NEW p \in Proposal
  PROVE  /\ proposal[p] # None => proposal[p] \in File
         /\ filed[p] \in Reviews
BY TypeFacts DEF Rest, FileType, FiledType

(* What a command is like after somebody else's step.                      *)
Follows(c, d) ==
  /\ d \in Command /\ d.op = c.op /\ d.at = c.at /\ d.ticket = c.ticket
  /\ d.proposal = c.proposal /\ d.copy = c.copy /\ d.ops = c.ops /\ d.files = c.files
  /\ d.text = c.text /\ (d.alone => c.alone)

(* The commands of all but those in S go on as they were, and think        *)
(* themselves undisturbed only if nothing they look at changed.            *)
Bystanders(S) ==
  \A b \in Actor \ S :
    /\ cmd[b] = None <=> cmd'[b] = None
    /\ cmd[b] # None => Follows(cmd[b], cmd'[b])
    /\ cmd[b] # None /\ cmd'[b].alone =>
         constitution' = constitution /\ dirty' = dirty /\ branch' = branch /\ glock' = glock
         /\ tip' = tip

(* A command that is overtaken is the same, but no longer alone.           *)
LEMMA ChangedFollows ==
  ASSUME TypeOK, NEW b \in Actor, cmd[b] # None
  PROVE  Changed(b) # None /\ Follows(cmd[b], Changed(b)) /\ Changed(b).alone = FALSE
<1>1. PICK c \in Command : c = cmd[b]
  BY CmdAt
<1> DEFINE d == [c EXCEPT !.alone = FALSE]
<1>2. /\ d \in Command /\ d.op = c.op /\ d.at = c.at /\ d.ticket = c.ticket
      /\ d.proposal = c.proposal /\ d.copy = c.copy /\ d.ops = c.ops /\ d.files = c.files
      /\ d.text = c.text /\ d.alone = FALSE
  BY DEF Command
<1>3. Changed(b) = d
  BY <1>1 DEF Changed
<1> HIDE DEF d
<1> QED
  BY <1>1, <1>2, <1>3, CommandFields DEF Follows

(* Advancing where nothing it relies on changes leaves the others as they  *)
(* are.                                                                    *)
LEMMA AdvanceDoes ==
  ASSUME TypeOK, NEW a \in Actor, NEW next \in Command \cup {None}, Advance(a, next),
         constitution' = constitution, dirty' = dirty, branch' = branch, glock' = glock,
         tip' = tip
  PROVE  cmd' \in CmdType /\ cmd'[a] = next /\ Bystanders({a})
<1>1. cmd' \in CmdType /\ cmd'[a] = next /\ \A b \in Actor \ {a} : cmd'[b] = cmd[b]
  BY TypeFacts DEF Advance, CmdType
<1> QED
  BY <1>1, CmdAt DEF Bystanders, Follows

(* A step that changes what others rely on leaves them their place.        *)
LEMMA DisturbDoes ==
  ASSUME TypeOK, NEW a \in Actor, NEW next \in Command \cup {None}, Disturb(a, next)
  PROVE  cmd' \in CmdType /\ cmd'[a] = next /\ Bystanders({a})
<1>1. cmd'[a] = next /\ \A b \in Actor \ {a} : cmd'[b] = Changed(b)
  BY DEF Disturb
<1>2. \A b \in Actor : cmd[b] = None => Changed(b) = None
  BY DEF Changed
<1>3. \A b \in Actor : Changed(b) \in Command \cup {None}
  BY <1>2, ChangedFollows DEF Follows
<1>4. cmd' \in CmdType
  BY <1>1, <1>3 DEF Disturb, CmdType
<1> QED
  BY <1>1, <1>2, <1>4, ChangedFollows DEF Bystanders

(* An outside step leaves every command its place.                         *)
LEMMA DisturbAllDoes ==
  ASSUME TypeOK, DisturbAll
  PROVE  cmd' \in CmdType /\ Bystanders({})
<1>1. \A b \in Actor : cmd'[b] = Changed(b)
  BY DEF DisturbAll
<1>2. \A b \in Actor : cmd[b] = None => Changed(b) = None
  BY DEF Changed
<1>3. \A b \in Actor : Changed(b) \in Command \cup {None}
  BY <1>2, ChangedFollows DEF Follows
<1>4. cmd' \in CmdType
  BY <1>3 DEF DisturbAll, CmdType
<1> QED
  BY <1>1, <1>2, <1>4, ChangedFollows DEF Bystanders

(* A step of no command leaves every command as it is.                     *)
LEMMA NobodyDoes ==
  ASSUME TypeOK, cmd' = cmd, constitution' = constitution, dirty' = dirty, branch' = branch,
         glock' = glock, tip' = tip
  PROVE  cmd' \in CmdType /\ Bystanders({})
BY TypeFacts, CmdAt DEF Bystanders, Follows

-----------------------------------------------------------------------------
(* What keeps each part of the invariant.                                  *)
RunsOK(b) == cmd[b] # None => CommandOK(cmd[b])

(* What is to be shown of a command after a step.                          *)
LEMMA RunsAs ==
  ASSUME NEW b \in Actor, NEW c, c = cmd'[b], c # None => CommandOK(c)'
  PROVE  RunsOK(b)'
<1> SUFFICES ASSUME c # None PROVE (CommandOK(cmd[b]))'
  BY DEF RunsOK
<1>1. CommandOK(c)'
  OBVIOUS
<1> QED
  <2>1. Shape(c)' /\ Holding(c)' /\ Marked(c)'
    BY <1>1 DEF CommandOK
  <2>2. (Shape(cmd[b]))'
    BY <2>1 DEF Shape
  <2>3. (Holding(cmd[b]))'
    BY <2>1 DEF Holding, Embeds, Ready, Votes
  <2>4. (Marked(cmd[b]))'
    BY <2>1 DEF Marked, DiffAccepted, Differing, Intact, WithinBudget
  <2> QED
    BY <2>2, <2>3, <2>4 DEF CommandOK

(* A write authorised before a change counts as late at most once.         *)
LEMMA LateKeeps ==
  ASSUME TypeOK, LateOK, Tally,
         \A b \in Actor : cmd'[b] # None /\ cmd'[b].at = "write" =>
           \/ cmd[b] = None \/ cmd[b].at = "write"
           \/ lock' = cmd'[b].ticket /\ Intact(glock', constitution')
  PROVE  LateOK' /\ late' \in [Actor -> Nat]
<1>1. late \in [Actor -> Nat]
  BY TypeFacts
<1>2. ASSUME NEW b \in Actor
      PROVE  /\ late'[b] \in Nat /\ late'[b] <= 1
             /\ cmd'[b] = None \/ cmd'[b].at = "write" => late'[b] = 0
  <2>1. late[b] \in Nat /\ late[b] <= 1 /\ (cmd[b] = None \/ cmd[b].at = "write" => late[b] = 0)
    BY <1>1 DEF LateOK
  <2>2. late'[b] = IF cmd'[b] = None \/ (lock' = cmd'[b].ticket /\ Intact(glock', constitution'))
                   THEN 0
                   ELSE IF At(b, "write") /\ cmd'[b].at # "write" /\ ~Authority(cmd[b].ticket)
                   THEN late[b] + 1 ELSE late[b]
    BY DEF Tally
  <2> QED
    BY <2>1, <2>2 DEF At
<1>3. late' \in [Actor -> Nat]
  BY <1>2 DEF Tally
<1> QED
  BY <1>2, <1>3 DEF LateOK

(* Proposals stay, with their drafts, and their reviews stay filed.        *)
Grown ==
  \A p \in Proposal :
    /\ proposal[p] # None => proposal'[p] # None /\ proposal'[p].draft = proposal[p].draft
    /\ filed'[p] = filed[p] \/ \E v \in Review : filed'[p] = Append(filed[p], v)

(* Embedded in the reviews filed before, embedded in those after.          *)
LEMMA GrownEmbeds ==
  ASSUME TypeOK, Grown, NEW p \in Proposal, NEW r \in Reviews, Embeds(r, filed[p])
  PROVE  Embeds(r, filed'[p])
<1>1. filed[p] \in Reviews
  BY FileAt
<1>2. CASE filed'[p] = filed[p]
  BY <1>2
<1>3. CASE filed'[p] # filed[p]
  <2>1. PICK v \in Review : filed'[p] = Append(filed[p], v)
    BY <1>3 DEF Grown
  <2>2. Embeds(r, Append(filed[p], v))
    BY <1>1, EmbedsMore
  <2> QED
    BY <2>1, <2>2
<1> QED
  BY <1>2, <1>3

(* What a command knows survives another's step.                           *)
LEMMA FollowerOK ==
  ASSUME TypeOK, Grown, NEW c \in Command, NEW d, Follows(c, d), CommandOK(c),
         d.alone => constitution' = constitution /\ dirty' = dirty /\ branch' = branch
                    /\ glock' = glock /\ tip' = tip
  PROVE  CommandOK(d)'
<1>1. Shape(d)'
  BY DEF Follows, CommandOK, Shape
<1>2. Holding(d)'
  <2> SUFFICES ASSUME d.proposal # None
               PROVE  /\ proposal'[d.proposal] # None /\ d.copy # None
                      /\ d.copy.draft = proposal'[d.proposal].draft
                      /\ Embeds(d.copy.reviews, filed'[d.proposal])
                      /\ d.op = "apply" => Ready(d.copy)
    BY DEF Holding, Embeds, Ready, Votes
  <2>1. /\ c.proposal = d.proposal /\ c.copy = d.copy /\ c.op = d.op
        /\ c.proposal \in Proposal /\ c.copy \in File \cup {None}
    BY CommandFields DEF Follows
  <2>2. /\ proposal[c.proposal] # None /\ c.copy # None
        /\ c.copy.draft = proposal[c.proposal].draft
        /\ Embeds(c.copy.reviews, filed[c.proposal])
        /\ c.op = "apply" => Ready(c.copy)
    BY <2>1 DEF CommandOK, Holding
  <2>3. Embeds(c.copy.reviews, filed'[c.proposal])
    BY <2>1, <2>2, FileFields, GrownEmbeds
  <2> QED
    BY <2>1, <2>2, <2>3 DEF Grown
<1>3. Marked(d)'
  BY DEF Follows, CommandOK, Marked, DiffAccepted, Differing, Intact, WithinBudget
<1> QED
  BY <1>1, <1>2, <1>3 DEF CommandOK

(* The approvers of a proposal are votes among its filed reviews.          *)
LEMMA ApproversAre ==
  ASSUME TypeOK, NEW p \in Proposal, NEW voters
  PROVE  Approvers(p, voters) = VotesIn(filed[p], voters)
BY FileAt, LenProperties DEF Approvers, VotesIn, Reviews

(* The same after a step.                                                  *)
LEMMA ApproversNext ==
  ASSUME Rest', NEW p \in Proposal, NEW voters
  PROVE  /\ \A i : i \in Approvers(p, voters)' <=> i \in VotesIn(filed'[p], voters')
         /\ filed'[p] \in Reviews
<1>1. filed'[p] \in Reviews
  BY DEF Rest, FiledType
<1>2. DOMAIN filed'[p] = 1 .. Len(filed'[p])
  BY <1>1, LenProperties DEF Reviews
<1> QED
  BY <1>1, <1>2 DEF Approvers, VotesIn

(* What rules were reviewed by stays, as reviews only grow.                *)
LEMMA ReviewedKeeps ==
  ASSUME TypeOK, Rest', Grown, NEW e, e \in Applied \cup {None}, Reviewed(e)
  PROVE  Reviewed(e)'
<1> SUFFICES ASSUME e # None
             PROVE  Reviewed(e)'
  BY DEF Reviewed
<1>1. PICK p \in Proposal : p = e.proposal
  BY DEF Applied
<1>2. filed[p] \in Reviews /\ filed'[p] \in Reviews /\ Embeds(filed[p], filed'[p])
  BY FileAt, ApproversNext, EmbedsSelf, GrownEmbeds
<1>3. ASSUME NEW voters
      PROVE  /\ Cardinality(Approvers(p, voters)) <= Cardinality(VotesIn(filed'[p], voters))
             /\ Approvers(p, voters) # {} => VotesIn(filed'[p], voters) # {}
             /\ Cardinality(Approvers(p, voters)) \in Nat
             /\ Cardinality(VotesIn(filed'[p], voters)) \in Nat
  BY <1>2, ApproversAre, EmbedsVotes, VotesFinite
<1>4. ASSUME NEW voters
      PROVE  VotesIn(filed'[p], voters) = {i \in DOMAIN filed'[p] :
               filed'[p][i].by \in voters /\ filed'[p][i].decision = "approved"}
  BY <1>2, LenProperties DEF VotesIn, Reviews
<1>5. /\ proposal[p] # None /\ proposal'[p] # None /\ proposal'[p].draft = proposal[p].draft
      /\ proposal[p].draft.approvals \in Nat
      /\ Cardinality(Approvers(p, Human \cup Trusted)) >= proposal[p].draft.approvals
      /\ proposal[p].draft.human => Approvers(p, Human) # {}
  BY <1>1, FileAt, FileFields DEF Reviewed, Grown
<1>6. Cardinality(VotesIn(filed'[p], Human \cup Trusted)) >= proposal[p].draft.approvals
  BY <1>3, <1>5
<1>7. proposal[p].draft.human => VotesIn(filed'[p], Human) # {}
  BY <1>3, <1>5
<1>8. Cardinality({i \in DOMAIN filed'[p] :
                     filed'[p][i].by \in Human \cup Trusted /\ filed'[p][i].decision = "approved"})
        >= proposal'[p].draft.approvals
  BY <1>4, <1>5, <1>6
<1>9. proposal'[p].draft.human =>
        {i \in DOMAIN filed'[p] :
           filed'[p][i].by \in Human /\ filed'[p][i].decision = "approved"} # {}
  BY <1>4, <1>5, <1>7
<1> QED
  BY <1>1, <1>5, <1>8, <1>9 DEF Reviewed, Approvers

(* The rules in force and committed were in force or committed before, or  *)
(* no proposal stands for them.                                            *)
Known(e) ==
  e \in {enforced, None} \/ \E b \in Branch : tip[b] # None /\ e = tip[b].enforced
Recalled ==
  Known(enforced') /\ \A b \in Branch : tip'[b] # None => Known(tip'[b].enforced)

(* Then they were reviewed.                                                *)
LEMMA EnforcedKeeps ==
  ASSUME TypeOK, Rest', EnforcedOK, Grown, Recalled
  PROVE  EnforcedOK'
<1>1. ASSUME NEW e, Known(e)
      PROVE  e \in Applied \cup {None} /\ Reviewed(e)'
  <2>1. e \in Applied \cup {None}
    BY <1>1, TypeFacts, TipAt DEF Known, Rest
  <2>2. Reviewed(e)
    BY <1>1 DEF Known, EnforcedOK, Reviewed
  <2> QED
    BY <2>1, <2>2, ReviewedKeeps
<1>2. (Reviewed(enforced))'
  <2>1. PICK e : e = enforced'
    OBVIOUS
  <2>2. Reviewed(e)'
    BY <1>1, <2>1 DEF Recalled
  <2> QED
    BY <2>1, <2>2 DEF Reviewed, Approvers
<1>3. ASSUME NEW b \in Branch, tip'[b] # None
      PROVE  (Reviewed(tip[b].enforced))'
  <2>1. PICK e : e = tip'[b].enforced
    OBVIOUS
  <2>2. Reviewed(e)'
    BY <1>1, <1>3, <2>1 DEF Recalled
  <2> QED
    BY <2>1, <2>2 DEF Reviewed, Approvers
<1> QED
  BY <1>2, <1>3 DEF EnforcedOK

(* The rules stay in force while lock and constitution do.                 *)
LEMMA InForceKeeps ==
  ASSUME InForce, slipped => slipped', constitution' = constitution, glock' = glock,
         enforced' = enforced, tip' = tip,
         \A b \in Actor : Pending(b)' => Pending(b) /\ cmd'[b].text = cmd[b].text
  PROVE  InForce'
BY DEF InForce

(* Bystanders neither begin to pend, nor hold other proposals.             *)
LEMMA BystandersPend ==
  ASSUME NEW S \in SUBSET Actor, Bystanders(S), NEW b \in Actor \ S
  PROVE  /\ Pending(b)' <=> Pending(b)
         /\ Pending(b) => cmd'[b].text = cmd[b].text
BY DEF Bystanders, Follows, Pending

(* A bystander holds and approves the proposals it did.                    *)
LEMMA BystandersHold ==
  ASSUME NEW S \in SUBSET Actor, Bystanders(S), NEW b \in Actor \ S, NEW p
  PROVE  /\ Holds(b, p)' <=> Holds(b, p)
         /\ Approves(b, p)' <=> Approves(b, p)
         /\ Holds(b, p) => cmd'[b].op = cmd[b].op /\ cmd'[b].copy = cmd[b].copy
BY DEF Bystanders, Follows, Holds, Approves

(* No apply puts rules in force, and commits are of rules that were.       *)
RulesStay == Recalled \/ (enforced' \in {enforced, None} /\ tip' = tip)

(* Any step, of the actors in S.                                           *)
LEMMA StepKeeps ==
  ASSUME EvolutionInv, Rest', cmd' \in CmdType, Tally, NEW S \in SUBSET Actor, Bystanders(S),
         Grown, \A b \in S : RunsOK(b)',
         \A b \in S : cmd'[b] # None /\ cmd'[b].at = "write" =>
           \/ cmd[b] = None \/ cmd[b].at = "write"
           \/ lock' = cmd'[b].ticket /\ Intact(glock', constitution'),
         ProposalsOK', AllUncrossed', EnforcedOK' \/ RulesStay,
         TipsOK' \/ UNCHANGED <<branch, tip>>, InForce'
  PROVE  EvolutionInv'
<1>0. TypeOK /\ CommandsOK /\ LateOK /\ EnforcedOK
  BY DEF EvolutionInv
<1>1. LateOK' /\ late' \in [Actor -> Nat]
  <2>1. \A b \in Actor \ S : cmd'[b] # None /\ cmd'[b].at = "write" => cmd[b].at = "write"
    BY DEF Bystanders, Follows
  <2> QED
    BY <1>0, <2>1, LateKeeps
<1>2. TypeOK'
  BY <1>1, TypesNext
<1>3. EnforcedOK'
  BY <1>0, EnforcedKeeps DEF RulesStay, Recalled, Known
<1>4. ASSUME NEW b \in Actor \ S
      PROVE  RunsOK(b)'
  <2>1. PICK c : c = cmd[b]
    OBVIOUS
  <2>2. PICK d : d = cmd'[b]
    OBVIOUS
  <2>3. ASSUME d # None PROVE CommandOK(d)'
    <3>1. /\ c # None /\ Follows(c, d)
          /\ d.alone => constitution' = constitution /\ dirty' = dirty /\ branch' = branch
                        /\ glock' = glock /\ tip' = tip
      BY <2>1, <2>2, <2>3 DEF Bystanders
    <3>2. c \in Command /\ CommandOK(c)
      BY <1>0, <2>1, <3>1, CmdAt DEF CommandsOK
    <3> QED
      BY <1>0, <3>1, <3>2, FollowerOK
  <2> QED
    BY <2>2, <2>3, RunsAs
<1>5. CommandsOK'
  <2>1. \A b \in Actor : RunsOK(b)'
    BY <1>4
  <2> QED
    BY <2>1 DEF CommandsOK, RunsOK
<1>6. TipsOK'
  BY DEF EvolutionInv, TipsOK
<1> QED
  BY <1>1, <1>2, <1>3, <1>5, <1>6 DEF EvolutionInv

(* A step that writes no proposal and files no review.                     *)
LEMMA AsideKeeps ==
  ASSUME EvolutionInv, Rest', cmd' \in CmdType, Tally, NEW S \in SUBSET Actor, Bystanders(S),
         UNCHANGED <<proposal, filed, crossed>>, \A b \in S : RunsOK(b)',
         \A b \in S : cmd'[b] # None /\ cmd'[b].at = "write" =>
           \/ cmd[b] = None \/ cmd[b].at = "write"
           \/ lock' = cmd'[b].ticket /\ Intact(glock', constitution'),
         \A b \in S, p \in Proposal :
           /\ Holds(b, p)' =>
                \/ Holds(b, p) /\ cmd'[b].op = cmd[b].op /\ cmd'[b].copy = cmd[b].copy
                \/ cmd[b] = None /\ cmd'[b].op # "approve" /\ cmd'[b].copy = proposal[p]
           /\ Approves(b, p) => Approves(b, p)',
         EnforcedOK' \/ RulesStay,
         TipsOK' \/ UNCHANGED <<branch, tip>>, InForce'
  PROVE  EvolutionInv'
<1>1. Grown
  BY DEF Grown
<1>2. ProposalsOK'
  BY DEF EvolutionInv, ProposalsOK, ProposalOK, Embeds
<1>3. ASSUME NEW p \in Proposal, p \notin crossed
      PROVE  /\ \A b \in Actor : Holds(b, p)' /\ cmd'[b].op # "approve" =>
                  cmd'[b].copy.reviews = proposal[p].reviews
             /\ proposal[p] # None /\ (\A b \in Actor : ~Approves(b, p)') =>
                  proposal[p].reviews = filed[p]
             /\ \A b \in Actor :
                  Approves(b, p)' /\ (\A e \in Actor : Approves(e, p)' => e = b) =>
                    cmd'[b].copy.reviews = filed[p]
  <2>1. Uncrossed(p)
    BY DEF EvolutionInv, AllUncrossed
  <2>2. \A b \in Actor : Approves(b, p)' <=> Approves(b, p)
    BY BystandersHold DEF Approves
  <2>3. \A b \in Actor : Approves(b, p) => cmd'[b].copy = cmd[b].copy
    BY <2>2, BystandersHold DEF Approves, Holds
  <2>4. \A b \in Actor : Holds(b, p)' /\ cmd'[b].op # "approve" =>
          \/ Holds(b, p) /\ cmd[b].op # "approve" /\ cmd'[b].copy = cmd[b].copy
          \/ cmd'[b].copy = proposal[p]
    BY BystandersHold
  <2>5. \A b \in Actor : Holds(b, p)' /\ cmd'[b].op # "approve" =>
          cmd'[b].copy.reviews = proposal[p].reviews
    BY <1>3, <2>1, <2>4 DEF Uncrossed
  <2>6. proposal[p] # None /\ (\A b \in Actor : ~Approves(b, p)') =>
          proposal[p].reviews = filed[p]
    BY <1>3, <2>1, <2>2 DEF Uncrossed
  <2>7. \A b \in Actor : Approves(b, p)' /\ (\A e \in Actor : Approves(e, p)' => e = b) =>
          cmd'[b].copy.reviews = filed[p]
    BY <1>3, <2>1, <2>2, <2>3 DEF Uncrossed
  <2> QED
    BY <2>5, <2>6, <2>7
<1>4. AllUncrossed'
  BY <1>3 DEF AllUncrossed, Uncrossed
<1> QED
  BY <1>1, <1>2, <1>4, StepKeeps DEF RulesStay

(* Nothing changes the constitution, the lock or what an apply wrote.      *)
LEMMA CalmKeeps ==
  ASSUME EvolutionInv, NEW S \in SUBSET Actor, Bystanders(S),
         constitution' = constitution, glock' = glock, enforced' = enforced, slipped' = slipped,
         tip' = tip,
         \A b \in S : Pending(b)' => Pending(b) /\ cmd'[b].text = cmd[b].text
  PROVE  InForce'
<1>1. \A b \in Actor : Pending(b)' => Pending(b) /\ cmd'[b].text = cmd[b].text
  BY BystandersPend
<1> QED
  BY <1>1, InForceKeeps DEF EvolutionInv

-----------------------------------------------------------------------------
(* The steps.                                                              *)
LEMMA BegunTypes ==
  ASSUME TypeOK, NEW a \in Actor, Begun(a)
  PROVE  cmd[a] = None /\ calls' \in [commands: 0 .. MaxCommands, outside: 0 .. MaxOutside]
BY TypeFacts, ConstantsAssumption DEF Begun, Rest

(* An outside step keeps its counter in range.                             *)
LEMMA OutsideTypes ==
  ASSUME TypeOK, Outside
  PROVE  calls' \in [commands: 0 .. MaxCommands, outside: 0 .. MaxOutside]
BY TypeFacts, ConstantsAssumption DEF Outside, Rest

(* A fresh command has the type of a command.                              *)
LEMMA NewTyped ==
  ASSUME NEW op \in {"do", "approve", "apply", "distill", "policy"},
         NEW step \in {"authorize", "write", "check", "scope", "marked", "save", "log"},
         NEW t \in Ticket, NEW p \in Proposal \cup {None}, NEW copy \in File \cup {None},
         NEW ops \in Seq(Edit)
  PROVE  LET c == New(op, step, t, p, copy, ops)
         IN  /\ c \in Command /\ c.op = op /\ c.at = step /\ c.ticket = t /\ c.proposal = p
             /\ c.copy = copy /\ c.ops = ops /\ c.text = None
BY DEF New, Command

(* Patches are sequences of edits.                                         *)
LEMMA PatchesTyped ==
  ASSUME NEW ops \in PatchList \cup {<<>>}
  PROVE  ops \in Seq(Edit)
BY ConstantsAssumption, EmptySeq

(* The invariant includes the types.                                       *)
LEMMA InvTypes ==
  ASSUME EvolutionInv
  PROVE  TypeOK /\ Rest
BY TypeFacts DEF EvolutionInv

(* What the invariant says of a running command.                           *)
LEMMA OwnCommand ==
  ASSUME EvolutionInv, NEW a \in Actor, cmd[a] # None
  PROVE  /\ TypeOK /\ Rest /\ cmd[a] \in Command /\ CommandOK(cmd[a]) /\ Shape(cmd[a])
         /\ Holding(cmd[a])
BY InvTypes, CmdAt DEF EvolutionInv, CommandsOK, CommandOK

(* n is a command that works on what c works on.                           *)
GoesOn(c, n) ==
  /\ n \in Command /\ n.op = c.op /\ n.proposal = c.proposal /\ n.copy = c.copy

(* A command still holds the proposal it read.                             *)
LEMMA HoldingNext ==
  ASSUME NEW n,
         n.proposal # None =>
           /\ proposal'[n.proposal] # None /\ n.copy # None
           /\ n.copy.draft = proposal'[n.proposal].draft
           /\ Embeds(n.copy.reviews, filed'[n.proposal])
           /\ n.op = "apply" => Ready(n.copy)
  PROVE  Holding(n)'
BY DEF Holding, Embeds, Ready, Votes

(* A command that goes on without touching a proposal keeps the invariant. *)
LEMMA GoOnKeeps ==
  ASSUME EvolutionInv, Rest', cmd' \in CmdType, Tally, NEW a \in Actor, Bystanders({a}),
         UNCHANGED <<proposal, filed, crossed>>, cmd[a] # None,
         NEW n, n = cmd'[a], GoesOn(cmd[a], n), Shape(n), Marked(n)',
         n.at = "write" => cmd[a].at = "write"
                             \/ (lock' = n.ticket /\ Intact(glock', constitution')),
         EnforcedOK' \/ RulesStay,
         TipsOK' \/ UNCHANGED <<branch, tip>>, InForce'
  PROVE  EvolutionInv'
<1>1. PICK c : c = cmd[a]
  OBVIOUS
<1>2. Holding(c)
  BY <1>1, OwnCommand
<1>3. Holding(n)'
  <2>1. n.op = c.op /\ n.proposal = c.proposal /\ n.copy = c.copy
    BY <1>1 DEF GoesOn
  <2> QED
    BY <1>2, <2>1, HoldingNext DEF Holding
<1>4. CommandOK(n)'
  BY <1>3 DEF CommandOK, Shape
<1>5. RunsOK(a)'
  BY <1>4, RunsAs
<1>6. \A p \in Proposal :
        /\ Holds(a, p)' => Holds(a, p) /\ cmd'[a].op = cmd[a].op /\ cmd'[a].copy = cmd[a].copy
        /\ Approves(a, p) => Approves(a, p)'
  BY CommandFields DEF GoesOn, Holds, Approves
<1> QED
  BY <1>5, <1>6, AsideKeeps DEF RulesStay

(* A command ends that was not an approval.                                *)
LEMMA EndKeeps ==
  ASSUME EvolutionInv, Rest', cmd' \in CmdType, Tally, NEW a \in Actor, Bystanders({a}),
         UNCHANGED <<proposal, filed, crossed>>, cmd[a] # None, cmd[a].op # "approve",
         cmd'[a] = None, enforced' \in {enforced, None}, UNCHANGED <<branch, tip>>,
         InForce'
  PROVE  EvolutionInv'
<1>1. RunsOK(a)'
  BY DEF RunsOK
<1>2. \A p \in Proposal : ~Holds(a, p)' /\ ~Approves(a, p)
  BY DEF Holds, Approves
<1> QED
  BY <1>1, <1>2, AsideKeeps DEF RulesStay

(* Authorising a write keeps the invariant.                                *)
LEMMA AuthorizeKeeps ==
  ASSUME EvolutionInv, NEW a \in Actor, Authorize(a), Tally
  PROVE  EvolutionInv'
<1>1. PICK c : c = cmd[a]
  OBVIOUS
<1>2. /\ TypeOK /\ Rest /\ c \in Command /\ Shape(c) /\ c # None /\ c.at = "authorize"
      /\ Authority(c.ticket)
  BY <1>1, OwnCommand DEF Authorize, At, Authorized
<1>3. PICK n \in Command : /\ n = [c EXCEPT !.at = "write"]
                           /\ n.at = "write" /\ n.op = c.op /\ n.proposal = c.proposal
                           /\ n.copy = c.copy /\ n.ops = c.ops /\ n.ticket = c.ticket
                           /\ n.text = c.text
  <2> DEFINE n == [c EXCEPT !.at = "write"]
  <2>1. /\ n \in Command /\ n.at = "write" /\ n.op = c.op /\ n.proposal = c.proposal
        /\ n.copy = c.copy /\ n.ops = c.ops /\ n.ticket = c.ticket /\ n.text = c.text
    BY <1>2 DEF Command
  <2> QED
    BY <2>1
<1>4. /\ Advance(a, n)
      /\ UNCHANGED <<tree, glock, lock, done, proposal, patch, cooling, filed, evidence, calls>>
  BY <1>1, <1>3 DEF Authorize
<1>5. cmd' \in CmdType /\ cmd'[a] = n /\ Bystanders({a})
  BY <1>2, <1>4, AdvanceDoes DEF tree
<1>6. Rest'
  BY <1>2, <1>4 DEF Rest, evidence, tree
<1>7. Shape(n) /\ Marked(n)'
  BY <1>2, <1>3 DEF Shape, Marked
<1>8. InForce'
  <2>1. Pending(a)' => Pending(a) /\ cmd'[a].text = cmd[a].text
    BY <1>1, <1>2, <1>3, <1>5 DEF Pending
  <2> QED
    BY <1>4, <1>5, <2>1, CalmKeeps DEF evidence, tree
<1>9. lock' = n.ticket /\ Intact(glock', constitution')
  BY <1>2, <1>3, <1>4 DEF Authority, tree
<1>10. GoesOn(c, n)
  BY <1>3 DEF GoesOn
<1> QED
  BY <1>1, <1>2, <1>3, <1>4, <1>5, <1>6, <1>7, <1>8, <1>9, <1>10, GoOnKeeps DEF tree, evidence, RulesStay

(* Writing an authorised file keeps the invariant.                         *)
LEMMA WriteKeeps ==
  ASSUME EvolutionInv, NEW a \in Actor, Write(a), Tally
  PROVE  EvolutionInv'
<1>1. PICK c : c = cmd[a]
  OBVIOUS
<1>2. /\ TypeOK /\ Rest /\ c \in Command /\ Shape(c) /\ c # None /\ c.at = "write"
      /\ c.ops \in Seq(Edit) /\ c.ops # <<>>
  BY <1>1, OwnCommand, CommandFields DEF Write, At, Shape
<1>3. PICK edit \in Edit : edit = Head(c.ops)
  BY <1>2, HeadTailProperties
<1>4. PICK text \in Text \cup {None} :
        text = IF Area[edit.path] = "constitution" THEN edit.text ELSE c.text
  BY <1>2, CommandFields DEF Edit
<1>5. PICK step \in {"check", "authorize"} :
        /\ step = IF Len(c.ops) = 1 THEN "check" ELSE "authorize"
        /\ step = "authorize" => Tail(c.ops) # <<>> /\ c.op # "policy"
  <2>1. Len(c.ops) \in Nat /\ Len(Tail(c.ops)) = Len(c.ops) - 1
    BY <1>2, HeadTailProperties, LenProperties
  <2>2. Len(c.ops) # 1 => Tail(c.ops) # <<>>
    <3>1. Len(<<>>) = 0
      OBVIOUS
    <3>2. Tail(c.ops) = <<>> => Len(Tail(c.ops)) = Len(<<>>)
      OBVIOUS
    <3> QED
      BY <2>1, <3>1, <3>2
  <2>3. c.op = "policy" => Len(c.ops) = 1
    BY <1>2 DEF Shape
  <2> QED
    BY <2>2, <2>3
<1>6. Tail(c.ops) \in Seq(Edit) /\ edit.path \in Path /\ edit.text \in Text
  BY <1>2, HeadTailProperties DEF Edit
<1> DEFINE m == [c EXCEPT !.at = step, !.ops = Tail(@), !.files = @ \cup {edit.path},
                          !.text = text]
<1>7. PICK n \in Command :
        /\ n = m
        /\ n.at = step /\ n.op = c.op /\ n.proposal = c.proposal
        /\ n.copy = c.copy /\ n.ops = Tail(c.ops) /\ n.text = text
  <2>1. /\ m \in Command /\ m.at = step /\ m.op = c.op /\ m.proposal = c.proposal
        /\ m.copy = c.copy /\ m.ops = Tail(c.ops) /\ m.text = text
    BY <1>2, <1>6 DEF Command
  <2> QED
    BY <2>1
<1>8. /\ constitution' = IF Area[edit.path] = "constitution" THEN edit.text ELSE constitution
      /\ dirty' = dirty \cup {edit.path}
      /\ slipped' = \/ slipped \/ ~Authority(c.ticket) \/ c.op = "policy"
                    \/ c.op = "apply" /\ Area[edit.path] = "constitution" /\ edit.text = glock
      /\ UNCHANGED <<branch, tip, glock, lock, done, proposal, patch, cooling, filed,
                     crossed, enforced, calls>>
  BY <1>1, <1>3 DEF Write
<1>9. Disturb(a, n)
  <2>1. Disturb(a, m)
    BY <1>1, <1>3, <1>4, <1>5 DEF Write
  <2> QED
    BY <1>7, <2>1
<1>10. cmd' \in CmdType /\ cmd'[a] = n /\ Bystanders({a})
  BY <1>2, <1>9, DisturbDoes
<1>11. Rest'
  <2>1. slipped' \in BOOLEAN
    BY <1>8
  <2> QED
    BY <1>2, <1>6, <1>8, <2>1 DEF Rest
<1>12. Shape(n) /\ Marked(n)'
  BY <1>2, <1>5, <1>7 DEF Shape, Marked
<1>13. InForce'
  <2> SUFFICES ASSUME ~slipped'
               PROVE  /\ enforced' # None => glock' = enforced'.text
                      /\ \A b \in Branch : tip'[b] # None /\ tip'[b].enforced # None =>
                           tip'[b].glock = tip'[b].enforced.text
                      /\ \A b \in Actor : Pending(b)' => constitution' = cmd'[b].text
                                                           /\ glock' # cmd'[b].text
                      /\ \A b, e \in Actor : Pending(b)' /\ Pending(e)' => b = e
    BY DEF InForce
  <2>1. /\ ~slipped /\ Authority(c.ticket)
        /\ ~(c.op = "apply" /\ Area[edit.path] = "constitution" /\ edit.text = glock)
    BY <1>8
  <2>2. \A b \in Actor : ~Pending(b)
    BY <2>1 DEF EvolutionInv, InForce, Authority, Intact
  <2>3. \A b \in Actor : Pending(b)' => b = a
    BY <1>10, <2>2, BystandersPend
  <2>4. Pending(a)' => Area[edit.path] = "constitution" /\ n.op = "apply" /\ n.text # None
    BY <1>1, <1>2, <1>4, <1>7, <1>10, <2>2 DEF Pending
  <2>5. Pending(a)' => constitution' = cmd'[a].text /\ glock' # cmd'[a].text
    BY <1>4, <1>7, <1>8, <1>10, <2>1, <2>4
  <2>6. /\ enforced' # None => glock' = enforced'.text
        /\ \A b \in Branch : tip'[b] # None /\ tip'[b].enforced # None =>
             tip'[b].glock = tip'[b].enforced.text
    BY <1>8, <2>1 DEF EvolutionInv, InForce
  <2> QED
    BY <2>3, <2>5, <2>6
<1>14. GoesOn(c, n) /\ n.at # "write"
  BY <1>5, <1>7 DEF GoesOn
<1> QED
  BY <1>1, <1>2, <1>8, <1>10, <1>11, <1>12, <1>13, <1>14, GoOnKeeps DEF RulesStay

(* One more thing is decided when the commands of the do script ran.       *)
LEMMA RunDoKeeps ==
  ASSUME EvolutionInv, NEW a \in Actor, NEW written \in SUBSET Path, NEW text \in Text,
         RunDo(a, written, text), Tally
  PROVE  EvolutionInv'
<1>1. PICK c : c = cmd[a]
  OBVIOUS
<1>2. /\ TypeOK /\ Rest /\ c \in Command /\ Shape(c) /\ c # None /\ c.at = "check" /\ c.op = "do"
  BY <1>1, OwnCommand DEF RunDo, At
<1>3. PICK n \in Command : /\ n = [c EXCEPT !.at = "scope"]
                           /\ n.at = "scope" /\ n.op = c.op /\ n.proposal = c.proposal
                           /\ n.copy = c.copy
  <2> DEFINE n == [c EXCEPT !.at = "scope"]
  <2>1. n \in Command /\ n.at = "scope" /\ n.op = c.op /\ n.proposal = c.proposal /\ n.copy = c.copy
    BY <1>2 DEF Command
  <2> QED
    BY <2>1
<1>4. /\ constitution' = IF \E path \in written : Area[path] = "constitution"
                         THEN text ELSE constitution
      /\ dirty' = dirty \cup written
      /\ slipped' = (slipped \/ constitution' # constitution)
      /\ UNCHANGED <<branch, tip, glock, lock, done, proposal, patch, cooling, filed,
                     crossed, enforced, calls>>
      /\ (written = {} /\ Advance(a, n)) \/ Disturb(a, n)
  BY <1>1, <1>3 DEF RunDo
<1>5. cmd' \in CmdType /\ cmd'[a] = n /\ Bystanders({a})
  <2>1. CASE written = {} /\ Advance(a, n)
    BY <1>2, <1>4, <2>1, AdvanceDoes
  <2>2. CASE Disturb(a, n)
    BY <1>2, <2>2, DisturbDoes
  <2> QED
    BY <1>4, <2>1, <2>2
<1>6. Rest'
  <2>1. slipped' \in BOOLEAN
    BY <1>2, <1>4 DEF Rest
  <2> QED
    BY <1>2, <1>4, <2>1 DEF Rest
<1>7. Shape(n) /\ Marked(n)' /\ GoesOn(c, n)
  BY <1>2, <1>3 DEF Shape, Marked, GoesOn
<1>8. InForce'
  <2>1. CASE slipped'
    BY <2>1 DEF InForce
  <2>2. CASE ~slipped'
    <3>1. constitution' = constitution /\ slipped' = slipped
      BY <1>2, <1>4, <2>2 DEF Rest
    <3>2. ~Pending(a)'
      BY <1>2, <1>3, <1>5 DEF Pending
    <3> QED
      BY <1>4, <1>5, <3>1, <3>2, CalmKeeps
  <2> QED
    BY <2>1, <2>2
<1> QED
  BY <1>1, <1>2, <1>3, <1>4, <1>5, <1>6, <1>7, <1>8, GoOnKeeps DEF RulesStay

(* Finishing a do keeps the invariant.                                     *)
LEMMA FinishDoKeeps ==
  ASSUME EvolutionInv, NEW a \in Actor, FinishDo(a), Tally
  PROVE  EvolutionInv'
<1>1. PICK c : c = cmd[a]
  OBVIOUS
<1>2. /\ TypeOK /\ Rest /\ c \in Command /\ Shape(c) /\ c # None /\ c.at = "scope" /\ c.op = "do"
      /\ c.ticket \in Ticket /\ branch = c.ticket /\ DiffAccepted(c.ticket)
  BY <1>1, OwnCommand, CommandFields DEF FinishDo, At, Shape
<1>3. PICK n \in Command : /\ n = [c EXCEPT !.at = "marked"]
                           /\ n.at = "marked" /\ n.op = c.op /\ n.proposal = c.proposal
                           /\ n.copy = c.copy /\ n.ticket = c.ticket
  <2> DEFINE n == [c EXCEPT !.at = "marked"]
  <2>1. n \in Command /\ n.at = "marked" /\ n.op = c.op /\ n.proposal = c.proposal
        /\ n.copy = c.copy /\ n.ticket = c.ticket
    BY <1>2 DEF Command
  <2> QED
    BY <2>1
<1>4. /\ Advance(a, n) /\ done' = done \cup {c.ticket}
      /\ UNCHANGED <<tree, glock, lock, proposal, patch, cooling, filed, evidence, calls>>
  BY <1>1, <1>3 DEF FinishDo
<1>5. cmd' \in CmdType /\ cmd'[a] = n /\ Bystanders({a})
  BY <1>2, <1>4, AdvanceDoes DEF tree
<1>6. Rest'
  BY <1>2, <1>4 DEF Rest, evidence, tree
<1>7. Shape(n) /\ GoesOn(c, n)
  BY <1>2, <1>3 DEF Shape, GoesOn
<1>8. Marked(n)'
  BY <1>2, <1>3, <1>4 DEF Marked, DiffAccepted, Differing, Intact, WithinBudget, tree
<1>9. ~Pending(a)'
  BY <1>3, <1>5 DEF Pending
<1>10. InForce'
  BY <1>4, <1>5, <1>9, CalmKeeps DEF evidence, tree
<1> QED
  BY <1>1, <1>2, <1>3, <1>4, <1>5, <1>6, <1>7, <1>8, <1>10, GoOnKeeps DEF tree, evidence, RulesStay

(* Beginning a policy change keeps the invariant.                          *)
LEMMA BeginPolicySetKeeps ==
  ASSUME EvolutionInv, NEW a \in Actor, NEW edits \in {<<>>} \cup {<<edit>> : edit \in Edit},
         BeginPolicySet(a, edits), Tally
  PROVE  EvolutionInv'
<1>1. /\ TypeOK /\ Rest /\ cmd[a] = None /\ lock \in Ticket
      /\ calls' \in [commands: 0 .. MaxCommands, outside: 0 .. MaxOutside]
  BY InvTypes, BegunTypes DEF BeginPolicySet, Rest
<1>2. edits \in Seq(Edit) /\ (edits # <<>> => Len(edits) = 1)
  <2>1. CASE edits = <<>>
    BY <2>1
  <2>2. CASE edits # <<>>
    <3>1. PICK edit \in Edit : edits = <<edit>>
      BY <2>2
    <3> QED
      BY <3>1
  <2> QED
    BY <2>1, <2>2
<1>3. PICK step \in {"check", "write"} :
        step = IF edits = <<>> THEN "check" ELSE "write"
  OBVIOUS
<1>4. PICK c \in Command : /\ c = New("policy", step, lock, None, None, edits)
                           /\ c.op = "policy" /\ c.at = step /\ c.proposal = None /\ c.ops = edits
                           /\ c.ticket = lock
  <2>1. step \in {"authorize", "write", "check", "scope", "marked", "save", "log"}
    OBVIOUS
  <2> QED
    <3>1. PICK t \in Ticket : t = lock
      BY <1>1
    <3>2. LET d == New("policy", step, t, None, None, edits)
          IN  /\ d \in Command /\ d.op = "policy" /\ d.at = step /\ d.proposal = None
              /\ d.ops = edits /\ d.ticket = t
      BY <1>2, <2>1, <3>1 DEF New, Command
    <3> QED
      BY <3>1, <3>2
<1>5. /\ Advance(a, c)
      /\ UNCHANGED <<tree, glock, lock, done, proposal, patch, cooling, filed, evidence>>
  BY <1>3, <1>4 DEF BeginPolicySet
<1>6. cmd' \in CmdType /\ cmd'[a] = c /\ Bystanders({a})
  BY <1>1, <1>5, AdvanceDoes DEF tree
<1>7. Rest'
  BY <1>1, <1>5 DEF Rest, evidence, tree
<1>8. CommandOK(c)'
  BY <1>2, <1>3, <1>4 DEF CommandOK, Shape, Holding, Marked
<1>9. RunsOK(a)'
  BY <1>6, <1>8, RunsAs
<1>10. ~Pending(a)'
  BY <1>4, <1>6 DEF Pending
<1>11. InForce'
  BY <1>5, <1>6, <1>10, CalmKeeps DEF evidence, tree
<1>12. \A p \in Proposal : ~Holds(a, p)' /\ ~Approves(a, p)
  BY <1>1, <1>4, <1>6, NoneAssumption DEF Holds, Approves
<1> QED
  BY <1>1, <1>5, <1>6, <1>7, <1>9, <1>11, <1>12, AsideKeeps DEF tree, evidence, RulesStay

(* A lock made by hand, when no apply is running: it stands for nothing.   *)
LEMMA ImposedForce ==
  ASSUME EvolutionInv, NEW S \in SUBSET Actor, Bystanders(S), Imposed, tip' = tip,
         \A b \in S : ~Pending(b)'
  PROVE  InForce'
<1>1. enforced' = None /\ (~slipped' => \A b \in Actor : ~Pending(b))
  BY DEF Imposed, Applying, Pending
<1>2. ~slipped' => \A b \in Actor : ~Pending(b)'
  BY <1>1, BystandersPend
<1>3. ~slipped' => ~slipped
  BY DEF Imposed
<1> QED
  BY <1>1, <1>2, <1>3 DEF EvolutionInv, InForce

(* Rules imposed past review keep their types.                             *)
LEMMA ImposedTypes ==
  ASSUME Rest, Imposed
  PROVE  glock' \in Text \cup {NoLock} /\ slipped' \in BOOLEAN /\ enforced' = None
BY DEF Imposed, Compiled, Rest

(* Compiling a changed policy keeps the invariant.                         *)
LEMMA CompilePolicyKeeps ==
  ASSUME EvolutionInv, NEW a \in Actor, CompilePolicy(a), Tally
  PROVE  EvolutionInv'
<1>1. /\ TypeOK /\ Rest /\ cmd[a] # None /\ cmd[a].op = "policy" /\ Disturb(a, None) /\ Imposed
      /\ UNCHANGED <<tree, lock, done, proposal, patch, cooling, filed, crossed, calls>>
  BY InvTypes DEF CompilePolicy, At
<1>2. cmd' \in CmdType /\ cmd'[a] = None /\ Bystanders({a})
  BY <1>1, DisturbDoes
<1>3. Rest'
  BY <1>1, ImposedTypes DEF Rest, tree
<1>4. InForce' /\ enforced' = None
  BY <1>1, <1>2, ImposedForce DEF Pending, Imposed, tree
<1> QED
  BY <1>1, <1>2, <1>3, <1>4, EndKeeps DEF tree

(* Compiling an applied patch keeps the invariant.                         *)
LEMMA CompileKeeps ==
  ASSUME EvolutionInv, NEW a \in Actor, Compile(a), Tally
  PROVE  EvolutionInv'
<1>1. PICK c : c = cmd[a]
  OBVIOUS
<1>2. /\ TypeOK /\ Rest /\ c \in Command /\ Shape(c) /\ Holding(c) /\ c # None
      /\ c.at = "check" /\ c.op = "apply" /\ c.text # None
  BY <1>1, OwnCommand DEF Compile, At
<1>3. /\ c.proposal \in Proposal /\ c.text \in Text /\ c.copy \in File
      /\ proposal[c.proposal] # None /\ c.copy.draft = proposal[c.proposal].draft
      /\ Embeds(c.copy.reviews, filed[c.proposal]) /\ Ready(c.copy)
  BY <1>2, CommandFields DEF Shape, Holding
<1>4. PICK n \in Command : /\ n = [c EXCEPT !.at = "save"]
                           /\ n.at = "save" /\ n.op = c.op /\ n.proposal = c.proposal
                           /\ n.copy = c.copy
  <2> DEFINE n == [c EXCEPT !.at = "save"]
  <2>1. n \in Command /\ n.at = "save" /\ n.op = c.op /\ n.proposal = c.proposal /\ n.copy = c.copy
    BY <1>2 DEF Command
  <2> QED
    BY <2>1
<1>5. /\ glock' = constitution /\ enforced' = [proposal |-> c.proposal, text |-> c.text]
      /\ Disturb(a, n)
      /\ UNCHANGED <<tree, lock, done, proposal, patch, cooling, filed, crossed, slipped, calls>>
  BY <1>1, <1>4 DEF Compile, Compiled
<1>6. cmd' \in CmdType /\ cmd'[a] = n /\ Bystanders({a})
  BY <1>2, <1>5, DisturbDoes
<1>7. Rest'
  <2>1. enforced' \in Applied
    BY <1>3, <1>5 DEF Applied
  <2> QED
    BY <1>2, <1>5, <2>1 DEF Rest, tree
<1>8. Shape(n) /\ Marked(n)' /\ GoesOn(c, n)
  BY <1>2, <1>4 DEF Shape, Marked, GoesOn
<1>9. EnforcedOK'
  <2>1. c.copy.reviews \in Reviews /\ filed[c.proposal] \in Reviews
        /\ c.copy.draft.approvals \in Nat
    BY <1>2, <1>3, FileFields, FileAt
  <2>2. \A voters : Votes(c.copy, voters) = VotesIn(c.copy.reviews, voters)
    BY DEF Votes, VotesIn
  <2>3. \A voters : Cardinality(Votes(c.copy, voters))
                      <= Cardinality(VotesIn(filed[c.proposal], voters))
                    /\ (Votes(c.copy, voters) # {} => VotesIn(filed[c.proposal], voters) # {})
    BY <1>3, <2>1, <2>2, EmbedsVotes
  <2>4. \A voters : Cardinality(Votes(c.copy, voters)) \in Nat
                    /\ Cardinality(VotesIn(filed[c.proposal], voters)) \in Nat
    BY <2>1, <2>2, VotesFinite
  <2>5. Cardinality(Approvers(c.proposal, Human \cup Trusted)) >= c.copy.draft.approvals
    <3>1. Cardinality(Votes(c.copy, Human \cup Trusted)) >= c.copy.draft.approvals
      BY <1>3 DEF Ready
    <3>2. Cardinality(VotesIn(filed[c.proposal], Human \cup Trusted)) >= c.copy.draft.approvals
      BY <2>1, <2>3, <2>4, <3>1
    <3> QED
      BY <1>2, <1>3, <3>2, ApproversAre
  <2>6. c.copy.draft.human => Approvers(c.proposal, Human) # {}
    BY <1>2, <1>3, <2>3, ApproversAre DEF Ready
  <2>7. enforced'.proposal = c.proposal /\ proposal' = proposal /\ filed' = filed
    BY <1>5
  <2> QED
    <3>1. PICK e : e = enforced'
      OBVIOUS
    <3>2. Reviewed(e)'
      BY <1>3, <2>5, <2>6, <2>7, <3>1 DEF Reviewed, Approvers
    <3>3. \A b \in Branch : tip[b] # None => Reviewed(tip[b].enforced)
      BY DEF EvolutionInv, EnforcedOK
    <3>4. (\A b \in Branch : tip[b] # None => Reviewed(tip[b].enforced))'
      BY <1>5, <3>3 DEF Reviewed, Approvers, tree
    <3> QED
      BY <3>1, <3>2, <3>4 DEF EnforcedOK, Reviewed, Approvers
<1>10. InForce'
  <2> SUFFICES ASSUME ~slipped
               PROVE  /\ constitution = c.text
                      /\ \A b \in Actor : ~Pending(b)'
    BY <1>5 DEF EvolutionInv, InForce, tree
  <2>1. Pending(a)
    BY <1>1, <1>2 DEF Pending
  <2>2. constitution = c.text /\ \A b \in Actor : Pending(b) => b = a
    BY <1>1, <2>1 DEF EvolutionInv, InForce
  <2>3. ~Pending(a)'
    BY <1>4, <1>6 DEF Pending
  <2> QED
    BY <1>6, <2>2, <2>3, BystandersPend
<1> QED
  BY <1>1, <1>2, <1>4, <1>5, <1>6, <1>7, <1>8, <1>9, <1>10, GoOnKeeps DEF tree, RulesStay

(* Recording an apply keeps the invariant.                                 *)
LEMMA LogAppliedKeeps ==
  ASSUME EvolutionInv, NEW a \in Actor, LogApplied(a), Tally
  PROVE  EvolutionInv'
<1>1. /\ TypeOK /\ Rest /\ cmd[a] # None /\ cmd[a].op = "apply"
  BY OwnCommand, CommandFields DEF LogApplied, At, Shape
<1>2. /\ Advance(a, None) /\ cooling' \in BOOLEAN
      /\ UNCHANGED <<tree, glock, lock, done, proposal, patch, filed, evidence, calls>>
  BY <1>1 DEF LogApplied, Rest
<1>3. cmd' \in CmdType /\ cmd'[a] = None /\ Bystanders({a})
  BY <1>1, <1>2, AdvanceDoes DEF tree
<1>4. Rest'
  BY <1>1, <1>2 DEF Rest, tree, evidence
<1>5. InForce'
  BY <1>2, <1>3, CalmKeeps DEF tree, evidence, Pending
<1> QED
  BY <1>1, <1>2, <1>3, <1>4, <1>5, EndKeeps DEF tree, evidence

(* The commands that begin by reading a proposal and change nothing yet.   *)
LEMMA ReadKeeps ==
  ASSUME EvolutionInv, NEW a \in Actor, Begun(a), Tally, NEW p \in Proposal, proposal[p] # None,
         NEW op \in {"apply", "distill"}, NEW step \in {"check", "authorize", "save"},
         NEW ops \in Seq(Edit),
         Advance(a, New(op, step, proposal[p].draft.ticket, p, proposal[p], ops)),
         op = "apply" => Ready(proposal[p]) /\ step # "save",
         op = "distill" => step = "save",
         step = "authorize" => ops # <<>>,
         UNCHANGED <<tree, glock, lock, done, proposal, patch, cooling, filed, evidence>>
  PROVE  EvolutionInv'
<1>1. /\ TypeOK /\ Rest /\ cmd[a] = None
      /\ calls' \in [commands: 0 .. MaxCommands, outside: 0 .. MaxOutside]
  BY InvTypes, BegunTypes
<1>2. PICK f \in File : f = proposal[p]
  BY <1>1, FileAt
<1>3. PICK t \in Ticket : t = f.draft.ticket
  BY FileFields
<1>4. PICK c \in Command : /\ c = New(op, step, t, p, f, ops)
                           /\ c.op = op /\ c.at = step /\ c.proposal = p /\ c.copy = f
                           /\ c.ops = ops /\ c.text = None
  <2>1. /\ op \in {"do", "approve", "apply", "distill", "policy"}
        /\ step \in {"authorize", "write", "check", "scope", "marked", "save", "log"}
        /\ p \in Proposal \cup {None} /\ f \in File \cup {None}
    OBVIOUS
  <2> QED
    BY <2>1, NewTyped
<1>5. Advance(a, c)
  BY <1>2, <1>3, <1>4
<1>6. cmd' \in CmdType /\ cmd'[a] = c /\ Bystanders({a})
  BY <1>1, <1>5, AdvanceDoes DEF tree
<1>7. Rest'
  BY <1>1 DEF Rest, evidence, tree
<1>8. Embeds(f.reviews, filed[p])
  BY <1>2 DEF EvolutionInv, ProposalsOK, ProposalOK
<1>9. CommandOK(c)'
  <2>1. Holding(c)'
    <3>1. /\ proposal'[c.proposal] # None /\ c.copy # None
          /\ c.copy.draft = proposal'[c.proposal].draft
          /\ c.op = "apply" => Ready(c.copy)
      BY <1>2, <1>4
    <3>2. Embeds(c.copy.reviews, filed'[c.proposal])
      BY <1>2, <1>4, <1>8
    <3> QED
      BY <3>1, <3>2, HoldingNext
  <2>2. Shape(c)
    BY <1>4, NoneAssumption DEF Shape
  <2>3. Marked(c)'
    BY <1>4 DEF Marked
  <2> QED
    BY <2>1, <2>2, <2>3 DEF CommandOK, Shape
<1>10. RunsOK(a)'
  BY <1>6, <1>9, RunsAs
<1>11. ~Pending(a)'
  BY <1>4, <1>6 DEF Pending
<1>12. InForce'
  BY <1>6, <1>11, CalmKeeps DEF tree, evidence
<1>13. \A q \in Proposal : /\ Holds(a, q)' => cmd'[a].op # "approve" /\ cmd'[a].copy = proposal[q]
                           /\ ~Approves(a, q)
  BY <1>1, <1>2, <1>4, <1>6 DEF Holds, Approves
<1>14. cmd'[a].at # "write"
  BY <1>4, <1>6
<1> QED
  BY <1>1, <1>6, <1>7, <1>10, <1>12, <1>13, <1>14, AsideKeeps DEF tree, evidence, RulesStay

(* Beginning an apply keeps the invariant.                                 *)
LEMMA BeginApplyKeeps ==
  ASSUME EvolutionInv, NEW a \in Actor, NEW p \in Proposal, BeginApply(a, p), Tally
  PROVE  EvolutionInv'
<1>1. PICK ops \in PatchList \cup {<<>>} : ops = patch[p]
  BY InvTypes DEF Rest
<1>2. First(ops) \in {"check", "authorize"} /\ (First(ops) = "authorize" => ops # <<>>)
  BY DEF First
<1>3. ops \in Seq(Edit)
  BY PatchesTyped
<1>4. /\ Begun(a) /\ proposal[p] # None /\ Ready(proposal[p])
      /\ Advance(a, New("apply", First(ops), proposal[p].draft.ticket, p, proposal[p], ops))
      /\ UNCHANGED <<tree, glock, lock, done, proposal, patch, cooling, filed, evidence>>
  BY <1>1 DEF BeginApply
<1> QED
  BY <1>2, <1>3, <1>4, ReadKeeps

(* Beginning a distill keeps the invariant.                                *)
LEMMA BeginDistillKeeps ==
  ASSUME EvolutionInv, NEW a \in Actor, NEW p \in Proposal, BeginDistill(a, p), Tally
  PROVE  EvolutionInv'
<1>1. <<>> \in Seq(Edit)
  BY EmptySeq
<1> QED
  BY <1>1, ReadKeeps DEF BeginDistill
(* approve: the review is filed, and in the copy that will be saved.       *)
LEMMA BeginApproveKeeps ==
  ASSUME EvolutionInv, NEW a \in Actor, NEW p \in Proposal,
         NEW decision \in {"approved", "rejected"}, BeginApprove(a, p, decision), Tally
  PROVE  EvolutionInv'
<1>1. /\ TypeOK /\ Rest /\ cmd[a] = None /\ proposal[p] # None
      /\ calls' \in [commands: 0 .. MaxCommands, outside: 0 .. MaxOutside]
  BY InvTypes, BegunTypes DEF BeginApprove
<1>2. PICK f \in File : f = proposal[p]
  BY <1>1, FileAt
<1>3. f.reviews \in Reviews /\ filed[p] \in Reviews /\ f.draft.ticket \in Ticket
  BY <1>1, FileAt, FileFields
<1>4. PICK v \in Review : v = ReviewOf(a, decision)
  BY DEF ReviewOf, Review
<1>5. PICK g \in File : /\ g = [f EXCEPT !.reviews = Append(@, v)]
                        /\ g.draft = f.draft /\ g.reviews = Append(f.reviews, v)
  <2> DEFINE g == [f EXCEPT !.reviews = Append(@, v)]
  <2>1. Append(f.reviews, v) \in Seq(Review)
    BY <1>3, AppendProperties DEF Reviews
  <2>2. g \in File /\ g.draft = f.draft /\ g.reviews = Append(f.reviews, v)
    BY <2>1 DEF File
  <2> QED
    BY <2>2
<1>6. PICK c \in Command : /\ c = New("approve", "save", f.draft.ticket, p, g, <<>>)
                           /\ c.op = "approve" /\ c.at = "save" /\ c.proposal = p /\ c.copy = g
                           /\ c.text = None
  <2>1. /\ <<>> \in Seq(Edit) /\ g \in File \cup {None} /\ p \in Proposal \cup {None}
        /\ "save" \in {"authorize", "write", "check", "scope", "marked", "save", "log"}
        /\ "approve" \in {"do", "approve", "apply", "distill", "policy"}
    BY EmptySeq
  <2>2. PICK t \in Ticket : t = f.draft.ticket
    BY <1>3
  <2>3. PICK ops \in Seq(Edit) : ops = <<>>
    BY <2>1
  <2>4. LET d == New("approve", "save", t, p, g, ops)
        IN  /\ d \in Command /\ d.op = "approve" /\ d.at = "save" /\ d.proposal = p
            /\ d.copy = g /\ d.text = None
    BY <2>1, <2>2, <2>3 DEF New, Command
  <2> QED
    BY <2>2, <2>3, <2>4
<1>7. /\ Advance(a, c) /\ filed' = [filed EXCEPT ![p] = Append(@, v)]
      /\ UNCHANGED <<tree, glock, lock, done, proposal, patch, cooling, evidence>>
  BY <1>2, <1>4, <1>5, <1>6 DEF BeginApprove
<1>8. cmd' \in CmdType /\ cmd'[a] = c /\ Bystanders({a})
  BY <1>1, <1>7, AdvanceDoes DEF tree
<1>9. /\ filed' \in FiledType /\ filed'[p] = Append(filed[p], v)
      /\ \A q \in Proposal \ {p} : filed'[q] = filed[q]
  <2>1. filed \in FiledType /\ Append(filed[p], v) \in Reviews
    BY <1>1, <1>3, AppendProperties DEF Rest, Reviews
  <2> QED
    BY <1>7, <2>1 DEF FiledType
<1>10. Rest'
  BY <1>1, <1>7, <1>9 DEF Rest, evidence, tree
<1>11. Grown
  BY <1>7, <1>9 DEF Grown
<1>12. Embeds(f.reviews, filed[p])
  BY <1>1, <1>2 DEF EvolutionInv, ProposalsOK, ProposalOK
<1>13. RunsOK(a)'
  <2>1. Embeds(g.reviews, filed'[p])
    BY <1>3, <1>5, <1>9, <1>12, EmbedsBoth
  <2>2. Holding(c)'
    <3>1. /\ proposal'[c.proposal] # None /\ c.copy # None /\ c.op # "apply"
          /\ c.copy.draft = proposal'[c.proposal].draft
      <4>1. c.op = "approve" /\ c.copy = g /\ c.proposal = p /\ proposal' = proposal
        BY <1>6, <1>7
      <4>2. g # None
        BY FileFields
      <4> QED
        BY <1>1, <1>2, <1>5, <4>1, <4>2
    <3>2. Embeds(c.copy.reviews, filed'[c.proposal])
      BY <1>6, <2>1
    <3> QED
      BY <3>1, <3>2, HoldingNext
  <2>3. Shape(c) /\ Marked(c)'
    BY <1>6, NoneAssumption DEF Shape, Marked
  <2>4. CommandOK(c)'
    BY <2>2, <2>3 DEF CommandOK, Shape
  <2> QED
    BY <1>8, <2>4, RunsAs
<1>14. ProposalsOK'
  <2>1. ASSUME NEW q \in Proposal, proposal[q] # None
        PROVE  Embeds(proposal[q].reviews, filed'[q])
    <3>1. Embeds(proposal[q].reviews, filed[q])
      BY <2>1 DEF EvolutionInv, ProposalsOK, ProposalOK
    <3> QED
      BY <1>1, <1>11, <2>1, <3>1, FileAt, FileFields, GrownEmbeds
  <2>2. \A q \in Proposal : proposal[q] = None => filed'[q] = <<>>
    BY <1>1, <1>9 DEF EvolutionInv, ProposalsOK, ProposalOK
  <2>3. ASSUME NEW q \in Proposal
        PROVE  /\ proposal'[q] = None => filed'[q] = <<>>
               /\ proposal'[q] # None => Embeds(proposal'[q].reviews, filed'[q])
    BY <1>7, <2>1, <2>2
  <2> QED
    BY <2>3 DEF ProposalsOK, ProposalOK, Embeds
<1>15. ASSUME NEW q \in Proposal, q \notin crossed
       PROVE  /\ \A b \in Actor : Holds(b, q)' /\ cmd'[b].op # "approve" =>
                   cmd'[b].copy.reviews = proposal[q].reviews
              /\ proposal[q] # None /\ (\A b \in Actor : ~Approves(b, q)') =>
                   proposal[q].reviews = filed'[q]
              /\ \A b \in Actor :
                   Approves(b, q)' /\ (\A e \in Actor : Approves(e, q)' => e = b) =>
                     cmd'[b].copy.reviews = filed'[q]
  <2>1. Uncrossed(q)
    BY DEF EvolutionInv, AllUncrossed
  <2>2. ~Approves(a, q) /\ (Approves(a, q)' <=> q = p)
        /\ ~(Holds(a, q)' /\ cmd'[a].op # "approve")
    <3>1. ~Approves(a, q)
      BY <1>1 DEF Holds, Approves
    <3>2. cmd'[a] # None /\ cmd'[a].op = "approve" /\ cmd'[a].proposal = p
      BY <1>6, <1>8, CommandFields
    <3> QED
      BY <3>1, <3>2 DEF Holds, Approves
  <2>3. \A b \in Actor \ {a} :
          /\ Holds(b, q)' <=> Holds(b, q)
          /\ Approves(b, q)' <=> Approves(b, q)
          /\ Holds(b, q) => cmd'[b].op = cmd[b].op /\ cmd'[b].copy = cmd[b].copy
    BY <1>8, BystandersHold
  <2>4. \A b \in Actor : Holds(b, q)' /\ cmd'[b].op # "approve" =>
          cmd'[b].copy.reviews = proposal[q].reviews
    BY <1>15, <2>1, <2>2, <2>3 DEF Uncrossed
  <2>5. CASE q # p
    <3>1. \A b \in Actor : Approves(b, q)' <=> Approves(b, q)
      BY <2>2, <2>3, <2>5
    <3>2. \A b \in Actor : Approves(b, q)' => cmd'[b].copy = cmd[b].copy
      BY <2>2, <2>3, <2>5 DEF Approves
    <3>3. proposal[q] # None /\ (\A b \in Actor : ~Approves(b, q)') =>
            proposal[q].reviews = filed'[q]
      BY <1>9, <1>15, <2>1, <2>5, <3>1 DEF Uncrossed
    <3>4. \A b \in Actor :
            Approves(b, q)' /\ (\A e \in Actor : Approves(e, q)' => e = b) =>
              cmd'[b].copy.reviews = filed'[q]
      BY <1>9, <1>15, <2>1, <2>5, <3>1, <3>2 DEF Uncrossed
    <3> QED
      BY <2>4, <3>3, <3>4
  <2>6. CASE q = p
    <3>1. Approves(a, q)'
      BY <2>2, <2>6
    <3>2. ASSUME NEW b \in Actor, Approves(b, q)', \A e \in Actor : Approves(e, q)' => e = b
          PROVE  cmd'[b].copy.reviews = filed'[q]
      <4>1. b = a
        BY <3>1, <3>2
      <4>2. \A e \in Actor : ~Approves(e, q)
        BY <2>2, <2>3, <3>2, <4>1
      <4>3. proposal[q].reviews = filed[q]
        BY <1>1, <1>15, <2>1, <2>6, <4>2 DEF Uncrossed
      <4> QED
        BY <1>2, <1>5, <1>6, <1>8, <1>9, <2>6, <4>1, <4>3
    <3> QED
      BY <2>4, <3>1, <3>2
  <2> QED
    BY <2>5, <2>6
<1>16. AllUncrossed'
  BY <1>7, <1>15 DEF AllUncrossed, Uncrossed, evidence
<1>17. ~Pending(a)' /\ cmd'[a].at # "write"
  BY <1>6, <1>8 DEF Pending
<1>18. InForce'
  BY <1>7, <1>8, <1>17, CalmKeeps DEF tree, evidence
<1> QED
  BY <1>7, <1>8, <1>10, <1>11, <1>13, <1>14, <1>16, <1>17, <1>18, StepKeeps DEF tree, evidence, RulesStay
(* A proposal is written back from the copy of a command, which ends with  *)
(* it or, when it was applied, goes on to log.  What was crossed before,   *)
(* or is now, stays so; if nobody else held the proposal, the copy has     *)
(* all that is filed.                                                      *)
LEMMA SaveKeeps ==
  ASSUME EvolutionInv, Rest', cmd' \in CmdType, Tally, NEW a \in Actor, Bystanders({a}),
         NEW c, c = cmd[a], c # None, NEW p \in Proposal, p = c.proposal,
         NEW f \in File, f.draft = c.copy.draft, f.reviews = c.copy.reviews, Save(a, p, f),
         UNCHANGED <<constitution, branch, tip, glock, enforced, slipped, filed>>,
         NEW n, n = cmd'[a],
         n = None \/ (c.op = "apply" /\ GoesOn(c, n) /\ n.at = "log")
  PROVE  EvolutionInv'
<1>1. /\ TypeOK /\ Rest /\ c \in Command /\ Shape(c) /\ c.copy \in File
      /\ proposal[p] # None /\ c.copy.draft = proposal[p].draft
      /\ Embeds(c.copy.reviews, filed[p])
      /\ c.op = "apply" => Ready(c.copy)
  BY OwnCommand, CommandFields, NoneAssumption DEF Holding
<1>2. /\ proposal'[p] = f /\ f # None
      /\ \A q \in Proposal \ {p} : proposal'[q] = proposal[q]
  BY <1>1, FileFields DEF Save, Rest, FileType
<1>3. Grown
  BY <1>1, <1>2 DEF Grown
<1>4. ProposalsOK'
  <2>1. ASSUME NEW q \in Proposal
        PROVE  /\ proposal'[q] = None => filed'[q] = <<>>
               /\ proposal'[q] # None => Embeds(proposal'[q].reviews, filed'[q])
    <3>1. CASE q = p
      BY <1>1, <1>2, <3>1
    <3>2. CASE q # p
      BY <1>2, <3>2 DEF EvolutionInv, ProposalsOK, ProposalOK
    <3> QED
      BY <3>1, <3>2
  <2> QED
    BY <2>1 DEF ProposalsOK, ProposalOK, Embeds
<1>5. RunsOK(a)'
  <2>1. CASE n = None
    BY <2>1 DEF RunsOK
  <2>2. CASE n # None
    <3>1. /\ n \in Command /\ n.op = "apply" /\ n.at = "log" /\ n.proposal = p
          /\ n.copy = c.copy /\ c.op = "apply"
      BY <2>2 DEF GoesOn
    <3>2. Shape(n) /\ Marked(n)'
      BY <3>1, NoneAssumption DEF Shape, Marked
    <3>3. /\ proposal'[n.proposal] # None /\ n.copy # None
          /\ n.copy.draft = proposal'[n.proposal].draft /\ Ready(n.copy)
      BY <1>1, <1>2, <3>1, FileFields
    <3>4. Embeds(n.copy.reviews, filed'[n.proposal])
      BY <1>1, <3>1
    <3>5. Holding(n)'
      BY <3>3, <3>4, HoldingNext
    <3>6. CommandOK(n)'
      BY <3>2, <3>5 DEF CommandOK, Shape
    <3> QED
      BY <3>6, RunsAs
  <2> QED
    BY <2>1, <2>2
<1>6. n # None => n.op = c.op /\ n.op # "approve" /\ n.proposal = p /\ n.copy = c.copy
                  /\ n.at = "log"
  BY DEF GoesOn
<1>7. crossed' = IF \E b \in Actor \ {a} : Holds(b, p) THEN crossed \cup {p} ELSE crossed
  BY DEF Save, Holders, Holds
<1>8. ASSUME NEW q \in Proposal, q \notin crossed'
      PROVE  /\ \A b \in Actor : Holds(b, q)' /\ cmd'[b].op # "approve" =>
                  cmd'[b].copy.reviews = proposal'[q].reviews
             /\ proposal'[q] # None /\ (\A b \in Actor : ~Approves(b, q)') =>
                  proposal'[q].reviews = filed[q]
             /\ \A b \in Actor :
                  Approves(b, q)' /\ (\A e \in Actor : Approves(e, q)' => e = b) =>
                    cmd'[b].copy.reviews = filed[q]
  <2>1. q \notin crossed /\ Uncrossed(q)
    BY <1>7, <1>8 DEF EvolutionInv, AllUncrossed
  <2>2. \A b \in Actor \ {a} :
          /\ Holds(b, q)' <=> Holds(b, q)
          /\ Approves(b, q)' <=> Approves(b, q)
          /\ Holds(b, q) => cmd'[b].op = cmd[b].op /\ cmd'[b].copy = cmd[b].copy
    BY BystandersHold
  <2>3. ~Approves(a, q)' /\ (Holds(a, q)' => q = p /\ cmd'[a].copy = c.copy)
    BY <1>6 DEF Holds, Approves
  <2>4. CASE q # p
    <3>1. ~Holds(a, q) /\ ~Approves(a, q) /\ ~Holds(a, q)' /\ proposal'[q] = proposal[q]
      BY <1>2, <2>3, <2>4 DEF Holds, Approves
    <3>2. \A b \in Actor : Approves(b, q)' <=> Approves(b, q)
      BY <2>2, <2>3, <3>1
    <3>3. \A b \in Actor : Approves(b, q) => cmd'[b].copy = cmd[b].copy
      BY <2>2, <3>1 DEF Approves
    <3>4. \A b \in Actor : Holds(b, q)' /\ cmd'[b].op # "approve" =>
            cmd'[b].copy.reviews = proposal'[q].reviews
      BY <2>1, <2>2, <3>1 DEF Uncrossed
    <3>5. proposal'[q] # None /\ (\A b \in Actor : ~Approves(b, q)') =>
            proposal'[q].reviews = filed[q]
      BY <2>1, <3>1, <3>2 DEF Uncrossed
    <3>6. \A b \in Actor :
            Approves(b, q)' /\ (\A e \in Actor : Approves(e, q)' => e = b) =>
              cmd'[b].copy.reviews = filed[q]
      BY <2>1, <3>2, <3>3 DEF Uncrossed
    <3> QED
      BY <3>4, <3>5, <3>6
  <2>5. CASE q = p
    <3>1. \A b \in Actor \ {a} : ~Holds(b, p)
      BY <1>7, <1>8, <2>5
    <3>2. \A b \in Actor \ {a} : ~Holds(b, p)' /\ ~Approves(b, p) /\ ~Approves(b, p)'
      BY <2>2, <2>5, <3>1 DEF Approves
    <3>3. \A b \in Actor : ~Approves(b, p)'
      BY <2>3, <2>5, <3>2
    <3>4. Holds(a, p) /\ (Approves(a, p) <=> c.op = "approve")
      BY DEF Holds, Approves
    <3>5. c.copy.reviews = filed[p]
      <4>1. CASE c.op = "approve"
        BY <2>1, <2>5, <3>2, <3>4, <4>1 DEF Uncrossed
      <4>2. CASE c.op # "approve"
        <5>1. c.copy.reviews = proposal[p].reviews
          BY <2>1, <2>5, <3>4, <4>2 DEF Uncrossed
        <5>2. \A b \in Actor : ~Approves(b, p)
          BY <3>2, <3>4, <4>2
        <5> QED
          BY <1>1, <2>1, <2>5, <5>1, <5>2 DEF Uncrossed
      <4> QED
        BY <4>1, <4>2
    <3>6. \A b \in Actor : Holds(b, p)' => cmd'[b].copy = c.copy
      BY <2>3, <2>5, <3>2
    <3> QED
      BY <1>2, <2>5, <3>3, <3>5, <3>6
  <2> QED
    BY <2>4, <2>5
<1>9. AllUncrossed'
  BY <1>8 DEF AllUncrossed, Uncrossed
<1>10. ~Pending(a)' /\ (cmd'[a] # None => cmd'[a].at # "write")
  BY <1>6 DEF Pending
<1>11. InForce'
  BY <1>10, CalmKeeps
<1> QED
  BY <1>3, <1>4, <1>5, <1>9, <1>10, <1>11, StepKeeps DEF RulesStay

(* What Save does to the types of the variables it writes.                 *)
LEMMA SaveTypes ==
  ASSUME Rest, NEW a \in Actor, NEW p \in Proposal, NEW f \in File, Save(a, p, f)
  PROVE  proposal' \in FileType /\ crossed' \subseteq Proposal
BY DEF Rest, FileType, Save

(* Saving a review keeps the invariant.                                    *)
LEMMA SaveReviewKeeps ==
  ASSUME EvolutionInv, NEW a \in Actor, SaveReview(a), Tally
  PROVE  EvolutionInv'
<1>1. PICK c : c = cmd[a]
  OBVIOUS
<1>2. /\ TypeOK /\ Rest /\ c \in Command /\ Shape(c) /\ Holding(c) /\ c # None
      /\ c.op = "approve"
  BY <1>1, OwnCommand DEF SaveReview, At
<1>3. c.proposal \in Proposal /\ c.copy \in File
  BY <1>2, CommandFields DEF Shape, Holding
<1>4. PICK f \in File : /\ f = ReviewedStatus(c.copy)
                        /\ f.draft = c.copy.draft /\ f.reviews = c.copy.reviews
  <2> DEFINE f == ReviewedStatus(c.copy)
  <2>1. f \in File /\ f.draft = c.copy.draft /\ f.reviews = c.copy.reviews
    BY <1>3 DEF ReviewedStatus, File
  <2> QED
    BY <2>1
<1>5. /\ Save(a, c.proposal, f) /\ Advance(a, None)
      /\ UNCHANGED <<tree, glock, lock, done, patch, cooling, filed, enforced, slipped, calls>>
  BY <1>1, <1>4 DEF SaveReview
<1>6. cmd' \in CmdType /\ cmd'[a] = None /\ Bystanders({a})
  BY <1>2, <1>5, AdvanceDoes DEF tree
<1>7. proposal' \in FileType /\ crossed' \subseteq Proposal
  BY <1>2, <1>3, <1>5, SaveTypes
<1>8. Rest'
  BY <1>2, <1>5, <1>7 DEF Rest, tree
<1> QED
  BY <1>1, <1>2, <1>3, <1>4, <1>5, <1>6, <1>8, SaveKeeps DEF tree

(* Saving a distilled proposal keeps the invariant.                        *)
LEMMA SaveDistilledKeeps ==
  ASSUME EvolutionInv, NEW a \in Actor, SaveDistilled(a), Tally
  PROVE  EvolutionInv'
<1>1. PICK c : c = cmd[a]
  OBVIOUS
<1>2. /\ TypeOK /\ Rest /\ c \in Command /\ Shape(c) /\ Holding(c) /\ c # None
      /\ c.op = "distill"
  BY <1>1, OwnCommand DEF SaveDistilled, At
<1>3. c.proposal \in Proposal /\ c.copy \in File
  BY <1>2, CommandFields DEF Shape, Holding
<1>4. /\ Save(a, c.proposal, c.copy) /\ Advance(a, None)
      /\ UNCHANGED <<tree, glock, lock, done, patch, cooling, filed, enforced, slipped, calls>>
  BY <1>1 DEF SaveDistilled
<1>5. cmd' \in CmdType /\ cmd'[a] = None /\ Bystanders({a})
  BY <1>2, <1>4, AdvanceDoes DEF tree
<1>6. proposal' \in FileType /\ crossed' \subseteq Proposal
  BY <1>2, <1>3, <1>4, SaveTypes
<1>7. Rest'
  BY <1>2, <1>4, <1>6 DEF Rest, tree
<1> QED
  BY <1>1, <1>2, <1>3, <1>4, <1>5, <1>7, SaveKeeps DEF tree

(* Saving an applied proposal keeps the invariant.                         *)
LEMMA SaveAppliedKeeps ==
  ASSUME EvolutionInv, NEW a \in Actor, SaveApplied(a), Tally
  PROVE  EvolutionInv'
<1>1. PICK c : c = cmd[a]
  OBVIOUS
<1>2. /\ TypeOK /\ Rest /\ c \in Command /\ Shape(c) /\ Holding(c) /\ c # None
      /\ c.op = "apply"
  BY <1>1, OwnCommand DEF SaveApplied
<1>3. c.proposal \in Proposal /\ c.copy \in File
  BY <1>2, CommandFields DEF Shape, Holding
<1>4. PICK f \in File : /\ f = [c.copy EXCEPT !.status = "applied"]
                        /\ f.draft = c.copy.draft /\ f.reviews = c.copy.reviews
  <2> DEFINE f == [c.copy EXCEPT !.status = "applied"]
  <2>1. f \in File /\ f.draft = c.copy.draft /\ f.reviews = c.copy.reviews
    BY <1>3 DEF File
  <2> QED
    BY <2>1
<1>5. PICK n \in Command : /\ n = [c EXCEPT !.at = "log"] /\ n.at = "log"
                           /\ n.op = c.op /\ n.proposal = c.proposal /\ n.copy = c.copy
  <2> DEFINE n == [c EXCEPT !.at = "log"]
  <2>1. n \in Command /\ n.at = "log" /\ n.op = c.op /\ n.proposal = c.proposal /\ n.copy = c.copy
    BY <1>2 DEF Command
  <2> QED
    BY <2>1
<1>6. /\ Save(a, c.proposal, f) /\ Advance(a, n)
      /\ UNCHANGED <<tree, glock, lock, done, patch, cooling, filed, enforced, slipped, calls>>
  BY <1>1, <1>4, <1>5 DEF SaveApplied
<1>7. cmd' \in CmdType /\ cmd'[a] = n /\ Bystanders({a})
  BY <1>2, <1>6, AdvanceDoes DEF tree
<1>8. proposal' \in FileType /\ crossed' \subseteq Proposal
  BY <1>2, <1>3, <1>6, SaveTypes
<1>9. Rest'
  BY <1>2, <1>6, <1>8 DEF Rest, tree
<1>10. c.op = "apply" /\ GoesOn(c, n) /\ n.at = "log"
  BY <1>2, <1>5 DEF GoesOn
<1>11. UNCHANGED <<constitution, branch, tip, glock, enforced, slipped, filed>>
  BY <1>6 DEF tree
<1> QED
  BY <1>1, <1>2, <1>3, <1>4, <1>6, <1>7, <1>9, <1>10, <1>11, SaveKeeps
(* A command is cut off; a review of an approval may be lost with it.      *)
LEMMA StopKeeps ==
  ASSUME EvolutionInv, NEW a \in Actor, Stop(a), Tally
  PROVE  EvolutionInv'
<1>1. PICK c : c = cmd[a]
  OBVIOUS
<1>2. /\ TypeOK /\ Rest /\ c \in Command /\ Shape(c) /\ c # None
      /\ Advance(a, None)
      /\ UNCHANGED <<tree, glock, lock, done, proposal, patch, cooling, filed, enforced,
                     slipped, calls>>
  BY <1>1, OwnCommand DEF Stop
<1>3. cmd' \in CmdType /\ cmd'[a] = None /\ Bystanders({a})
  BY <1>2, AdvanceDoes DEF tree
<1>4. InForce'
  BY <1>2, <1>3, CalmKeeps DEF tree, Pending
<1>5. CASE c.op # "approve"
  <2>1. crossed' = crossed
    BY <1>1, <1>5 DEF Stop
  <2>2. Rest'
    BY <1>2, <2>1 DEF Rest, tree
  <2> QED
    BY <1>1, <1>2, <1>3, <1>4, <1>5, <2>1, <2>2, EndKeeps DEF tree
<1>6. CASE c.op = "approve"
  <2>1. PICK p \in Proposal : p = c.proposal
    BY <1>2, <1>6, CommandFields DEF Shape
  <2>2. crossed' = crossed \cup {p}
    BY <1>1, <1>6, <2>1 DEF Stop
  <2>3. Rest'
    BY <1>2, <2>2 DEF Rest, tree
  <2>4. Grown
    BY <1>2 DEF Grown
  <2>5. ProposalsOK'
    BY <1>2 DEF EvolutionInv, ProposalsOK, ProposalOK, Embeds
  <2>6. RunsOK(a)'
    BY <1>3 DEF RunsOK
  <2>7. ASSUME NEW q \in Proposal, q \notin crossed'
        PROVE  /\ \A b \in Actor : Holds(b, q)' /\ cmd'[b].op # "approve" =>
                    cmd'[b].copy.reviews = proposal[q].reviews
               /\ proposal[q] # None /\ (\A b \in Actor : ~Approves(b, q)') =>
                    proposal[q].reviews = filed[q]
               /\ \A b \in Actor :
                    Approves(b, q)' /\ (\A e \in Actor : Approves(e, q)' => e = b) =>
                      cmd'[b].copy.reviews = filed[q]
    <3>1. q \notin crossed /\ q # p /\ Uncrossed(q)
      BY <2>2, <2>7 DEF EvolutionInv, AllUncrossed
    <3>2. ~Holds(a, q) /\ ~Holds(a, q)' /\ ~Approves(a, q) /\ ~Approves(a, q)'
      BY <1>1, <1>3, <2>1, <3>1 DEF Holds, Approves
    <3>3. \A b \in Actor :
            /\ Holds(b, q)' <=> Holds(b, q)
            /\ Approves(b, q)' <=> Approves(b, q)
            /\ Holds(b, q) => cmd'[b].op = cmd[b].op /\ cmd'[b].copy = cmd[b].copy
      BY <1>3, <3>2, BystandersHold
    <3>4. \A b \in Actor : Approves(b, q) => cmd'[b].copy = cmd[b].copy
      BY <3>3 DEF Approves
    <3> QED
      BY <3>1, <3>3, <3>4 DEF Uncrossed
  <2>8. AllUncrossed'
    BY <1>2, <2>7 DEF AllUncrossed, Uncrossed
  <2> QED
    BY <1>2, <1>3, <1>4, <2>3, <2>4, <2>5, <2>6, <2>8, StepKeeps DEF tree, RulesStay
<1> QED
  BY <1>5, <1>6

(* A step of nobody's command that leaves the proposals as they are.       *)
LEMMA NobodyKeeps ==
  ASSUME EvolutionInv, Rest', cmd' \in CmdType, Tally, Bystanders({}),
         UNCHANGED <<proposal, filed, crossed>>, RulesStay,
         TipsOK' \/ UNCHANGED <<branch, tip>>, InForce'
  PROVE  EvolutionInv'
<1>1. PICK S \in SUBSET Actor : S = {}
  OBVIOUS
<1> QED
  BY <1>1, AsideKeeps DEF RulesStay

(* Building governance by hand keeps the invariant.                        *)
LEMMA BuildGovernanceKeeps ==
  ASSUME EvolutionInv, BuildGovernance, Tally
  PROVE  EvolutionInv'
<1>1. /\ TypeOK /\ Rest /\ Imposed /\ DisturbAll
      /\ UNCHANGED <<tree, lock, done, proposal, patch, cooling, filed, crossed, calls>>
  BY InvTypes DEF BuildGovernance
<1>2. cmd' \in CmdType /\ Bystanders({})
  BY <1>1, DisturbAllDoes
<1>3. Rest'
  BY <1>1, ImposedTypes DEF Rest, tree
<1>4. InForce'
  <2>1. PICK S \in SUBSET Actor : S = {}
    OBVIOUS
  <2> QED
    BY <1>1, <1>2, <2>1, ImposedForce DEF tree
<1> QED
  BY <1>1, <1>2, <1>3, <1>4, NobodyKeeps DEF Imposed, tree, RulesStay

(* The same, when the policy and what is in force stay as they are.        *)
LEMMA QuietKeeps ==
  ASSUME EvolutionInv, Rest', cmd' \in CmdType, Tally, Bystanders({}),
         UNCHANGED <<constitution, branch, tip, glock, proposal, filed, evidence>>
  PROVE  EvolutionInv'
<1>1. PICK S \in SUBSET Actor : S = {}
  OBVIOUS
<1>2. InForce'
  BY <1>1, CalmKeeps DEF evidence
<1> QED
  BY <1>2, NobodyKeeps DEF evidence, RulesStay

(* The end of a cooldown keeps the invariant.                              *)
LEMMA CooldownOverKeeps ==
  ASSUME EvolutionInv, CooldownOver, Tally
  PROVE  EvolutionInv'
<1>1. /\ TypeOK /\ Rest /\ cooling' = FALSE
      /\ UNCHANGED <<tree, glock, lock, done, proposal, patch, cmd, filed, evidence, calls>>
  BY InvTypes DEF CooldownOver
<1>2. cmd' \in CmdType /\ Bystanders({})
  BY <1>1, NobodyDoes DEF tree
<1>3. Rest'
  BY <1>1 DEF Rest, tree, evidence
<1> QED
  BY <1>1, <1>2, <1>3, QuietKeeps DEF tree

(* A ticket lock that changes hands keeps the invariant.                   *)
LEMMA RelockKeeps ==
  ASSUME EvolutionInv, NEW t \in Ticket \cup {None}, Relock(t), Tally
  PROVE  EvolutionInv'
<1>1. /\ TypeOK /\ Rest /\ lock' = t /\ DisturbAll
      /\ calls' \in [commands: 0 .. MaxCommands, outside: 0 .. MaxOutside]
      /\ UNCHANGED <<tree, glock, done, proposal, patch, cooling, filed, evidence>>
  BY InvTypes, OutsideTypes DEF Relock
<1>2. cmd' \in CmdType /\ Bystanders({})
  BY <1>1, DisturbAllDoes
<1>3. Rest'
  BY <1>1 DEF Rest, tree, evidence
<1> QED
  BY <1>1, <1>2, <1>3, QuietKeeps DEF tree

(* An edit by hand keeps the invariant.                                    *)
LEMMA EditByHandKeeps ==
  ASSUME EvolutionInv, NEW path \in Path, NEW text \in Text, EditByHand(path, text), Tally
  PROVE  EvolutionInv'
<1>1. /\ TypeOK /\ Rest /\ DisturbAll /\ dirty' = dirty \cup {path} /\ slipped' = TRUE
      /\ constitution' \in {text, constitution}
      /\ calls' \in [commands: 0 .. MaxCommands, outside: 0 .. MaxOutside]
      /\ UNCHANGED <<branch, tip, glock, lock, done, proposal, patch, cooling, filed,
                     crossed, enforced>>
  BY InvTypes, OutsideTypes DEF EditByHand
<1>2. cmd' \in CmdType /\ Bystanders({})
  BY <1>1, DisturbAllDoes
<1>3. Rest'
  BY <1>1 DEF Rest
<1>4. InForce'
  BY <1>1 DEF InForce
<1> QED
  BY <1>1, <1>2, <1>3, <1>4, NobodyKeeps DEF RulesStay

(* An edited patch keeps the invariant.                                    *)
LEMMA EditPatchKeeps ==
  ASSUME EvolutionInv, NEW p \in Proposal, NEW ops \in PatchList, EditPatch(p, ops), Tally
  PROVE  EvolutionInv'
<1>1. /\ TypeOK /\ Rest /\ patch' = [patch EXCEPT ![p] = ops]
      /\ calls' \in [commands: 0 .. MaxCommands, outside: 0 .. MaxOutside]
      /\ UNCHANGED <<tree, glock, lock, done, proposal, cooling, cmd, filed, evidence>>
  BY InvTypes, OutsideTypes DEF EditPatch
<1>2. cmd' \in CmdType /\ Bystanders({})
  BY <1>1, NobodyDoes DEF tree
<1>3. Rest'
  BY <1>1 DEF Rest, tree, evidence
<1> QED
  BY <1>1, <1>2, <1>3, QuietKeeps DEF tree

(* What a commit of the working tree holds has its types.                  *)
LEMMA SnapshotTyped ==
  ASSUME Rest
  PROVE  /\ Snapshot \in Commit /\ Snapshot # None
         /\ Snapshot.enforced = enforced /\ Snapshot.glock = glock
BY NoneAssumption DEF Rest, Snapshot, Commit

(* A commit keeps the invariant.                                           *)
LEMMA GitCommitKeeps ==
  ASSUME EvolutionInv, GitCommit, Tally
  PROVE  EvolutionInv'
<1>1. /\ TypeOK /\ Rest /\ DisturbAll /\ dirty' = {}
      /\ tip' = [tip EXCEPT ![branch] = Snapshot]
      /\ calls' \in [commands: 0 .. MaxCommands, outside: 0 .. MaxOutside]
      /\ UNCHANGED <<constitution, branch, glock, lock, done, proposal, patch, cooling, filed,
                     evidence>>
  BY InvTypes, OutsideTypes DEF GitCommit
<1>2. cmd' \in CmdType /\ Bystanders({})
  BY <1>1, DisturbAllDoes
<1>3. PICK commit \in Commit : /\ commit = Snapshot /\ commit # None
                              /\ commit.enforced = enforced /\ commit.glock = glock
  BY <1>1, SnapshotTyped
<1>4. /\ branch \in Branch /\ tip' \in [Branch -> Commit \cup {None}]
      /\ \A b \in Branch : tip'[b] = IF b = branch THEN commit ELSE tip[b]
  BY <1>1, <1>3 DEF Rest
<1>5. Rest'
  BY <1>1, <1>4 DEF Rest, evidence
<1>6. RulesStay
  BY <1>1, <1>3, <1>4 DEF RulesStay, Recalled, Known, evidence
<1>7. TipsOK'
  BY <1>1, <1>3, <1>4 DEF EvolutionInv, TipsOK, Branch
<1>8. InForce'
  <2> SUFFICES ASSUME ~slipped
               PROVE  InForce'
    BY <1>1 DEF InForce, evidence
  <2>1. \A b \in Branch : tip'[b] # None /\ tip'[b].enforced # None =>
          tip'[b].glock = tip'[b].enforced.text
    BY <1>3, <1>4 DEF EvolutionInv, InForce
  <2>2. \A b \in Actor : /\ Pending(b)' <=> Pending(b)
                         /\ Pending(b) => cmd'[b].text = cmd[b].text
    BY <1>2, BystandersPend
  <2> QED
    BY <1>1, <2>1, <2>2 DEF EvolutionInv, InForce, evidence
<1> QED
  BY <1>1, <1>2, <1>5, <1>6, <1>7, <1>8, NobodyKeeps DEF evidence

(* A checkout brings back what was committed, with types and reviews.      *)
LEMMA CheckoutDoes ==
  ASSUME EvolutionInv, NEW b \in Branch, tip[b] # None, Checkout(tip[b])
  PROVE  /\ constitution' \in Text /\ glock' \in Text \cup {NoLock} /\ dirty' = {}
         /\ enforced' \in Applied \cup {None} /\ done' \subseteq Ticket
         /\ Known(enforced')
         /\ ~slipped /\ enforced' # None => glock' = enforced'.text
<1>1. PICK commit \in Commit : /\ commit = tip[b] /\ commit.text \in Text
                              /\ commit.glock \in Text \cup {NoLock}
                              /\ commit.enforced \in Applied \cup {None}
                              /\ commit.done \subseteq Ticket
  BY InvTypes, TipAt
<1>2. /\ constitution' = commit.text /\ glock' = commit.glock /\ dirty' = {}
      /\ enforced' = commit.enforced /\ done' = commit.done \cup (done \ tip[branch].done)
  BY <1>1 DEF Checkout
<1>3. Known(enforced')
  BY <1>1, <1>2 DEF Known
<1>4. ~slipped /\ enforced' # None => glock' = enforced'.text
  BY <1>1, <1>2 DEF EvolutionInv, InForce
<1> QED
  BY <1>1, <1>2, <1>3, <1>4, InvTypes DEF Rest

(* So it keeps the policy reviewed when no apply is halfway.               *)
LEMMA CheckoutForce ==
  ASSUME EvolutionInv, NEW S \in SUBSET Actor, Bystanders(S), slipped => slipped',
         ~slipped' => \A b \in Actor : ~Pending(b),
         \A b \in S : ~Pending(b)', enforced' # None /\ ~slipped' => glock' = enforced'.text,
         \A b \in Branch : tip'[b] # None => \E d \in Branch : tip[d] # None /\ tip'[b] = tip[d]
  PROVE  InForce'
<1> SUFFICES ASSUME ~slipped'
             PROVE  /\ enforced' # None => glock' = enforced'.text
                    /\ \A b \in Branch : tip'[b] # None /\ tip'[b].enforced # None =>
                         tip'[b].glock = tip'[b].enforced.text
                    /\ \A b \in Actor : ~Pending(b)'
  BY DEF InForce
<1>1. \A b \in Actor : ~Pending(b)'
  BY BystandersPend
<1>2. \A d \in Branch : tip[d] # None /\ tip[d].enforced # None =>
        tip[d].glock = tip[d].enforced.text
  BY DEF EvolutionInv, InForce
<1> QED
  BY <1>1, <1>2

(* Beginning a do keeps the invariant, whatever branch it checks out: with *)
(* authority nobody is halfway in an apply.                                *)
LEMMA BeginDoKeeps ==
  ASSUME EvolutionInv, NEW a \in Actor, NEW t \in Ticket, NEW ops \in PatchList \cup {<<>>},
         BeginDo(a, t, ops), Tally
  PROVE  EvolutionInv'
<1>1. /\ TypeOK /\ Rest /\ cmd[a] = None /\ Authority(t) /\ t \in Branch /\ Main \in Branch
      /\ calls' \in [commands: 0 .. MaxCommands, outside: 0 .. MaxOutside]
  BY InvTypes, BegunTypes DEF BeginDo, Branch
<1>2. First(ops) \in {"check", "authorize"} /\ (First(ops) = "authorize" => ops # <<>>)
  BY DEF First
<1>3. PICK c \in Command : /\ c = New("do", First(ops), t, None, None, ops)
                           /\ c.op = "do" /\ c.at = First(ops) /\ c.proposal = None /\ c.ops = ops
                           /\ c.text = None
  <2>1. /\ ops \in Seq(Edit)
        /\ First(ops) \in {"authorize", "write", "check", "scope", "marked", "save", "log"}
    BY <1>2, PatchesTyped
  <2>2. PICK step \in {"authorize", "write", "check", "scope", "marked", "save", "log"} :
          step = First(ops)
    BY <2>1
  <2>3. LET d == New("do", step, t, None, None, ops)
        IN  /\ d \in Command /\ d.op = "do" /\ d.at = step /\ d.proposal = None
            /\ d.ops = ops /\ d.text = None
    BY <2>1, <2>2 DEF New, Command
  <2> QED
    BY <2>2, <2>3
<1>4. PICK next \in {c, None} : next = IF Previewed(t, ops)' THEN c ELSE None
  OBVIOUS
<1>5. PICK b \in Branch : b = (IF tip[t] = None THEN Main ELSE t) /\ tip[b] # None
  BY <1>1 DEF EvolutionInv, TipsOK
<1>6. /\ branch' = t /\ UNCHANGED <<lock, proposal, patch, cooling, filed, crossed, slipped>>
      /\ \/ /\ branch = t /\ UNCHANGED <<constitution, glock, enforced, done, dirty, tip>>
            /\ Advance(a, next)
         \/ Checkout(tip[b]) /\ tip' = [tip EXCEPT ![t] = tip[b]] /\ Disturb(a, next)
  BY <1>3, <1>4, <1>5 DEF BeginDo
<1>7. next \in Command \cup {None}
  OBVIOUS
<1>8. cmd' \in CmdType /\ cmd'[a] = next /\ Bystanders({a})
  BY <1>1, <1>6, <1>7, AdvanceDoes, DisturbDoes
<1>9. ~Pending(a)' /\ (cmd'[a] # None => cmd'[a].at # "write")
  BY <1>2, <1>3, <1>8 DEF Pending
<1>10. RunsOK(a)'
  <2>1. CommandOK(c)'
    BY <1>2, <1>3 DEF CommandOK, Shape, Holding, Marked
  <2> QED
    BY <1>8, <2>1, RunsAs
<1>11. \A p \in Proposal : ~Holds(a, p)' /\ ~Approves(a, p)
  BY <1>1, <1>3, <1>8, NoneAssumption DEF Holds, Approves
<1>12. Rest' /\ RulesStay /\ TipsOK' /\ InForce'
  <2>1. CASE branch = t /\ UNCHANGED <<constitution, glock, enforced, done, dirty, tip>>
    <3>1. Rest'
      BY <1>1, <1>6, <2>1 DEF Rest
    <3>2. RulesStay /\ TipsOK'
      BY <1>6, <2>1 DEF EvolutionInv, RulesStay, TipsOK
    <3> QED
      BY <1>6, <1>8, <1>9, <2>1, <3>1, <3>2, CalmKeeps
  <2>2. CASE Checkout(tip[b]) /\ tip' = [tip EXCEPT ![t] = tip[b]]
    <3>1. /\ constitution' \in Text /\ glock' \in Text \cup {NoLock} /\ dirty' = {}
          /\ enforced' \in Applied \cup {None} /\ done' \subseteq Ticket /\ Known(enforced')
          /\ ~slipped /\ enforced' # None => glock' = enforced'.text
      BY <2>2, <1>5, CheckoutDoes
    <3>2. /\ tip' \in [Branch -> Commit \cup {None}]
          /\ \A d \in Branch : tip'[d] = IF d = t THEN tip[b] ELSE tip[d]
      BY <1>1, <2>2 DEF Rest
    <3>3. Rest'
      BY <1>1, <1>6, <3>1, <3>2 DEF Rest
    <3>4. RulesStay
      BY <1>5, <3>1, <3>2 DEF RulesStay, Recalled, Known
    <3>5. TipsOK'
      BY <1>1, <1>5, <1>6, <3>2 DEF EvolutionInv, TipsOK
    <3>6. ~slipped => \A d \in Actor : ~Pending(d)
      BY <1>1 DEF EvolutionInv, InForce, Authority, Intact
    <3>7. \A d \in Branch : tip'[d] # None => \E e \in Branch : tip[e] # None /\ tip'[d] = tip[e]
      BY <1>5, <3>2
    <3>8. InForce'
      BY <1>6, <1>8, <1>9, <3>1, <3>6, <3>7, CheckoutForce
    <3> QED
      BY <3>3, <3>4, <3>5, <3>8
  <2> QED
    BY <1>6, <2>1, <2>2
<1> QED
  BY <1>6, <1>8, <1>9, <1>10, <1>11, <1>12, AsideKeeps

(* A checkout by hand keeps the invariant.                                 *)
LEMMA GitCheckoutKeeps ==
  ASSUME EvolutionInv, NEW b \in Branch, GitCheckout(b), Tally
  PROVE  EvolutionInv'
<1>1. /\ TypeOK /\ Rest /\ DisturbAll /\ branch' = b /\ tip[b] # None /\ Checkout(tip[b])
      /\ slipped' = (slipped \/ Applying)
      /\ calls' \in [commands: 0 .. MaxCommands, outside: 0 .. MaxOutside]
      /\ UNCHANGED <<tip, lock, proposal, patch, cooling, filed, crossed>>
  BY InvTypes, OutsideTypes DEF GitCheckout
<1>2. cmd' \in CmdType /\ Bystanders({})
  BY <1>1, DisturbAllDoes
<1>3. /\ constitution' \in Text /\ glock' \in Text \cup {NoLock} /\ dirty' = {}
      /\ enforced' \in Applied \cup {None} /\ done' \subseteq Ticket /\ Known(enforced')
      /\ ~slipped /\ enforced' # None => glock' = enforced'.text
  BY <1>1, CheckoutDoes
<1>4. Rest'
  <2>1. slipped' \in BOOLEAN
    BY <1>1
  <2> QED
    BY <1>1, <1>3, <2>1 DEF Rest
<1>5. RulesStay
  BY <1>1, <1>3 DEF RulesStay, Recalled, Known
<1>6. TipsOK'
  BY <1>1 DEF EvolutionInv, TipsOK
<1>7. InForce'
  <2>1. /\ slipped => slipped'
        /\ ~slipped' => ~slipped /\ \A d \in Actor : ~Pending(d)
    BY <1>1 DEF Applying, Pending
  <2>2. PICK S \in SUBSET Actor : S = {}
    OBVIOUS
  <2> QED
    BY <1>1, <1>2, <1>3, <2>1, <2>2, CheckoutForce
<1> QED
  BY <1>1, <1>2, <1>4, <1>5, <1>6, <1>7, NobodyKeeps

(* A proposal is new: no command holds it, and no review is filed for it.  *)
LEMMA ProposeKeeps ==
  ASSUME EvolutionInv, NEW p \in Proposal, NEW draft \in Drafts, NEW ops \in PatchList,
         Propose(p, draft, ops), Tally
  PROVE  EvolutionInv'
<1>1. /\ TypeOK /\ Rest /\ proposal[p] = None
      /\ UNCHANGED <<tree, glock, lock, done, cooling, cmd, filed, evidence, calls>>
  BY InvTypes DEF Propose
<1>2. PICK f \in File : /\ f = [draft |-> draft, status |-> "draft", reviews |-> <<>>]
                        /\ f.reviews = <<>>
  <2> DEFINE f == [draft |-> draft, status |-> "draft", reviews |-> <<>>]
  <2>1. <<>> \in Seq(Review)
    BY EmptySeq
  <2>2. f \in File
    BY <2>1 DEF File
  <2>3. f.reviews = <<>>
    OBVIOUS
  <2> HIDE DEF f
  <2>4. f = [draft |-> draft, status |-> "draft", reviews |-> <<>>]
    BY DEF f
  <2> QED
    BY <2>2, <2>3, <2>4
<1>3. /\ proposal' \in FileType /\ proposal'[p] = f /\ f # None
      /\ \A q \in Proposal \ {p} : proposal'[q] = proposal[q]
      /\ patch' \in [Proposal -> PatchList \cup {<<>>}]
  BY <1>1, <1>2, FileFields DEF Propose, Rest, FileType
<1>4. cmd' \in CmdType /\ Bystanders({})
  BY <1>1, NobodyDoes DEF tree
<1>5. Rest'
  BY <1>1, <1>3 DEF Rest, tree, evidence
<1>6. Grown
  BY <1>1, <1>3 DEF Grown
<1>7. filed[p] = <<>> /\ Embeds(f.reviews, filed[p])
  <2>1. filed[p] = <<>>
    BY <1>1 DEF EvolutionInv, ProposalsOK, ProposalOK
  <2> QED
    BY <1>1, <1>2, <2>1, FileAt, EmbedsSelf
<1>8. \A b \in Actor : ~Holds(b, p)
  <2>1. ASSUME NEW b \in Actor, Holds(b, p) PROVE FALSE
    <3>1. cmd[b] # None /\ cmd[b].proposal = p /\ Holding(cmd[b])
      BY <2>1, OwnCommand DEF Holds
    <3> QED
      BY <1>1, <3>1, NoneAssumption DEF Holding
  <2> QED
    BY <2>1
<1>9. ProposalsOK'
  <2>1. ASSUME NEW q \in Proposal
        PROVE  /\ proposal'[q] = None => filed'[q] = <<>>
               /\ proposal'[q] # None => Embeds(proposal'[q].reviews, filed'[q])
    <3>1. CASE q = p
      BY <1>1, <1>3, <1>7, <3>1
    <3>2. CASE q # p
      BY <1>1, <1>3, <3>2 DEF EvolutionInv, ProposalsOK, ProposalOK
    <3> QED
      BY <3>1, <3>2
  <2> QED
    BY <2>1 DEF ProposalsOK, ProposalOK, Embeds
<1>10. AllUncrossed'
  <2>1. ASSUME NEW q \in Proposal, q \notin crossed
        PROVE  /\ \A b \in Actor : Holds(b, q) /\ cmd[b].op # "approve" =>
                    cmd[b].copy.reviews = proposal'[q].reviews
               /\ proposal'[q] # None /\ (\A b \in Actor : ~Approves(b, q)) =>
                    proposal'[q].reviews = filed[q]
               /\ \A b \in Actor :
                    Approves(b, q) /\ (\A e \in Actor : Approves(e, q) => e = b) =>
                      cmd[b].copy.reviews = filed[q]
    <3>1. Uncrossed(q)
      BY DEF EvolutionInv, AllUncrossed
    <3>2. CASE q = p
      BY <1>2, <1>3, <1>7, <1>8, <3>2 DEF Approves
    <3>3. CASE q # p
      BY <1>3, <2>1, <3>1, <3>3 DEF Uncrossed
    <3> QED
      BY <3>2, <3>3
  <2> QED
    BY <1>1, <2>1 DEF AllUncrossed, Uncrossed, Holds, Approves, evidence
<1>11. PICK S \in SUBSET Actor : S = {}
  OBVIOUS
<1>12. InForce'
  BY <1>1, <1>4, <1>11, CalmKeeps DEF tree, evidence
<1> QED
  BY <1>1, <1>4, <1>5, <1>6, <1>9, <1>10, <1>11, <1>12, StepKeeps DEF tree, evidence, RulesStay
-----------------------------------------------------------------------------
(* The invariant holds at first, and every step keeps it.                  *)
LEMMA Begins == Init => EvolutionInv
<1> SUFFICES ASSUME Init PROVE EvolutionInv
  OBVIOUS
<1>1. /\ \A a \in Actor : cmd[a] = None /\ late[a] = 0
      /\ \A p \in Proposal : proposal[p] = None /\ filed[p] = <<>>
      /\ enforced = None
  BY DEF Init
<1>2. /\ tip \in [Branch -> Commit \cup {None}] /\ TipsOK
      /\ \A b \in Branch : tip[b] # None => tip[b].enforced = None
  <2>1. PICK commit \in Commit : commit = Snapshot /\ commit # None /\ commit.enforced = None
    <3>1. constitution \in Text /\ glock \in Text \cup {NoLock} /\ done \subseteq Ticket
      BY ConstantsAssumption DEF Init
    <3>2. Snapshot \in Commit
      BY <1>1, <3>1 DEF Snapshot, Commit
    <3>3. Snapshot.enforced = None /\ Snapshot # None
      BY <1>1, <3>2, NoneAssumption DEF Snapshot
    <3> QED
      BY <3>2, <3>3
  <2>2. PICK cut : tip = [b \in Branch |-> IF b \in cut \cup {Main} THEN commit ELSE None]
    BY <2>1 DEF Init
  <2> QED
    BY <2>1, <2>2 DEF Init, TipsOK, Branch
<1>3. TypeOK
  <2>1. <<>> \in Reviews
    BY EmptySeq DEF Reviews
  <2>2. constitution \in Text /\ glock \in Text \cup {NoLock}
    BY ConstantsAssumption DEF Init
  <2>3. filed \in FiledType
    BY <2>1 DEF Init, FiledType
  <2>4. calls \in [commands: 0 .. MaxCommands, outside: 0 .. MaxOutside]
    BY ConstantsAssumption DEF Init
  <2>5. Rest
    BY <1>1, <1>2, <2>2, <2>3, <2>4 DEF Init, Rest, FileType, Branch
  <2> QED
    BY <2>5, TypeFacts DEF Init, CmdType
<1>4. CommandsOK /\ ProposalsOK /\ LateOK
  BY <1>1 DEF CommandsOK, ProposalsOK, ProposalOK, LateOK
<1>5. AllUncrossed
  BY <1>1 DEF AllUncrossed, Uncrossed, Holds, Approves
<1>6. EnforcedOK /\ InForce
  BY <1>1, <1>2 DEF EnforcedOK, Reviewed, InForce, Pending
<1> QED
  BY <1>2, <1>3, <1>4, <1>5, <1>6 DEF EvolutionInv

(* Every step on a proposal keeps the invariant.                           *)
LEMMA ProposalStepKeeps ==
  ASSUME EvolutionInv, NEW a \in Actor, ProposalStep(a), Tally
  PROVE  EvolutionInv'
<1>1. ASSUME NEW p \in Proposal, BeginApply(a, p) PROVE EvolutionInv'
  BY <1>1, BeginApplyKeeps
<1>2. ASSUME NEW p \in Proposal, BeginDistill(a, p) PROVE EvolutionInv'
  BY <1>2, BeginDistillKeeps
<1>3. ASSUME NEW p \in Proposal, NEW decision \in {"approved", "rejected"},
             BeginApprove(a, p, decision)
      PROVE  EvolutionInv'
  BY <1>3, BeginApproveKeeps
<1>4. CASE SaveReview(a)
  BY <1>4, SaveReviewKeeps
<1>5. CASE Compile(a)
  BY <1>5, CompileKeeps
<1>6. CASE SaveApplied(a)
  BY <1>6, SaveAppliedKeeps
<1>7. CASE LogApplied(a)
  BY <1>7, LogAppliedKeeps
<1>8. CASE SaveDistilled(a)
  BY <1>8, SaveDistilledKeeps
<1> QED
  BY <1>1, <1>2, <1>3, <1>4, <1>5, <1>6, <1>7, <1>8 DEF ProposalStep

(* Every step of a command keeps the invariant.                            *)
LEMMA OwnStepKeeps ==
  ASSUME EvolutionInv, NEW a \in Actor, Step(a), Tally
  PROVE  EvolutionInv'
<1>1. ASSUME NEW t \in Ticket, NEW ops \in PatchList \cup {<<>>}, BeginDo(a, t, ops)
      PROVE  EvolutionInv'
  BY <1>1, BeginDoKeeps
<1>2. ASSUME NEW written \in SUBSET Path, NEW text \in Text, RunDo(a, written, text)
      PROVE  EvolutionInv'
  BY <1>2, RunDoKeeps
<1>3. CASE Authorize(a)
  BY <1>3, AuthorizeKeeps
<1>4. CASE Write(a)
  BY <1>4, WriteKeeps
<1>5. CASE FinishDo(a)
  BY <1>5, FinishDoKeeps
<1>6. ASSUME NEW edits \in {<<>>} \cup {<<edit>> : edit \in Edit}, BeginPolicySet(a, edits)
      PROVE  EvolutionInv'
  BY <1>6, BeginPolicySetKeeps
<1>7. CASE CompilePolicy(a)
  BY <1>7, CompilePolicyKeeps
<1>8. CASE Stop(a)
  BY <1>8, StopKeeps
<1> QED
  BY <1>1, <1>2, <1>3, <1>4, <1>5, <1>6, <1>7, <1>8 DEF Step

(* Every outside step keeps the invariant.                                 *)
LEMMA OutsideStepKeeps ==
  ASSUME EvolutionInv, OutsideStep, Tally
  PROVE  EvolutionInv'
<1>1. CASE BuildGovernance
  BY <1>1, BuildGovernanceKeeps
<1>2. CASE CooldownOver
  BY <1>2, CooldownOverKeeps
<1>3. ASSUME NEW t \in Ticket \cup {None}, Relock(t) PROVE EvolutionInv'
  BY <1>3, RelockKeeps
<1>4. ASSUME NEW path \in Path, NEW text \in Text, EditByHand(path, text) PROVE EvolutionInv'
  BY <1>4, EditByHandKeeps
<1>5. ASSUME NEW p \in Proposal, NEW ops \in PatchList, EditPatch(p, ops) PROVE EvolutionInv'
  BY <1>5, EditPatchKeeps
<1>6. ASSUME NEW p \in Proposal, NEW ops \in PatchList, NEW draft \in Drafts,
             Propose(p, draft, ops)
      PROVE  EvolutionInv'
  BY <1>6, ProposeKeeps
<1>7. CASE GitCommit
  BY <1>7, GitCommitKeeps
<1>8. ASSUME NEW b \in Branch, GitCheckout(b) PROVE EvolutionInv'
  BY <1>8, GitCheckoutKeeps
<1> QED
  BY <1>1, <1>2, <1>3, <1>4, <1>5, <1>6, <1>7, <1>8 DEF OutsideStep

(* Stuttering keeps the invariant.                                         *)
LEMMA StutterKeeps ==
  ASSUME EvolutionInv, UNCHANGED vars
  PROVE  EvolutionInv'
<1>1. /\ UNCHANGED <<constitution, dirty, branch, tip, glock, lock, done, proposal, patch, cooling>>
      /\ UNCHANGED <<cmd, filed, crossed, enforced, slipped, late, calls>>
  BY DEF vars, tree, evidence
<1>2. TypeOK'
  BY <1>1 DEF EvolutionInv, TypeOK
<1>3. CommandsOK'
  <2>1. Grown
    BY <1>1 DEF Grown
  <2>2. ASSUME NEW b \in Actor PROVE RunsOK(b)'
    <3>1. PICK c : c = cmd[b]
      OBVIOUS
    <3>2. ASSUME c # None PROVE CommandOK(c)'
      <4>1. TypeOK /\ c \in Command /\ CommandOK(c) /\ Follows(c, c)
        BY <3>1, <3>2, OwnCommand DEF Follows
      <4> QED
        BY <1>1, <2>1, <4>1, FollowerOK
    <3> QED
      BY <1>1, <3>1, <3>2, RunsAs
  <2> QED
    BY <2>2 DEF CommandsOK, RunsOK
<1>4. ProposalsOK' /\ LateOK'
  BY <1>1 DEF EvolutionInv, ProposalsOK, ProposalOK, Embeds, LateOK
<1>5. AllUncrossed'
  BY <1>1 DEF EvolutionInv, AllUncrossed, Uncrossed, Holds, Approves
<1>6. EnforcedOK' /\ InForce'
  BY <1>1 DEF EvolutionInv, EnforcedOK, Reviewed, Approvers, InForce, Pending
<1>7. TipsOK'
  BY <1>1 DEF EvolutionInv, TipsOK
<1> QED
  BY <1>2, <1>3, <1>4, <1>5, <1>6, <1>7 DEF EvolutionInv

(* Every step keeps the invariant.                                         *)
LEMMA NextKeeps == EvolutionInv /\ [Next]_vars => EvolutionInv'
<1> SUFFICES ASSUME EvolutionInv, [Next]_vars PROVE EvolutionInv'
  OBVIOUS
<1>1. CASE UNCHANGED vars
  BY <1>1, StutterKeeps
<1>2. CASE Next
  <2>1. Tally
    BY <1>2 DEF Next
  <2>2. ASSUME NEW a \in Actor, Step(a) PROVE EvolutionInv'
    BY <2>1, <2>2, OwnStepKeeps
  <2>3. ASSUME NEW a \in Actor, ProposalStep(a) PROVE EvolutionInv'
    BY <2>1, <2>3, ProposalStepKeeps
  <2>4. CASE OutsideStep
    BY <2>1, <2>4, OutsideStepKeeps
  <2> QED
    BY <1>2, <2>2, <2>3, <2>4 DEF Next
<1> QED
  BY <1>1, <1>2

-----------------------------------------------------------------------------
(* Every reachable state of the engine and the evolution protocol has the  *)
(* inductive invariant.                                                    *)
THEOREM EvolutionInvariant == Spec => []EvolutionInv
<1>1. Init => EvolutionInv
  BY Begins
<1>2. EvolutionInv /\ [Next]_vars => EvolutionInv'
  BY NextKeeps
<1> QED
  BY <1>1, <1>2, PTL DEF Spec

(* The files and commands keep their types.                                *)
THEOREM EvolutionTypes == Spec => []TypeOK
<1>1. EvolutionInv => TypeOK
  BY DEF EvolutionInv
<1> QED
  BY <1>1, EvolutionInvariant, PTL

(* A command writes at most the one file it was about to write when the    *)
(* ticket lock or the policy went: _apply_patches asks again for each.     *)
THEOREM LateOnce == Spec => []OneLateWrite
<1>1. EvolutionInv => OneLateWrite
  BY DEF EvolutionInv, LateOK, OneLateWrite
<1> QED
  BY <1>1, EvolutionInvariant, PTL

(* A proposal that no two commands held at once has all its filed reviews. *)
THEOREM NoReviewLost == Spec => []ReviewsCounted
<1>1. EvolutionInv => ReviewsCounted
  <2> SUFFICES ASSUME EvolutionInv, NEW p \in Proposal, p \notin crossed,
                      \A a \in Holders(p) : cmd[a].op # "approve", proposal[p] # None
               PROVE  proposal[p].reviews = filed[p]
    BY DEF ReviewsCounted
  <2>1. \A a \in Actor : ~Approves(a, p)
    BY DEF Holders, Approves, Holds
  <2> QED
    BY <2>1 DEF EvolutionInv, AllUncrossed, Uncrossed
<1> QED
  BY <1>1, EvolutionInvariant, PTL

(* The policy that apply_proposal put in force, or that a checkout of an   *)
(* earlier commit brought back to force, has the approvals that its        *)
(* proposal requires and, while every write had its authority, is what     *)
(* that proposal's patch says.                                             *)
THEOREM PolicyReviewed == Spec => []ReviewedPolicy
<1>1. EvolutionInv => ReviewedPolicy
  BY DEF EvolutionInv, EnforcedOK, Reviewed, InForce, ReviewedPolicy
<1> QED
  BY <1>1, EvolutionInvariant, PTL

(* A do that nobody disturbed leaves a tree that audit has nothing against *)
(* but the lock of the finished ticket and any clash of rule ids.          *)
THEOREM AuditPassed == Spec => []DoPassesAudit
<1>1. EvolutionInv => DoPassesAudit
  <2> SUFFICES ASSUME EvolutionInv, NEW a \in Actor, At(a, "marked"), cmd[a].alone
               PROVE  AuditIssues(cmd[a].ticket) \subseteq
                        {"STALE_LOCK_DONE_TICKET", "RULE_SANITY"}
    BY DEF DoPassesAudit
  <2>1. PICK t : t = cmd[a].ticket
    OBVIOUS
  <2>2. branch = t /\ DiffAccepted(t)
    BY <2>1 DEF EvolutionInv, CommandsOK, CommandOK, Marked, At
  <2>3. BranchIssues(t) \subseteq {"STALE_LOCK_DONE_TICKET"}
    BY <2>2 DEF BranchIssues, DiffAccepted
  <2>4. Intact(glock, constitution)
    BY <2>2 DEF DiffAccepted
  <2> QED
    BY <2>1, <2>3, <2>4 DEF AuditIssues
<1> QED
  BY <1>1, EvolutionInvariant, PTL

=============================================================================

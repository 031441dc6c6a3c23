----------------------------- MODULE Governance -----------------------------
(***************************************************************************)
(* exo/kernel/governance.py: the constitution is a text with policy        *)
(* blocks; compiling it writes the governance lock, the rules beside the   *)
(* hash of the text they come from.  A text stands for its hash, and a     *)
(* lock, which one read of the text fills, for the text it was made from.  *)
(* The kernel's name and version are those of the running kernel.          *)
(***************************************************************************)
EXTENDS FiniteSets

CONSTANTS
  Text,    \* texts .exo/CONSTITUTION.md may have
  Path,    \* the paths a governed command may be asked to write
  Blocks,  \* the policy blocks of each text
  NoLock   \* there is no .exo/governance.lock.json

FileAction == {"read", "write", "delete"}

(* A policy block; one without an id or a type has "" there.  Patterns are *)
(* the set of paths they match, and no patterns match every path.          *)
Rule == [id: STRING, type: STRING, actions: SUBSET FileAction, patterns: SUBSET Path]

ASSUME BlocksAssumption ==
  /\ \A t \in Text : \A r \in Blocks[t] : r \in Rule
  /\ NoLock \notin Text

(* compile_constitution refuses a text with a block that lacks an id or a  *)
(* type.                                                                   *)
Compiles(t) == \A r \in Blocks[t] : r.id # "" /\ r.type # ""

(* verify_integrity: there is a lock, and its hash is that of the text. *)
Intact(lock, text) == lock # NoLock /\ lock = text

(* sanity_check_rules: an id names one rule. *)
Sane(lock) == \A r, s \in Blocks[lock] : r.id = s.id => r = s

(* _rule_applies *)
Applies(r, action, path) ==
  /\ r.actions = {} \/ action \in r.actions
  /\ r.patterns = {} \/ path \in r.patterns

Matching(lock, type, action, path) ==
  {r \in Blocks[lock] : r.type = type /\ Applies(r, action, path)}

(* evaluate_filesystem_rules: a denial holds unless a rule allows. *)
Denied(lock, action, path) ==
  /\ Matching(lock, "filesystem_deny", action, path) # {}
  /\ Matching(lock, "filesystem_allow", action, path) = {}
=============================================================================

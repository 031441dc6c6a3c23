---------------------------- MODULE MCEvolution ----------------------------
(* A human and a trusted agent, a governance and an ordinary ticket, the   *)
(* constitution and a practice file.                                       *)
EXTENDS Evolution

CONSTANTS human, agent, gov, work

MCText == {"initial", "proposed"}
MCPath == {"CONSTITUTION", "practice"}
MCArea == [path \in MCPath |-> IF path = "CONSTITUTION" THEN "constitution" ELSE path]

(* The proposed text denies what an id it uses twice allows in part.       *)
MCBlock(type, patterns) ==
  [id |-> "R1", type |-> type, actions |-> {"write"}, patterns |-> patterns]
MCBlocks == [t \in MCText |->
  IF t = "initial" THEN {}
  ELSE {MCBlock("filesystem_deny", {}), MCBlock("filesystem_allow", {"CONSTITUTION"})}]

MCScope == [t \in {gov, work} |-> IF t = gov THEN MCPath ELSE {"practice"}]
(* The governance ticket has a branch from the start, the other's is cut. *)
MCCut == {{gov}}
MCMaxFiles == [t \in {gov, work} |-> IF t = gov THEN 2 ELSE 1]
MCTicketType == [t \in {gov, work} |-> IF t = gov THEN "governance" ELSE "feature"]

MCEdit(path, text) == [path |-> path, text |-> text]
MCPatchList == {<<MCEdit("practice", "proposed"), MCEdit("CONSTITUTION", "proposed")>>}
MCDrafts == {[kind |-> "governance_change", ticket |-> gov, approvals |-> 1, human |-> TRUE],
             [kind |-> "practice_change", ticket |-> gov, approvals |-> 1, human |-> FALSE]}
=============================================================================

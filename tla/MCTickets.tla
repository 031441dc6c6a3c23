----------------------------- MODULE MCTickets -----------------------------
(* Features share a lane for one ticket, docs have none.                   *)
EXTENDS Tickets, Sequences, TLC

CONSTANTS a1, a2

MCLaneOf == [type \in {"feature", "docs"} |-> IF type = "feature" THEN "feature" ELSE None]
MCLaneLimit == [lane \in {"feature"} |-> 1]
MCSeeds == {Seeded}
(* An epic of no intent, a task that repeats a follow-up, and one at work. *)
MCPlanned ==
  {Plain("epic", None),
   [Plain("task", 1) EXCEPT !.blockers = {2}, !.title = "tags"],
   [Plain("task", 3) EXCEPT !.type = "docs", !.status = "active"]}
MCSymmetry == Permutations({a1, a2})
=============================================================================

----------------------------- MODULE MCSession -----------------------------
(* Bounded instances of Session: two actors, one of them named after the   *)
(* other, and tickets whose scopes all overlap.                            *)
EXTENDS Session, TLC

CONSTANTS a1, a2, t1, t2

OneTicket == {t1}
TwoTickets == {t1, t2}

AllClash == {p \in Ticket \X Ticket : p[1] # p[2]}

NamedAfter == {<<a2, a1>>}

Symmetric == Permutations(Ticket)
=============================================================================

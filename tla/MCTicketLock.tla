--------------------------- MODULE MCTicketLock ---------------------------
(* Three processes of two actors (p1 and p2 share actor a1) and two        *)
(* tickets: enough for a stale reader, a stale releaser and two rightful   *)
(* owners that succeed each other.                                         *)
EXTENDS TicketLock, TLC

CONSTANTS p1, p2, p3, a1, a2, t1, t2

MCProcess == {p1, p2, p3}
MCActor == {a1, a2}
MCActorOf == p1 :> a1 @@ p2 :> a1 @@ p3 :> a2
MCTicket == {t1, t2}
MCDuration == {1, 2}

MCSymmetry == {f @@ g : f \in Permutations(MCTicket), g \in Permutations({p1, p2})}
=============================================================================

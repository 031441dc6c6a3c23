---------------------------- MODULE MCGitLease ----------------------------
(* Two agents, each in a clone of its own that acts for one owner.  In one *)
(* clone any number of processes run plain lock commands too, which ask    *)
(* for more time than the leases do.                                       *)
EXTENDS GitLease, TLC

CONSTANTS g1, g2, a1, a2, c1, c2, t1

MCOwners == c1 :> {a1} @@ c2 :> {a2}
MCCloneOf == g1 :> c1 @@ g2 :> c2
MCPlain == c1 :> {2} @@ c2 :> {}
MCNoSkew == [c \in Clone |-> 0]
=============================================================================

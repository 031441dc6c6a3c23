--------------------------- MODULE LeaseRegister ---------------------------
(***************************************************************************)
(* What the distributed lease promises to its users, with every command    *)
(* an atomic step on one register per ticket.  A lease passes from one     *)
(* owner to another only once it has expired, or through an empty          *)
(* register; the fencing token counts the owners and renewals since the    *)
(* register was last empty; keeping the token never shortens the lease.    *)
(***************************************************************************)
EXTENDS Integers

CONSTANTS Ticket, Actor, NoLease

VARIABLES now, lease

vars == <<now, lease>>

Record == [owner: Actor, expires: Nat, fencing: Nat \ {0}]

Init ==
  /\ now = 0
  /\ lease = [t \in Ticket |-> NoLease]

(* Only the register of t changes, and it comes to hold a lease. *)
Writes(t) ==
  /\ lease' \in [Ticket -> Record \cup {NoLease}]
  /\ lease'[t] # NoLease
  /\ \A u \in Ticket \ {t} : lease'[u] = lease[u]
  /\ now' = now

Grant(t) ==
  /\ lease[t] = NoLease
  /\ Writes(t)
  /\ lease'[t].fencing = 1

Renew(t) ==
  /\ lease[t] # NoLease
  /\ Writes(t)
  /\ lease'[t].owner = lease[t].owner
  /\ \/ lease'[t].fencing = lease[t].fencing + 1
     \/ /\ lease'[t].fencing = lease[t].fencing
        /\ lease'[t].expires >= lease[t].expires

TakeOver(t) ==
  /\ lease[t] # NoLease
  /\ now >= lease[t].expires
  /\ Writes(t)
  /\ lease'[t].owner # lease[t].owner
  /\ lease'[t].fencing = lease[t].fencing + 1

Withdraw(t) ==
  /\ lease' = [lease EXCEPT ![t] = NoLease]
  /\ now' = now

Tick ==
  /\ now' = now + 1
  /\ UNCHANGED lease

Next ==
  \/ \E t \in Ticket : Grant(t) \/ Renew(t) \/ TakeOver(t) \/ Withdraw(t)
  \/ Tick

Spec == Init /\ [][Next]_vars
=============================================================================

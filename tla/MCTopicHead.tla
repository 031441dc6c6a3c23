---------------------------- MODULE MCTopicHead ----------------------------
(* Two processes and two topics that share the heads file. *)
EXTENDS TopicHead, TLC

CONSTANTS p1, p2, t1, t2

MCSymmetry == Permutations(Process) \cup Permutations(Topic)
=============================================================================

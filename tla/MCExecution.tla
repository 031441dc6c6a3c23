---------------------------- MODULE MCExecution ----------------------------
(* One or two workers, a client, and one intent or two. *)
EXTENDS Execution, TLC

CONSTANTS w1, w2, c1, i1, i2

MCOneWorker == {w1}
MCTwoWorkers == {w1, w2}
MCOneClient == {c1}
MCOneIntent == {i1}
MCTwoIntents == {i1, i2}
MCPolicy == {"ALLOW", "DENY"}
MCOverriding == {"SANDBOX", "DENY"}
MCDenyOnly == {"DENY"}
MCStatus == {"OK", "FAIL"}
MCOneStatus == {"FAIL"}
MCSymmetry == Permutations({w1, w2})
=============================================================================

----------------------------- MODULE MCStoreLock -----------------------------
(***************************************************************************)
(* Small instances of StoreLock for TLC.                                   *)
(***************************************************************************)
EXTENDS StoreLock

CONSTANTS w1, w2, w3, q1, q2

MCTwoWorkers   == {w1, w2}
MCThreeWorkers == {w1, w2, w3}
MCRequests     == {q1, q2}
=============================================================================

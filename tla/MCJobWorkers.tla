---------------------------- MODULE MCJobWorkers ----------------------------
(* Small instances of JobWorkers for TLC. *)
EXTENDS JobWorkers, TLC

CONSTANTS i1, r1, w1, w2
=============================================================================

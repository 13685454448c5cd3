--------------------------- MODULE MCLocalCapture ---------------------------
(* Small instances of LocalCapture for TLC. *)
EXTENDS LocalCapture

CONSTANTS e1, e2, e3, d1, d2
=============================================================================

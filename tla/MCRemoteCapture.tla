--------------------------- MODULE MCRemoteCapture ---------------------------
(* Small instances of RemoteCapture for TLC. *)
EXTENDS RemoteCapture

CONSTANTS e1, e2, e3

EventSymmetry == Permutations(Events)

ASSUME RelayPerEvent == OneRelayPerEvent
=============================================================================

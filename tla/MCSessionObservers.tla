-------------------------- MODULE MCSessionObservers --------------------------
(* A prompt before the working directory is known and a Stop with one.      *)
(* Three events, so that a late lookup and two observations are under way   *)
(* together.                                                                *)
EXTENDS SessionObservers

MCInputs == {[state |-> "working", cwd |-> FALSE], [state |-> "waiting", cwd |-> TRUE]}
=============================================================================

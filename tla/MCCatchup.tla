------------------------------ MODULE MCCatchup ------------------------------
(* Two runs; transcripts whose lines name no model, or each another one.    *)
EXTENDS Catchup, Sequences, TLC

CONSTANTS r1, r2, ma, mb

MCNoModels == <<None, None>>

MCTwoModels == <<ma, mb>>

RunSymmetry == Permutations(Runs)
=============================================================================

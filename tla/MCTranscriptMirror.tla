-------------------------- MODULE MCTranscriptMirror --------------------------
(* Two lines, each of another model; the custom title comes after a         *)
(* generated one, which a restart or a backfill writes again.               *)
EXTENDS TranscriptMirror

CONSTANTS m1, m2

MCLineModel == <<m1, m2>>

MCTitles == <<"ai", "custom">>
=============================================================================

------------------------------ MODULE MCCodeSync ------------------------------
(* Two files, of which the first is in git; two branches; one entry to a    *)
(* commit, so that a change takes several.                                  *)
EXTENDS CodeSync

MCAll == {"write", "delete", "revert", "commit", "push", "checkout", "github", "remove"}
=============================================================================

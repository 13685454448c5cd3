------------------------------ MODULE MCPalace ------------------------------
(* Two documents, the first depending on the second; two clients, one of    *)
(* them with two calls at a time.                                           *)
EXTENDS Palace, TLC

CONSTANTS d1, d2, c1, c2, o1, o2, o3

MCClientOf == (o1 :> c1) @@ (o2 :> c1) @@ (o3 :> c2)

MCDepends == {<<d1, d2>>}

MCInitial == (d1 :> "ready") @@ (d2 :> "in_progress")

Request(kind, doc, arg, force) == [kind |-> kind, doc |-> doc, arg |-> arg, force |-> force]

MCMenu ==
    {Request("edit", d1, "clear", FALSE),
     Request("claim", d1, "none", FALSE), Request("claim", d1, "none", TRUE),
     Request("status", d2, "complete", FALSE),
     Request("delete", d1, "none", FALSE), Request("create", d1, "in_progress", FALSE),
     Request("push", d1, "newer", FALSE), Request("pull", d1, "newer", FALSE)}

(* The clock of the client with one call is ahead.                          *)
MCAhead == (c1 :> {0}) @@ (c2 :> {1})

(* A lock file is stale a tick later than a lease runs out.                 *)
MCMaxNow == [clued |-> 2, file |-> 3]

Symmetry == Permutations({o1, o2})
=============================================================================

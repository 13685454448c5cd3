----------------------------- MODULE MCCodeIndex -----------------------------
(* GitHub's worktree 0 on the default branch 1, two checkouts of branch 2,  *)
(* of which one is also on branch 1.                                        *)
EXTENDS CodeIndex, TLC

MCDefault == [w \in {0, 1, 2} |-> 1]

(* What git has of the two files at each commit; 0 is no file.              *)
Main1 == <<1, 1>>
Main2 == <<2, 1>>
Feat1 == <<3, 1>>
Feat2 == <<0, 1>>

(* The entries of a checkout: its HEAD, its upstream and its files.         *)
Entries(h, u, d) ==
    [p \in {q \in Paths : d[q] # 0} |-> [sha |-> d[p], oid |-> h[p], dirty |-> d[p] # h[p], unpushed |-> u[p] # h[p]]]

At(c, h) == [up |-> c, head |-> c, entries |-> Entries(h, h, h)]

MCCheckouts ==
    (<<0, 1>> :> {At(1, Main1), At(2, Main2)})
    @@ (<<1, 2>> :> {At(1, Feat1),
                     [up |-> 1, head |-> 1, entries |-> Entries(Feat1, Feat1, <<9, 1>>)],
                     [up |-> 1, head |-> 1, entries |-> Entries(Feat1, Feat1, <<0, 1>>)],
                     [up |-> 2, head |-> 1, entries |-> Entries(Feat1, Feat2, <<9, 1>>)]})
    @@ (<<2, 2>> :> {At(1, Feat1), At(2, Feat2)})
    @@ (<<2, 1>> :> {[up |-> 1, head |-> 1, entries |-> Entries(Main1, Main1, <<1, 7>>)]})

MCStart ==
    <<[key |-> <<0, 1>>, up |-> 1, head |-> 1, entries |-> Entries(Main1, Main1, Main1)],
      [key |-> <<1, 2>>, up |-> 1, head |-> 1, entries |-> Entries(Feat1, Feat1, <<9, 1>>)]>>

MCDoes == [p \in Procs |-> IF p = "loop" THEN {"turn"} ELSE {"check", "rebuild", "purge"}]
=============================================================================

----------------------------- MODULE CodeLayers -----------------------------
(***************************************************************************)
(* Which files make up the layers of a project's code graph (codeindex/     *)
(* layers.go): the base, a branch layer for every pushed commit that a      *)
(* checkout is on, and an overlay for every checkout; the difference        *)
(* between two selections; which lower files a layer hides (apply.go); and  *)
(* what a view of the graph shows (codegraph/view.go).  Pure operators.     *)
(***************************************************************************)
EXTENDS Naturals, FiniteSets

CONSTANTS
    Paths,     \* numbered in their order, like all names below; 0 is no name
    Worktrees,
    Refs,
    GitHub,    \* the worktrees that GitHub backs
    Default    \* [Worktrees -> Refs \cup {0}]: the default branch each reports

(* A tree has the key <<worktree, ref>>.  Its entries are a function on the *)
(* paths it has; sha is 0 when the content was not sent, oid when HEAD does *)
(* not have the path.  up is 0 for a branch that was never pushed.          *)
Entry == [sha : Nat, oid : Nat, dirty : BOOLEAN, unpushed : BOOLEAN]

NoFiles == [p \in {} |-> 0]

Tomb == [sha |-> 0, oid |-> 0, del |-> TRUE]

(* A plan maps the ids of its layers to their node and files.               *)
Base == <<"base">>
BranchLayerID(ref, commit) == <<"branch", ref, commit>>
WorktreeLayerID(k) == <<"wt", k[1], k[2]>>

NoPlan == [l \in {} |-> NoFiles]

(* argmax: the name with the largest count, the smallest on a tie.          *)
ArgMax(S, count(_)) ==
    IF S = {} THEN 0
    ELSE CHOOSE x \in S : \A y \in S : count(x) > count(y) \/ (count(x) = count(y) /\ x <= y)

IsGitHub(k) == k[1] \in GitHub

PushedCommit(trees, k) ==
    IF trees[k].up # 0 THEN trees[k].up ELSE IF IsGitHub(k) THEN trees[k].head ELSE 0

(* newer: the upstream was seen later, then the later change, then the id.  *)
Newer(trees, j, k) ==
    \/ trees[j].upSeq > trees[k].upSeq
    \/ trees[j].upSeq = trees[k].upSeq /\ trees[j].seq > trees[k].seq
    \/ trees[j].upSeq = trees[k].upSeq /\ trees[j].seq = trees[k].seq /\ j[1] < k[1]

(* defaultBranch: GitHub's, else the one most worktrees report.             *)
DefaultBranch(live) ==
    LET reported == {k[1] : k \in live} \ {w \in Worktrees : Default[w] = 0}
        github   == reported \cap GitHub
        Votes(r) == Cardinality({w \in reported : Default[w] = r})
    IN  IF github # {} THEN Default[CHOOSE w \in github : \A o \in github : w <= o]
        ELSE ArgMax({Default[w] : w \in reported}, Votes)

(* baseSources: GitHub's tree, else the trees at the newest commit.         *)
BaseSources(trees, live, def) ==
    LET pushed == {k \in live : def # 0 /\ k[2] = def /\ PushedCommit(trees, k) # 0}
        cands  == IF \E k \in pushed : IsGitHub(k) THEN {k \in pushed : IsGitHub(k)} ELSE pushed
        Best(k) == \A j \in cands \ {k} : Newer(trees, k, j)
    IN  {k \in cands : \E b \in cands : /\ Best(b)
                                        /\ IF IsGitHub(b) THEN k = b
                                           ELSE PushedCommit(trees, k) = PushedCommit(trees, b)}

(* pushedKnowledge and resolve: what the sources say of a path at the       *)
(* commit they are on.                                                      *)
Has(trees, k, p) == p \in DOMAIN trees[k].entries

Reports(trees, src, p) ==
    {k \in src : Has(trees, k, p) /\ ~ trees[k].entries[p].unpushed /\ trees[k].entries[p].oid # 0}

PushedFile(trees, src, p) ==
    LET pushed == Reports(trees, src, p)
        Trees(oid) == Cardinality({k \in pushed : trees[k].entries[p].oid = oid})
        oid    == ArgMax({trees[k].entries[p].oid : k \in pushed}, Trees)
        clean  == {k \in pushed : /\ trees[k].entries[p].oid = oid
                                  /\ ~ trees[k].entries[p].dirty /\ trees[k].entries[p].sha # 0}
        Sent(sha) == Cardinality({k \in clean : trees[k].entries[p].sha = sha})
    IN  [sha |-> ArgMax({trees[k].entries[p].sha : k \in clean}, Sent), oid |-> oid, del |-> FALSE]

PushedState(trees, src, p) ==
    IF Reports(trees, src, p) # {} THEN "present"
    ELSE IF \E k \in src : Has(trees, k, p) /\ trees[k].entries[p].unpushed THEN "unknown" ELSE "absent"

BaseFiles(trees, src) ==
    [p \in {q \in Paths : PushedState(trees, src, q) = "present"} |-> PushedFile(trees, src, p)]

(* A branch layer: what differs from the base, and what it no longer has.   *)
BranchFiles(trees, src, base) ==
    LET new  == {p \in Paths : /\ PushedState(trees, src, p) = "present"
                               /\ p \in DOMAIN base => base[p].oid # PushedFile(trees, src, p).oid}
        gone == {p \in DOMAIN base : PushedState(trees, src, p) = "absent"}
    IN  [p \in new \cup gone |-> IF p \in new THEN PushedFile(trees, src, p) ELSE Tomb]

(* stack                                                                    *)
Stack(lower, upper) ==
    LET gone == {p \in DOMAIN upper : upper[p].del}
    IN  [p \in (DOMAIN lower \cup DOMAIN upper) \ gone |-> IF p \in DOMAIN upper THEN upper[p] ELSE lower[p]]

(* Mutant: a file the checkout no longer has is not taken out of its view.  *)
OverlayFiles_NoTombs(trees, k, below) ==
    LET own == {p \in DOMAIN trees[k].entries : trees[k].entries[p].dirty \/ trees[k].entries[p].unpushed}
    IN  [p \in own |-> [sha |-> trees[k].entries[p].sha, oid |-> trees[k].entries[p].oid, del |-> FALSE]]

(* An overlay: the dirty and unpushed entries, and what the checkout no     *)
(* longer has of the files below.                                           *)
OverlayFiles(trees, k, below) ==
    LET own  == {p \in DOMAIN trees[k].entries : trees[k].entries[p].dirty \/ trees[k].entries[p].unpushed}
        gone == DOMAIN below \ DOMAIN trees[k].entries
    IN  [p \in own \cup gone |->
            IF p \in gone THEN Tomb
            ELSE [sha |-> trees[k].entries[p].sha, oid |-> trees[k].entries[p].oid, del |-> FALSE]]

(* Select, over the trees of worktrees that are not removed.                *)
Select(trees) ==
    LET live    == {k \in DOMAIN trees : DOMAIN trees[k].entries # {}}
        def     == DefaultBranch(live)
        baseSrc == BaseSources(trees, live, def)
        base    == BaseFiles(trees, baseSrc)
        bottom  == IF baseSrc = {} THEN <<>> ELSE Base
        On(k)   == BranchLayerID(k[2], PushedCommit(trees, k))
        pushed  == {k \in live : ~ (def # 0 /\ k[2] = def) /\ PushedCommit(trees, k) # 0}
        Group(l) == LET ts == {k \in pushed : On(k) = l} gh == {k \in ts : IsGitHub(k)}
                    IN  IF gh # {} THEN gh ELSE ts
        Branch(l) == BranchFiles(trees, Group(l), base)
        clients == {k \in live : ~ IsGitHub(k)}
        Below(k) == IF k \in pushed THEN Stack(base, Branch(On(k))) ELSE base
    IN  [l \in (IF baseSrc = {} THEN {} ELSE {Base}) \cup {On(k) : k \in pushed} \cup {WorktreeLayerID(k) : k \in clients} |->
            IF l = Base
            THEN [parent |-> <<>>, ref |-> def, files |-> base,
                  commit |-> PushedCommit(trees, CHOOSE k \in baseSrc : TRUE)]
            ELSE IF l[1] = "branch"
            THEN [parent |-> bottom, ref |-> l[2], commit |-> l[3], files |-> Branch(l)]
            ELSE LET k == <<l[2], l[3]>>
                 IN  [parent |-> IF k \in pushed THEN On(k) ELSE bottom, ref |-> l[3],
                      commit |-> trees[k].head, files |-> OverlayFiles(trees, k, Below(k))]]

(* DropIdleOverlays                                                         *)
DropIdleOverlays(plan, idle) ==
    [l \in {m \in DOMAIN plan : ~ (m[1] = "wt" /\ plan[m].files = NoFiles /\ m[2] \in idle)} |-> plan[l]]

-----------------------------------------------------------------------------
(* Diff: the files to put and the paths to remove, layer by layer.          *)
Node(layer) == [parent |-> layer.parent, ref |-> layer.ref, commit |-> layer.commit]

FilesIn(plan, l) == IF l \in DOMAIN plan THEN plan[l].files ELSE NoFiles

Puts(prev, next, l) ==
    {p \in DOMAIN next[l].files : p \notin DOMAIN FilesIn(prev, l) \/ FilesIn(prev, l)[p] # next[l].files[p]}

Removes(prev, next, l) == DOMAIN FilesIn(prev, l) \ DOMAIN next[l].files

Changed(prev, next) ==
    {l \in DOMAIN next : \/ l \notin DOMAIN prev \/ Node(prev[l]) # Node(next[l])
                         \/ Puts(prev, next, l) # {} \/ Removes(prev, next, l) # {}}

(* ancestors: the layers below, as far as the plan holds them.  No plan     *)
(* stacks more than three.                                                  *)
Ancestors(plan, l) ==
    LET Parent(m) == IF m \in DOMAIN plan /\ plan[m].parent \in DOMAIN plan THEN {plan[m].parent} ELSE {}
    IN  Parent(l) \cup UNION {Parent(m) : m \in Parent(l)}

Holds(plan, l, p) == p \in DOMAIN FilesIn(plan, l)

HiddenBy(plan, l, p) == {h \in DOMAIN plan : l \in Ancestors(plan, h) /\ Holds(plan, h, p)}

(* Mutant: a layer that moved onto another does not hide its files.         *)
Affected_NoMoves(prev, next) ==
    {ap \in (DOMAIN next) \X Paths :
        \E l \in Changed(prev, next) : /\ ap[2] \in Puts(prev, next, l) \cup Removes(prev, next, l)
                                       /\ ap[1] \in Ancestors(next, l) \cup Ancestors(prev, l)}

(* The (layer, path) pairs whose hiddenBy a batch may change: those below a *)
(* put or a removed path, and below every path of a layer that moved.       *)
Affected(prev, next) ==
    {ap \in (DOMAIN next) \X Paths :
        \E l \in DOMAIN next :
            /\ \/ l \in Changed(prev, next) /\ ap[2] \in Puts(prev, next, l) \cup Removes(prev, next, l)
               \/ /\ l \in DOMAIN prev /\ Ancestors(next, l) # Ancestors(prev, l)
                  /\ ap[2] \in DOMAIN next[l].files \cup DOMAIN prev[l].files
            /\ ap[1] \in Ancestors(next, l) \cup Ancestors(prev, l)}

(* Of these, the files that stay in place: the others are written anyway.   *)
Hides(prev, next) ==
    {ap \in Affected(prev, next) :
        /\ Holds(next, ap[1], ap[2]) /\ Holds(prev, ap[1], ap[2])
        /\ ap[2] \notin Puts(prev, next, ap[1])}

-----------------------------------------------------------------------------
(* A graph maps its layers to their node and files; a file also has the     *)
(* layers that hide it.  PlanFromGraph leaves these out.                    *)
PlanFromGraph(graph) ==
    [l \in DOMAIN graph |->
        [parent |-> graph[l].parent, ref |-> graph[l].ref, commit |-> graph[l].commit,
         files |-> [p \in DOMAIN graph[l].files |->
                      [sha |-> graph[l].files[p].sha, oid |-> graph[l].files[p].oid, del |-> graph[l].files[p].del]]]]

(* View: a layer and those below it; FileVisible.                           *)
View(graph, l) == {l} \cup Ancestors(graph, l)

Visible(graph, view, p) ==
    {l \in view : /\ l \in DOMAIN graph /\ p \in DOMAIN graph[l].files
                  /\ ~ graph[l].files[p].del /\ graph[l].files[p].by \cap view = {}}
=============================================================================
